------------------------------- MODULE Accounts -------------------------------
(***************************************************************************)
(* The account commands (internal/auth) and the profile commands            *)
(* (internal/features/profile), run by concurrent requests and event        *)
(* handlers against one event store and one table of subject keys.          *)
(*                                                                         *)
(* A command loads the latest events its query asks for, decides, possibly  *)
(* reads, creates or destroys the subject key of its user, and saves one    *)
(* event with the query and the position it read at.  Each of these is a    *)
(* call of its own, and everything else may happen in between.  A refused   *)
(* or skipped command leaves no trace, so only accepted ones are actions.   *)
(*                                                                         *)
(* Commands that read the projections first, and the handlers that run a    *)
(* command for an event, are taken to act on any user the log knows and any *)
(* event in it; AccountSystem computes what they really see.  Mail and      *)
(* image files leave the system and are not kept.                           *)
(***************************************************************************)
EXTENDS EventStore

CONSTANTS
    User,             \* ids given to registrations
    Username, Email,
    Name, Bio, Password,
    NoName,           \* a blank first and last name, which only a registration may have
    NoBio,            \* the bio before the first update
    Request,          \* commands in flight at once
    Idle,
    Rounds,           \* reads a validation tries before it gives up (5 in the code)
    NewAccount,       \* bound: the accounts that registrations ask for
    Mixes,            \* bound: what meets in one behaviour, event types and "expiry"
    MaxEvents         \* bound: length of the log

ASSUME NameAssumption == Username \subseteq Name /\ NoName \notin Name
ASSUME NoBioAssumption == NoBio \in Bio
ASSUME RoundsAssumption == Rounds \in Nat \ {0}
ASSUME AccountsBoundAssumption == MaxEvents \in Nat

VARIABLES
    log,      \* the event store
    keys,     \* the users with a row in subject_pii_keys
    expired,  \* the verification codes whose time is over
    request   \* what each command in flight has in hand

vars == <<log, keys, expired, request>>

-------------------------------------------------------------------------------
(* Events.  "id" is the event's own id, a fresh UUID in the code and here the *)
(* position it is saved at; "about" is the id of the event it refers to.      *)

Id == 0..MaxEvents

UserRegistered == [type : {"UserRegistered"}, id : Id, user : User, username : Username,
                   email : Email, name : Name \cup {NoName}, password : Password]
UserNameChanged == [type : {"UserNameChanged"}, id : Id, user : User, name : Name]
EmailVerificationOTPGenerated ==
    [type : {"EmailVerificationOTPGenerated"}, id : Id, user : User]
EmailVerificationOTPValidated ==
    [type : {"EmailVerificationOTPValidated"}, id : Id, user : User, about : Id]
EmailVerificationOTPSent == [type : {"EmailVerificationOTPSent"}, id : Id, about : Id]
PasswordResetRequested == [type : {"PasswordResetRequested"}, id : Id, user : User]
PasswordResetEmailSent == [type : {"PasswordResetEmailSent"}, id : Id, about : Id]
PasswordResetCompleted == [type : {"PasswordResetCompleted"}, id : Id, user : User,
                           about : Id, password : Password]
PasswordChanged == [type : {"PasswordChanged"}, id : Id, user : User, password : Password]
AccountDeletionRequested == [type : {"AccountDeletionRequested"}, id : Id, user : User]
AccountDeleted == [type : {"AccountDeleted"}, id : Id, user : User, about : Id]
ProfileBioUpdated == [type : {"ProfileBioUpdated"}, id : Id, user : User, bio : Bio]
ProfileImageUploaded == [type : {"ProfileImageUploaded"}, id : Id, user : User]
ProfileHeaderImageUploaded == [type : {"ProfileHeaderImageUploaded"}, id : Id, user : User]

Event == UNION {
    UserRegistered, UserNameChanged, EmailVerificationOTPGenerated,
    EmailVerificationOTPValidated, EmailVerificationOTPSent, PasswordResetRequested,
    PasswordResetEmailSent, PasswordResetCompleted, PasswordChanged,
    AccountDeletionRequested, AccountDeleted, ProfileBioUpdated, ProfileImageUploaded,
    ProfileHeaderImageUploaded}

-------------------------------------------------------------------------------
(* Queries, named for what they ask.                                        *)

TypeOfUser(type, u) == {[type |-> type, user |-> u]}
TypeAbout(type, i) == {[type |-> type, about |-> i]}
TypeWithId(type, i) == {[type |-> type, id |-> i]}

UserRegisteredQuery(u) == TypeOfUser("UserRegistered", u)

\* Faulty variant: the email is forgotten.
RegisteredByUsernameQuery(event) ==
    {[type |-> "UserRegistered", username |-> event.username]}

UserRegisteredByUsernameOrEmailQuery(event) ==
    {[type |-> "UserRegistered", username |-> event.username],
     [type |-> "UserRegistered", email |-> event.email]}

\* Faulty variant: a validation does not matter to the next code.
GeneratedOnlyQuery(u) ==
    UserRegisteredQuery(u) \cup TypeOfUser("EmailVerificationOTPGenerated", u)

\* Faulty variant: nor does an earlier code.
ValidatedOnlyQuery(u) ==
    UserRegisteredQuery(u) \cup TypeOfUser("EmailVerificationOTPValidated", u)

GenerateQuery(u) ==
    UserRegisteredQuery(u)
    \cup TypeOfUser("EmailVerificationOTPGenerated", u)
    \cup TypeOfUser("EmailVerificationOTPValidated", u)

ValidateQuery(u, code) ==
    TypeOfUser("EmailVerificationOTPGenerated", u)
    \cup TypeAbout("EmailVerificationOTPValidated", code)
    \cup UserRegisteredQuery(u)

SendCodeQuery(code, u) ==
    TypeWithId("EmailVerificationOTPGenerated", code)
    \cup UserRegisteredQuery(u)
    \cup TypeAbout("EmailVerificationOTPSent", code)

SendResetQuery(i) ==
    TypeWithId("PasswordResetRequested", i) \cup TypeAbout("PasswordResetEmailSent", i)

CompleteResetQuery(i) ==
    TypeWithId("PasswordResetRequested", i) \cup TypeAbout("PasswordResetCompleted", i)

ChangePasswordQuery(u) ==
    UserRegisteredQuery(u) \cup TypeOfUser("PasswordChanged", u)

\* Faulty variant: earlier changes are not asked for.
NameOfRegistrationQuery(u) == UserRegisteredQuery(u)

UpdateNameQuery(u) == UserRegisteredQuery(u) \cup TypeOfUser("UserNameChanged", u)

\* Faulty variant: an earlier request is not asked for.
DeletedOnlyQuery(u) == UserRegisteredQuery(u) \cup TypeOfUser("AccountDeleted", u)

RequestDeletionQuery(u) ==
    UserRegisteredQuery(u)
    \cup TypeOfUser("AccountDeletionRequested", u)
    \cup TypeOfUser("AccountDeleted", u)

CompleteDeletionQuery(i, u) ==
    TypeOfUser("AccountDeletionRequested", u) \cup TypeAbout("AccountDeleted", i)

UpdateBioQuery(u) == UserRegisteredQuery(u) \cup TypeOfUser("ProfileBioUpdated", u)

UploadImageQuery(type, u) == UserRegisteredQuery(u) \cup TypeOfUser(type, u)

-------------------------------------------------------------------------------
(* The statements on subject_pii_keys.                                      *)

CreateSubjectPiiKey(u) == keys \cup {u}
SubjectPiiKey(u) == u \in keys
DeleteSubjectPiiKey(u) == keys \ {u}

-------------------------------------------------------------------------------
(* What a command finds in the events it loads.                             *)

Finds(query) == \E i \in DOMAIN log : InQuery(log[i], query)

Registered(u) == Finds(UserRegisteredQuery(u))

\* The last event of the query, NoEventPosition without one.
Newest(query) == CHOOSE p \in 0..Len(log) : IsContextPosition(p, log, query)

NewestCode(u) == Newest(TypeOfUser("EmailVerificationOTPGenerated", u))

\* A registration with blank names stands for the username.
DisplayName(event) == IF event.name = NoName THEN event.username ELSE event.name

CurrentName(u) == DisplayName(log[Newest(UpdateNameQuery(u))])

CurrentBio(u) ==
    LET i == Newest(TypeOfUser("ProfileBioUpdated", u))
    IN  IF i = NoEventPosition THEN NoBio ELSE log[i].bio

-------------------------------------------------------------------------------
(* Commands.  A command in flight knows what it does next, the query and the *)
(* position of its context and the event it is going to save.                *)

Hold(r, context) == request' = [request EXCEPT ![r] = context]

\* What a behaviour has met so far: the types of the events saved and of those in
\* flight, and "expiry" when a code has expired.
Met ==
    {log[i].type : i \in DOMAIN log}
    \cup {request[r].event.type : r \in {q \in Request : request[q] # Idle}}
    \cup (IF expired = {} THEN {} ELSE {"expiry"})

MayMeet(kind) == \E mix \in Mixes : Met \cup {kind} \subseteq mix

\* GetLatestByCriteria for query; the command goes on with what comes next.
Load(r, next, query, event) ==
    /\ MayMeet(event.type)
    /\ \E p \in 0..Len(log) :
         /\ IsContextPosition(p, log, query)
         /\ Hold(r, [next |-> next, round |-> 0, position |-> p, query |-> query,
                     event |-> event])
    /\ UNCHANGED <<log, keys, expired>>

\* A command that has not loaded yet.
Start(r, next, round, event) ==
    /\ MayMeet(event.type)
    /\ Hold(r, [next |-> next, round |-> round, position |-> NoEventPosition, query |-> {},
                event |-> event])
    /\ UNCHANGED <<log, keys, expired>>

Return(r) == Hold(r, Idle)

At(r, next) == request[r] # Idle /\ request[r].next = next

\* Faulty variant: an id that another registration already has in hand.
Unused(u) ==
    /\ u \notin keys
    /\ ~ Registered(u)

\* The id of a registration is a fresh UUID.
Fresh(u) ==
    /\ u \notin keys
    /\ ~ Registered(u)
    /\ \A r \in Request :
         request[r] # Idle /\ "user" \in DOMAIN request[r].event => request[r].event.user # u

Register(r, event) ==
    /\ request[r] = Idle
    /\ Fresh(event.user)
    /\ ~ Finds(UserRegisteredByUsernameOrEmailQuery(event))
    /\ Load(r, "createKey", UserRegisteredByUsernameOrEmailQuery(event), event)

\* By the registration's event handler or by a request for another code.
GenerateCode(r, u) ==
    /\ request[r] = Idle
    /\ Registered(u)
    /\ ~ Finds(TypeOfUser("EmailVerificationOTPValidated", u))
    /\ NewestCode(u) \in expired \cup {NoEventPosition}
    /\ Load(r, "save", GenerateQuery(u),
            [type |-> "EmailVerificationOTPGenerated", id |-> NoEventPosition, user |-> u])

\* The validation has to know the newest code to ask whether it has been validated:
\* it guesses, reads the newest one, and reads again with it until the two agree.
Validation(u, code) == [type |-> "EmailVerificationOTPValidated", id |-> NoEventPosition,
                        user |-> u, about |-> code]

StartValidate(r, u) ==
    /\ request[r] = Idle
    /\ Registered(u)
    /\ Start(r, "readCode", 1, Validation(u, NoEventPosition))

\* Faulty variant: the first code read is taken for the newest.
ReadCodeOnce(r) ==
    /\ At(r, "readCode")
    /\ LET u == request[r].event.user
       IN  /\ NewestCode(u) # NoEventPosition
           /\ ~ Finds(TypeAbout("EmailVerificationOTPValidated", request[r].event.about))
           /\ Load(r, "save", ValidateQuery(u, request[r].event.about), Validation(u, NewestCode(u)))

ReadCodeAgain(r) ==
    /\ At(r, "readCode")
    /\ LET u == request[r].event.user
       IN  /\ NewestCode(u) \notin {NoEventPosition, request[r].event.about}
           /\ IF request[r].round = Rounds THEN Return(r) /\ UNCHANGED <<log, keys, expired>>
              ELSE Start(r, "readCode", request[r].round + 1, Validation(u, NewestCode(u)))

\* The user typed the newest code, it is in time and was not validated before.
ReadCodeStable(r) ==
    /\ At(r, "readCode")
    /\ LET u == request[r].event.user
           code == request[r].event.about
       IN  /\ code = NewestCode(u) /\ code \notin expired \cup {NoEventPosition}
           /\ ~ Finds(TypeAbout("EmailVerificationOTPValidated", code))
           /\ Load(r, "save", ValidateQuery(u, code), Validation(u, code))

\* By the code's event handler; the mail leaves between the key and the save.
SendCode(r, code) ==
    /\ request[r] = Idle
    /\ code \in DOMAIN log /\ log[code].type = "EmailVerificationOTPGenerated"
    /\ ~ Finds(TypeAbout("EmailVerificationOTPSent", code))
    /\ Load(r, "readKey", SendCodeQuery(code, log[code].user),
            [type |-> "EmailVerificationOTPSent", id |-> NoEventPosition, about |-> code])

RequestReset(r, u) ==
    /\ request[r] = Idle
    /\ Registered(u)
    /\ Load(r, "readKey", UserRegisteredQuery(u),
            [type |-> "PasswordResetRequested", id |-> NoEventPosition, user |-> u])

SendReset(r, i) ==
    /\ request[r] = Idle
    /\ i \in DOMAIN log /\ log[i].type = "PasswordResetRequested"
    /\ ~ Finds(TypeAbout("PasswordResetEmailSent", i))
    /\ Load(r, "readKey", SendResetQuery(i),
            [type |-> "PasswordResetEmailSent", id |-> NoEventPosition, about |-> i])

\* With a token the projection knows.
ResetPassword(r, i, password) ==
    /\ request[r] = Idle
    /\ i \in DOMAIN log /\ log[i].type = "PasswordResetRequested"
    /\ ~ Finds(TypeAbout("PasswordResetCompleted", i))
    /\ Load(r, "save", CompleteResetQuery(i),
            [type |-> "PasswordResetCompleted", id |-> NoEventPosition, user |-> log[i].user,
             about |-> i, password |-> password])

\* With the password the projection has.
ChangePassword(r, u, password) ==
    /\ request[r] = Idle
    /\ Registered(u)
    /\ Load(r, "save", ChangePasswordQuery(u),
            [type |-> "PasswordChanged", id |-> NoEventPosition, user |-> u, password |-> password])

UpdateName(r, u, name) ==
    /\ request[r] = Idle
    /\ Registered(u)
    /\ CurrentName(u) # name
    /\ Load(r, "readKey", UpdateNameQuery(u),
            [type |-> "UserNameChanged", id |-> NoEventPosition, user |-> u, name |-> name])

\* The bio command takes the key before it reads the log.
StartUpdateBio(r, u, bio) ==
    /\ request[r] = Idle
    /\ SubjectPiiKey(u)
    /\ Start(r, "readBio", 0,
             [type |-> "ProfileBioUpdated", id |-> NoEventPosition, user |-> u, bio |-> bio])

ReadBio(r) ==
    /\ At(r, "readBio")
    /\ LET event == request[r].event
       IN  /\ Registered(event.user)
           /\ CurrentBio(event.user) # event.bio
           /\ Load(r, "save", UpdateBioQuery(event.user), event)

\* The file is stored before the save.
UploadImage(r, u, type) ==
    /\ request[r] = Idle
    /\ Registered(u)
    /\ Load(r, "save", UploadImageQuery(type, u),
            [type |-> type, id |-> NoEventPosition, user |-> u])

\* The handler itself looks for no registration: its caller is signed in, with a row of
\* auth_user that only a registration puts there.
RequestDeletion(r, u) ==
    /\ request[r] = Idle
    /\ ~ Finds(TypeOfUser("AccountDeletionRequested", u) \cup TypeOfUser("AccountDeleted", u))
    /\ Registered(u)
    /\ Load(r, "save", RequestDeletionQuery(u),
            [type |-> "AccountDeletionRequested", id |-> NoEventPosition, user |-> u])

\* By the deletion's event handler, for the user's newest request.
CompleteDeletion(r, i) ==
    /\ request[r] = Idle
    /\ i \in DOMAIN log /\ log[i].type = "AccountDeletionRequested"
    /\ Newest(TypeOfUser("AccountDeletionRequested", log[i].user)) = i
    /\ ~ Finds(TypeAbout("AccountDeleted", i))
    /\ Load(r, "deleteData", CompleteDeletionQuery(i, log[i].user),
            [type |-> "AccountDeleted", id |-> NoEventPosition, user |-> log[i].user, about |-> i])

-------------------------------------------------------------------------------
(* The rest of a command.                                                    *)

Proceed(r, next) == Hold(r, [request[r] EXCEPT !.next = next])

Subject(event) == IF "user" \in DOMAIN event THEN event.user ELSE log[event.about].user

\* GetOrCreateSubjectDataKey: the key comes before the registration is saved.
CreateKey(r) ==
    /\ At(r, "createKey")
    /\ keys' = CreateSubjectPiiKey(request[r].event.user)
    /\ Proceed(r, "save")
    /\ UNCHANGED <<log, expired>>

\* GetSubjectDataKey: without a key the command ends with ErrNotFound.
ReadKey(r) ==
    /\ At(r, "readKey")
    /\ IF SubjectPiiKey(Subject(request[r].event)) THEN Proceed(r, "save") ELSE Return(r)
    /\ UNCHANGED <<log, keys, expired>>

\* The tables are those of AccountSystem.
DeleteData(r) ==
    /\ At(r, "deleteData")
    /\ Proceed(r, "destroyKey")
    /\ UNCHANGED <<log, keys, expired>>

\* Faulty variant: the key stays.
KeepKey(r) ==
    /\ At(r, "destroyKey")
    /\ Proceed(r, "save")
    /\ UNCHANGED <<log, keys, expired>>

DestroyKey(r) ==
    /\ At(r, "destroyKey")
    /\ keys' = DeleteSubjectPiiKey(request[r].event.user)
    /\ Proceed(r, "save")
    /\ UNCHANGED <<log, expired>>

\* ErrConflict: a request answers with it, an event handler runs its command again.
SaveConflict(r) ==
    /\ At(r, "save")
    /\ Conflicts(log, request[r].position, request[r].query)
    /\ Return(r)
    /\ UNCHANGED <<log, keys, expired>>

\* Faulty variant: the save does not pass the position it read at.
SaveUnconditionally(r) ==
    /\ At(r, "save")
    /\ Len(log) < MaxEvents
    /\ log' = Append(log, [request[r].event EXCEPT !.id = Len(log) + 1])
    /\ Return(r)
    /\ UNCHANGED <<keys, expired>>

SaveCommit(r) ==
    /\ At(r, "save")
    /\ Len(log) < MaxEvents
    /\ ~ Conflicts(log, request[r].position, request[r].query)
    /\ log' = Append(log, [request[r].event EXCEPT !.id = Len(log) + 1])
    /\ Return(r)
    /\ UNCHANGED <<keys, expired>>

\* The client goes away, a call fails or the process stops.
Abort(r) ==
    /\ request[r] # Idle
    /\ Return(r)
    /\ UNCHANGED <<log, keys, expired>>

\* Fifteen minutes later.
Expire(i) ==
    /\ i \in DOMAIN log /\ log[i].type = "EmailVerificationOTPGenerated"
    /\ i \notin expired
    /\ MayMeet("expiry")
    /\ expired' = expired \cup {i}
    /\ UNCHANGED <<log, keys, request>>

Continue(r) ==
    \/ ReadCodeAgain(r) \/ ReadCodeStable(r) \/ ReadBio(r)
    \/ CreateKey(r) \/ ReadKey(r) \/ DestroyKey(r)
    \/ SaveConflict(r) \/ Abort(r)

Registration ==
    {event \in UserRegistered : /\ event.id = NoEventPosition
                               /\ [username |-> event.username, email |-> event.email,
                                   name |-> event.name, password |-> event.password] \in NewAccount}

Init ==
    /\ log = << >>
    /\ keys = {}
    /\ expired = {}
    /\ request = [r \in Request |-> Idle]

Next ==
    \/ \E r \in Request, event \in Registration : Register(r, event)
    \/ \E r \in Request, u \in User :
         \/ GenerateCode(r, u) \/ StartValidate(r, u)
         \/ RequestReset(r, u) \/ RequestDeletion(r, u)
         \/ \E password \in Password : ChangePassword(r, u, password)
         \/ \E name \in Name : UpdateName(r, u, name)
         \/ \E bio \in Bio : StartUpdateBio(r, u, bio)
         \/ \E type \in {"ProfileImageUploaded", "ProfileHeaderImageUploaded"} :
              UploadImage(r, u, type)
    \/ \E r \in Request, i \in 1..MaxEvents :
         \/ SendCode(r, i) \/ SendReset(r, i) \/ CompleteDeletion(r, i)
         \/ \E password \in Password : ResetPassword(r, i, password)
    \/ \E r \in Request : Continue(r) \/ DeleteData(r) \/ SaveCommit(r)
    \/ \E i \in 1..MaxEvents : Expire(i)

Spec == Init /\ [][Next]_vars

-------------------------------------------------------------------------------
\* Every event has the id of its position, expired codes are codes, a command that
\* saves has loaded, and a registration is only one command's.
TypeOK ==
    /\ log \in Seq(Event)
    /\ \A i \in DOMAIN log : log[i].id = i
    /\ keys \subseteq User
    /\ \A i \in expired : i \in DOMAIN log /\ log[i].type = "EmailVerificationOTPGenerated"
    /\ \A r \in Request : request[r] # Idle =>
         /\ request[r].event \in Event
         /\ request[r].position \in 0..Len(log)
         /\ (request[r].query = {}) <=> (request[r].next \in {"readCode", "readBio"})
         /\ request[r].round \in 0..Rounds
         /\ request[r].event.type = "UserRegistered" => ~ Registered(request[r].event.user)

\* A username and an email are registered once for ever, also when two registrations
\* that both found them free save at the same time, and also after deletion.
IdentityTakenOnce ==
    \A i, j \in DOMAIN log :
        /\ log[i].type = "UserRegistered" /\ log[j].type = "UserRegistered" /\ i # j
        => /\ log[i].username # log[j].username
           /\ log[i].email # log[j].email
           /\ log[i].user # log[j].user

\* What may happen once happens once, although requests are repeated and event
\* handlers run their command again for an event they have handled: one mail recorded
\* per code and per reset, one reset per request, one validation, one deletion request
\* and one deletion per user.
OncePerSubject ==
    \A i, j \in DOMAIN log :
        log[i].type = log[j].type /\ i # j =>
        CASE log[i].type \in {"EmailVerificationOTPSent", "PasswordResetEmailSent",
                              "PasswordResetCompleted"} -> log[i].about # log[j].about
          [] log[i].type \in {"EmailVerificationOTPValidated", "AccountDeletionRequested",
                              "AccountDeleted"} -> log[i].user # log[j].user
          [] OTHER -> TRUE

\* A user has one live code: also when the registration's handler and several requests
\* for another code run at once, a code is saved only after the ones before it expired.
OneLiveCode ==
    \A i, j \in DOMAIN log :
        /\ log[i].type = "EmailVerificationOTPGenerated" /\ log[j].type = log[i].type
        /\ log[i].user = log[j].user /\ After(j, i)
        => i \in expired

\* Only the newest code of a user is ever validated, and no code follows: generation
\* and validation race each other through two different queries.
NewestCodeValidated ==
    \A i, j \in DOMAIN log :
        /\ log[i].type = "EmailVerificationOTPValidated"
        /\ log[j].type = "EmailVerificationOTPGenerated"
        /\ log[j].user = log[i].user
        => j <= log[i].about

\* The key of a registered user disappears only after its deletion was requested and
\* is gone for good once AccountDeleted is saved, however often the completion failed
\* half way and was run again.
KeysFollowDeletion ==
    \A u \in User :
        /\ Registered(u) /\ u \notin keys => Finds(TypeOfUser("AccountDeletionRequested", u))
        /\ Finds(TypeOfUser("AccountDeleted", u)) => u \notin keys

\* A saved name or bio differs from the one before it, where a registration without a
\* name counts with its username: of two equal updates at once only one is saved.
UpdatesChange ==
    \A i, j \in DOMAIN log :
        /\ After(j, i)
        /\ \/ /\ log[j].type = "UserNameChanged"
              /\ log[i].type \in {"UserRegistered", "UserNameChanged"}
              /\ DisplayName(log[i]) = log[j].name
           \/ /\ log[j].type = "ProfileBioUpdated" /\ log[i].type = "ProfileBioUpdated"
              /\ log[i].bio = log[j].bio
        /\ log[i].user = log[j].user
        => \E k \in (i + 1)..(j - 1) : InQuery(log[k], TypeOfUser(log[j].type, log[j].user))

\* What a command found when it loaded, asked of the log as it is.
StillRight(event) ==
    CASE event.type = "UserRegistered" -> ~ Finds(UserRegisteredByUsernameOrEmailQuery(event))
      [] event.type = "EmailVerificationOTPGenerated" ->
           /\ ~ Finds(TypeOfUser("EmailVerificationOTPValidated", event.user))
           /\ NewestCode(event.user) \in expired \cup {NoEventPosition}
      [] event.type = "EmailVerificationOTPValidated" ->
           /\ ~ Finds(TypeAbout("EmailVerificationOTPValidated", event.about))
           /\ NewestCode(event.user) = event.about
      [] event.type \in {"EmailVerificationOTPSent", "PasswordResetEmailSent",
                         "PasswordResetCompleted"} -> ~ Finds(TypeAbout(event.type, event.about))
      [] event.type = "UserNameChanged" -> CurrentName(event.user) # event.name
      [] event.type = "ProfileBioUpdated" -> CurrentBio(event.user) # event.bio
      [] event.type = "AccountDeletionRequested" ->
           ~ Finds(TypeOfUser("AccountDeletionRequested", event.user)
                   \cup TypeOfUser("AccountDeleted", event.user))
      [] event.type = "AccountDeleted" ->
           /\ ~ Finds(TypeAbout("AccountDeleted", event.about))
           /\ Newest(TypeOfUser("AccountDeletionRequested", event.user)) = event.about
      [] OTHER -> TRUE

\* The boundary of every command is wide enough: whatever was committed since it loaded,
\* through keys, mails and deleted tables in between, its save conflicts or all it found
\* is still so.  Only the time may be over: a code may expire between load and save.
DecisionsHold ==
    \A r \in Request :
        At(r, "save") /\ ~ Conflicts(log, request[r].position, request[r].query)
        => StillRight(request[r].event)

-------------------------------------------------------------------------------
\* The state of an account that the log stands for.
StateOf(u) ==
    IF Finds(TypeOfUser("AccountDeleted", u)) THEN "deleted"
    ELSE IF Finds(TypeOfUser("AccountDeletionRequested", u)) THEN "deleting"
    ELSE IF Registered(u) THEN "registered"
    ELSE "none"

Identity(u) == {<<log[i].username, log[i].email>> :
    i \in {k \in DOMAIN log : log[k].type = "UserRegistered" /\ log[k].user = u}}

Lifecycle == INSTANCE AccountLifecycle WITH
    account <- [u \in User |-> StateOf(u)],
    identity <- [u \in User |-> Identity(u)],
    verified <- [u \in User |-> Finds(TypeOfUser("EmailVerificationOTPValidated", u))]

\* The log behaves as AccountLifecycle says: every save that commits, whatever was
\* committed since its command loaded, is one legal step of one account.
ImplementsAccountLifecycle == Lifecycle!Spec

===============================================================================
