-------------------------- MODULE AccountSystemProofs --------------------------
(***************************************************************************)
(* Accounts end to end, for any users and requests, a log of any length and *)
(* any number of resets.                                                    *)
(*                                                                         *)
(* Every step of the system is a step of Accounts, leaves the commands      *)
(* alone, or ends them all (a reset), so that what AccountsProofs shows     *)
(* holds here.  On top of it the tables are related to the log: what a      *)
(* column shows is the last event of its query up to where its handler      *)
(* stands, and until a reset nobody is signed in whose registration might   *)
(* still be delivered again.                                                *)
(***************************************************************************)
EXTENDS AccountSystem, AccountsProofs

-------------------------------------------------------------------------------
(* The log and the commands.                                                *)

\* The server stops: no command goes on.
Stops ==
    /\ request' = [r \in Request |-> Idle]
    /\ UNCHANGED <<log, keys, expired>>

\* A request is a command of Accounts.
LEMMA WebCommandIsNext ==
    ASSUME NEW r \in Web, WebCommand(r)
    PROVE  Next
<1> USE DEF Web
<1>1. CASE SignedOut(r)
  BY <1>1 DEF SignedOut, Next
<1>2. ASSUME NEW u \in User, SignedIn(r, u) PROVE Next
  BY <1>2 DEF SignedIn, Next
<1>3. CASE Continue(r) \/ SaveCommit(r)
  BY <1>3 DEF Next
<1> QED BY <1>1, <1>2, <1>3 DEF WebCommand

\* What a step of the system does to the commands.
LEMMA SystemSteps ==
    ASSUME LogInv, [SystemNext]_systemVars
    PROVE  [Next]_vars \/ Stops
<1>1. CASE UNCHANGED systemVars
  BY <1>1 DEF systemVars
<1>2. ASSUME NEW u \in User,
             CheckPassword(u) \/ CreateSession(u) \/ Logout(u) \/ RequireVerifiedEmail(u)
      PROVE  UNCHANGED vars
  BY <1>2 DEF CheckPassword, CreateSession, Logout, RequireVerifiedEmail
<1>3. CASE GoAway
  BY <1>3 DEF GoAway
<1>4. CASE \E r \in Web : WebCommand(r)
  BY <1>4, WebCommandIsNext
<1>5. CASE CodeExpires
  BY <1>5 DEF CodeExpires, Next
<1>6. ASSUME NEW i \in DOMAIN log,
             AuthProject(i) \/ ProfileProject(i) \/ ImageProject(i) \/ SkipDeletion(i)
      PROVE  UNCHANGED vars
  BY <1>6 DEF AuthProject, ProfileProject, ImageProject, SkipDeletion
<1>7. ASSUME NEW i \in DOMAIN log, StartDeletion(i) PROVE Next
  BY <1>7, Positions, DeletionWorkerAssumption DEF StartDeletion, Next
<1>8. ASSUME NEW h \in Handler,
             AdvanceCheckpoint(h) \/ \E i \in DOMAIN log : ReadSubjectKey(h, i)
      PROVE  UNCHANGED vars
  BY <1>8 DEF AdvanceCheckpoint, ReadSubjectKey
<1>9. CASE DeleteAccountData \/ DestroySubjectKey \/ SaveAccountDeleted \/ DeletionFails
  BY <1>9, DeletionWorkerAssumption DEF DeleteAccountData, DestroySubjectKey, SaveAccountDeleted,
     DeletionFails, Next, Continue
<1>10. CASE ResetReadModels
  BY <1>10 DEF ResetReadModels, Stops
<1> QED BY <1>1, <1>2, <1>3, <1>4, <1>5, <1>6, <1>7, <1>8, <1>9, <1>10 DEF SystemNext

\* Stopping them all keeps what holds of them.
LEMMA StopsKeeps ==
    ASSUME IInv, Stops
    PROVE  IInv'
<1>1. \A r \in Request : request'[r] = Idle
  BY DEF Stops
<1>2. LogInv' /\ Promises'
  BY DEF Stops, IInv, LogInv, HasLast, Rooted, Is, Promises, IdentityTakenOnce, OncePerSubject,
     NewestCodeValidated, OneLiveCode, KeysFollowDeletion, UpdatesChange, Finds, Registered
<1>3. RequestInv'
  BY <1>1 DEF Stops, RequestInv, OneRegistration, Registers
<1> QED BY <1>2, <1>3 DEF IInv

\* The account commands keep their invariant whatever the tables let through.
LEMMA CommandsKept == IInv /\ [SystemNext]_systemVars => IInv'
<1>1. IInv => LogInv
  BY DEF IInv
<1> QED BY <1>1, SystemSteps, StopsKeeps, InvStep

LEMMA CommandsHold == SystemSpec => []IInv
<1>1. SystemInit => IInv
  BY InitInv DEF SystemInit
<1> QED BY <1>1, CommandsKept, PTL DEF SystemSpec

\* What the log promises does not depend on what the tables show, on handlers that
\* redeliver or on resets that end commands half way.
THEOREM SystemKeepsAccounts ==
    SystemSpec => [](/\ IdentityTakenOnce /\ OncePerSubject /\ OneLiveCode /\ NewestCodeValidated
                     /\ KeysFollowDeletion /\ UpdatesChange /\ DecisionsHold)
<1>1. IInv => /\ IdentityTakenOnce /\ OncePerSubject /\ OneLiveCode /\ NewestCodeValidated
              /\ KeysFollowDeletion /\ UpdatesChange /\ DecisionsHold
  BY DecisionsFollow DEF IInv, Promises
<1> QED BY <1>1, CommandsHold, PTL

\* Accounts still follow AccountLifecycle: the web requests, the deletion and the resets
\* together take every account through its states one legal step at a time.
THEOREM SystemFollowsLifecycle == SystemSpec => ImplementsAccountLifecycle
<1>1. SystemInit => Lifecycle!Init
  BY LifecycleInit DEF SystemInit
<1>2. IInv /\ [SystemNext]_systemVars => [Lifecycle!Next]_Lifecycle!vars
  <2>1. Stops => UNCHANGED log
    BY DEF Stops
  <2>2. IInv => LogInv
    BY DEF IInv
  <2> QED BY <2>1, <2>2, SystemSteps, LifecycleStep, LifecycleStutter
<1>3. SystemSpec => Lifecycle!Init /\ [][Lifecycle!Next]_Lifecycle!vars
  BY <1>1, <1>2, CommandsHold, PTL DEF SystemSpec
<1> QED BY <1>3 DEF ImplementsAccountLifecycle, Lifecycle!Spec

-------------------------------------------------------------------------------
(* The tables have their columns.                                           *)

UserTable == [User -> AuthUserRow \cup {Null}]
ProfileTable == [User -> ProfileRow \cup {Null}]

RowsInv ==
    /\ auth_user \in UserTable
    /\ auth_account \in [User -> Password \cup {Null}]
    /\ profile_stats \in ProfileTable
    /\ \A u \in User :
         /\ (auth_user[u] = Null) = (auth_account[u] = Null)
         /\ u \in auth_session => auth_user[u] # Null

VerificationsInv ==
    \A row \in auth_verification : row.id \in DOMAIN log /\ log[row.id].user = row.user

AdmittedInv == admitted \subseteq {"password", "session"} \X User

ProgressInv ==
    /\ delivered \in [Handler -> 0..Len(log)]
    /\ checkpoint \in [Handler -> Nat]
    /\ unlocked \in [Handler -> 0..Len(log)]
    /\ \A h \in Handler :
         /\ checkpoint[h] <= delivered[h]
         /\ delivered[h] # 0 => InQuery(log[delivered[h]], QueryOf(h))
    /\ resets \in 0..MaxResets

\* account_deletion alone deletes, and is not overtaken by itself.
WorkerInv ==
    /\ \A r \in Request : request[r] # Idle =>
         (request[r].event.type = "AccountDeleted" <=> r = DeletionWorker)
    /\ request[DeletionWorker] # Idle =>
         /\ "account_deletion" \in Handler
         /\ request[DeletionWorker].event.about >= delivered["account_deletion"]

TablesInv == RowsInv /\ VerificationsInv /\ AdmittedInv /\ ProgressInv /\ WorkerInv

\* The values that the events bring.
LEMMA Columns ==
    ASSUME NEW e \in Event
    PROVE  /\ e.type \in {"UserRegistered", "UserNameChanged"} =>
                e.name \in Name \cup {NoName} /\ DisplayName(e) \in Name
           /\ e.type = "UserNameChanged" => DisplayName(e) = e.name
           /\ e.type \in {"UserRegistered", "PasswordResetCompleted", "PasswordChanged"} =>
                e.password \in Password
           /\ e.type = "ProfileBioUpdated" => e.bio \in Bio
<1>1. /\ e.type = "UserRegistered" => e \in UserRegistered
      /\ e.type = "UserNameChanged" => e \in UserNameChanged
      /\ e.type = "PasswordResetCompleted" => e \in PasswordResetCompleted
      /\ e.type = "PasswordChanged" => e \in PasswordChanged
      /\ e.type = "ProfileBioUpdated" => e \in ProfileBioUpdated
  BY DEF Event, UserRegistered, UserNameChanged, EmailVerificationOTPGenerated,
     EmailVerificationOTPValidated, EmailVerificationOTPSent, PasswordResetRequested,
     PasswordResetEmailSent, PasswordResetCompleted, PasswordChanged, AccountDeletionRequested,
     AccountDeleted, ProfileBioUpdated, ProfileImageUploaded, ProfileHeaderImageUploaded
<1>2. e \in UserRegistered => /\ e.name \in Name \cup {NoName} /\ DisplayName(e) \in Name
                             /\ e.password \in Password
  BY NameAssumption DEF UserRegistered, DisplayName
<1>3. e \in UserNameChanged => e.name \in Name /\ DisplayName(e) = e.name
  BY NameAssumption DEF UserNameChanged, DisplayName
<1>4. /\ e \in PasswordResetCompleted \cup PasswordChanged => e.password \in Password
      /\ e \in ProfileBioUpdated => e.bio \in Bio
  BY DEF PasswordResetCompleted, PasswordChanged, ProfileBioUpdated
<1> QED BY <1>1, <1>2, <1>3, <1>4

\* An UPDATE of one column leaves the others alone, and does nothing without a row.
LEMMA ColumnSet ==
    ASSUME NEW table \in UserTable, NEW u \in User, NEW column, NEW value, NEW new,
           \/ column = "name" /\ value \in Name
           \/ column = "verified" /\ value \in BOOLEAN
           \/ column = "image" /\ value \in Id,
           new = SetColumn(table, u, column, value)
    PROVE  /\ new \in UserTable
           /\ \A v \in User : v # u => new[v] = table[v]
           /\ new[u] = Null <=> table[u] = Null
           /\ table[u] # Null =>
                /\ new[u].name = IF column = "name" THEN value ELSE table[u].name
                /\ new[u].verified = IF column = "verified" THEN value ELSE table[u].verified
                /\ new[u].image = IF column = "image" THEN value ELSE table[u].image
<1>1. CASE table[u] = Null
  BY <1>1 DEF SetColumn
<1>2. CASE table[u] # Null
  <2>1. PICK old \in AuthUserRow : old = table[u]
    BY <1>2 DEF UserTable
  <2>2. PICK row : row = [old EXCEPT ![column] = value]
    OBVIOUS
  <2>3. new = [table EXCEPT ![u] = row]
    BY <1>2, <2>1, <2>2 DEF SetColumn
  <2>4. /\ row \in AuthUserRow
        /\ row.name = IF column = "name" THEN value ELSE old.name
        /\ row.verified = IF column = "verified" THEN value ELSE old.verified
        /\ row.image = IF column = "image" THEN value ELSE old.image
    <3>1. CASE column = "name" /\ value \in Name
      BY <2>2, <3>1 DEF AuthUserRow
    <3>2. CASE column = "verified" /\ value \in BOOLEAN
      BY <2>2, <3>2 DEF AuthUserRow
    <3>3. CASE column = "image" /\ value \in Id
      BY <2>2, <3>3 DEF AuthUserRow
    <3> QED BY <3>1, <3>2, <3>3
  <2>5. row # Null
    BY <2>4, NullAssumption
  <2> QED BY <1>2, <2>1, <2>3, <2>4, <2>5 DEF UserTable
<1> QED BY <1>1, <1>2

\* The profile that an upsert starts from.
OldProfile(u) ==
    IF profile_stats[u] # Null THEN profile_stats[u]
    ELSE [name |-> Null, bio |-> Null, image |-> Null, header |-> Null]

\* An upsert of one column brings the row into being.
LEMMA ProfileUpserted ==
    ASSUME NEW u \in User, profile_stats \in ProfileTable, NEW column, NEW value, NEW new,
           \/ column = "name" /\ value \in Name \cup {NoName}
           \/ column = "bio" /\ value \in Bio
           \/ column \in {"image", "header"} /\ value \in Id,
           new = UpsertProfile(u, column, value)
    PROVE  /\ new \in ProfileTable
           /\ \A v \in User : v # u => new[v] = profile_stats[v]
           /\ new[u] # Null
           /\ new[u].name = IF column = "name" THEN value ELSE OldProfile(u).name
           /\ new[u].bio = IF column = "bio" THEN value ELSE OldProfile(u).bio
           /\ new[u].image = IF column = "image" THEN value ELSE OldProfile(u).image
           /\ new[u].header = IF column = "header" THEN value ELSE OldProfile(u).header
<1>1. PICK old : old = OldProfile(u)
  OBVIOUS
<1>2. old \in ProfileRow
  BY <1>1 DEF ProfileTable, ProfileRow, OldProfile
<1>3. PICK row : row = [old EXCEPT ![column] = value]
  OBVIOUS
<1>4. new = [profile_stats EXCEPT ![u] = row]
  BY <1>1, <1>3 DEF UpsertProfile, OldProfile
<1>5. /\ row \in ProfileRow
      /\ row.name = IF column = "name" THEN value ELSE old.name
      /\ row.bio = IF column = "bio" THEN value ELSE old.bio
      /\ row.image = IF column = "image" THEN value ELSE old.image
      /\ row.header = IF column = "header" THEN value ELSE old.header
  <2>1. CASE column = "name" /\ value \in Name \cup {NoName}
    BY <1>2, <1>3, <2>1 DEF ProfileRow
  <2>2. CASE column = "bio" /\ value \in Bio
    BY <1>2, <1>3, <2>2 DEF ProfileRow
  <2>3. CASE column = "image" /\ value \in Id
    BY <1>2, <1>3, <2>3 DEF ProfileRow
  <2>4. CASE column = "header" /\ value \in Id
    BY <1>2, <1>3, <2>4 DEF ProfileRow
  <2> QED BY <2>1, <2>2, <2>3, <2>4
<1>6. row # Null
  BY <1>5, NullAssumption
<1>7. new \in ProfileTable /\ new[u] = row /\ \A v \in User : v # u => new[v] = profile_stats[v]
  BY <1>4, <1>5 DEF ProfileTable
<1> QED BY <1>1, <1>5, <1>6, <1>7

-------------------------------------------------------------------------------
(* What the callbacks do to the tables.                                     *)

AuthTypes == {"UserRegistered", "UserNameChanged", "EmailVerificationOTPGenerated",
              "EmailVerificationOTPValidated", "PasswordResetRequested",
              "PasswordResetCompleted", "PasswordChanged"}
ProfileTypes == {"UserRegistered", "UserNameChanged", "ProfileBioUpdated",
                 "ProfileImageUploaded", "ProfileHeaderImageUploaded"}
PasswordTypes == {"PasswordResetCompleted", "PasswordChanged"}

\* An event of the log that is about a user.
LEMMA EventAt ==
    ASSUME LogInv, NEW i \in DOMAIN log
    PROVE  /\ log[i] \in Event /\ i \in Id /\ log[i].id = i /\ i \in Nat /\ i # 0
           /\ log[i].type \notin SentTypes => log[i].user \in User
BY Positions, EventFields DEF Fielded

\* A registration brings the row of its user into being, the others change a column of
\* the row if there is one.
AuthEffect(e) ==
    LET u == e.user
    IN  /\ \A v \in User : v # u =>
             auth_user'[v] = auth_user[v] /\ auth_account'[v] = auth_account[v]
        /\ auth_user[u] # Null =>
             /\ auth_user'[u] # Null /\ auth_account'[u] # Null
             /\ auth_user'[u].name =
                  IF e.type = "UserNameChanged" THEN DisplayName(e) ELSE auth_user[u].name
             /\ auth_user'[u].verified =
                  IF e.type = "EmailVerificationOTPValidated" THEN TRUE
                  ELSE auth_user[u].verified
             /\ auth_user'[u].image = auth_user[u].image
             /\ auth_account'[u] =
                  IF e.type \in PasswordTypes THEN e.password ELSE auth_account[u]
        /\ auth_user[u] = Null /\ e.type # "UserRegistered" =>
             auth_user'[u] = Null /\ auth_account'[u] = Null
        /\ auth_user[u] = Null /\ e.type = "UserRegistered" =>
             /\ auth_user'[u] # Null /\ auth_account'[u] # Null
             /\ auth_user'[u].name = DisplayName(e)
             /\ auth_user'[u].verified = FALSE
             /\ auth_user'[u].image = 0
             /\ auth_account'[u] = e.password

LEMMA AuthProjected ==
    ASSUME IInv, RowsInv, NEW i \in DOMAIN log, AuthProject(i)
    PROVE  /\ log[i].type \in AuthTypes /\ log[i].user \in User /\ AuthEffect(log[i])
           /\ auth_user' \in UserTable
           /\ auth_account' \in [User -> Password \cup {Null}]
           /\ \A row \in auth_verification' :
                row \in auth_verification \/ (row.id = i /\ row.user = log[i].user)
<1>0. PICK e : e = log[i]
  OBVIOUS
<1> DEFINE u == e.user
<1>1. e \in Event /\ e.id = i /\ (e.type \notin SentTypes => u \in User)
  BY <1>0, EventAt DEF IInv
<1>2. auth_user \in UserTable /\ auth_account \in [User -> Password \cup {Null}]
  BY DEF RowsInv
<1>3. \A v \in User : auth_user[v] = Null <=> auth_account[v] = Null
  BY DEF RowsInv
<1>4. Null \notin Password /\ Null \notin AuthUserRow
  BY NullAssumption
<1>5. CASE HandleUserRegistered(e)
  <2>1. /\ e.type = "UserRegistered" /\ u \in User
        /\ DisplayName(e) \in Name /\ e.password \in Password
    BY <1>1, <1>5, Columns DEF HandleUserRegistered, SentTypes
  <2>2. PICK row : row = [name |-> DisplayName(e), verified |-> FALSE,
                           image |-> NoEventPosition]
    OBVIOUS
  <2>3. row \in AuthUserRow /\ row.name = DisplayName(e) /\ row.verified = FALSE /\ row.image = 0
    BY <2>1, <2>2, AccountsBoundAssumption DEF AuthUserRow, Id, NoEventPosition
  <2>4. /\ auth_user' = IF auth_user[u] # Null THEN auth_user ELSE [auth_user EXCEPT ![u] = row]
        /\ auth_account' = IF auth_account[u] # Null THEN auth_account
                           ELSE [auth_account EXCEPT ![u] = e.password]
        /\ auth_verification' = auth_verification
    BY <1>5, <2>2 DEF HandleUserRegistered, CreateAuthUser, CreateAuthAccount
  <2>5. AuthEffect(e)
    BY <1>2, <1>3, <1>4, <2>1, <2>3, <2>4 DEF AuthEffect, UserTable, PasswordTypes
  <2> QED BY <1>0, <1>2, <2>1, <2>3, <2>4, <2>5 DEF UserTable, AuthTypes
<1>6. CASE HandleUserNameChanged(e)
  <2>1. /\ e.type = "UserNameChanged" /\ u \in User
        /\ e.name \in Name /\ DisplayName(e) = e.name
    BY <1>1, <1>6, Columns DEF HandleUserNameChanged, SentTypes
  <2>2. PICK new : new = SetColumn(auth_user, u, "name", e.name)
    OBVIOUS
  <2>3. auth_user' = new /\ UNCHANGED <<auth_account, auth_verification>>
    BY <1>6, <2>2 DEF HandleUserNameChanged, UpdateAuthUserNameByRegisteredId
  <2>4. /\ new \in UserTable
        /\ \A v \in User : v # u => new[v] = auth_user[v]
        /\ new[u] = Null <=> auth_user[u] = Null
        /\ auth_user[u] # Null => /\ new[u].name = e.name
                                  /\ new[u].verified = auth_user[u].verified
                                  /\ new[u].image = auth_user[u].image
    BY <1>2, <2>1, <2>2, ColumnSet
  <2>5. AuthEffect(e)
    BY <1>3, <2>1, <2>3, <2>4 DEF AuthEffect, PasswordTypes
  <2> QED BY <1>0, <1>2, <2>1, <2>3, <2>4, <2>5 DEF AuthTypes
<1>7. CASE HandleEmailVerificationOTPGenerated(e)
  <2>1. e.type = "EmailVerificationOTPGenerated" /\ u \in User
    BY <1>1, <1>7 DEF HandleEmailVerificationOTPGenerated, SentTypes
  <2>2. /\ UNCHANGED <<auth_user, auth_account>>
        /\ auth_verification' = auth_verification \cup {[purpose |-> "email", user |-> u, id |-> e.id]}
    BY <1>7 DEF HandleEmailVerificationOTPGenerated, CreateAuthVerification
  <2>3. AuthEffect(e)
    BY <1>3, <2>1, <2>2 DEF AuthEffect, PasswordTypes
  <2> QED BY <1>0, <1>1, <1>2, <2>1, <2>2, <2>3 DEF AuthTypes
<1>8. CASE HandleEmailVerificationOTPValidated(e)
  <2>1. e.type = "EmailVerificationOTPValidated" /\ u \in User
    BY <1>1, <1>8 DEF HandleEmailVerificationOTPValidated, SentTypes
  <2>0. PICK true \in BOOLEAN : true = TRUE
    OBVIOUS
  <2>2. PICK new : new = SetColumn(auth_user, u, "verified", true)
    OBVIOUS
  <2>3. auth_user' = new /\ UNCHANGED <<auth_account, auth_verification>>
    BY <1>8, <2>0, <2>2 DEF HandleEmailVerificationOTPValidated, MarkAuthUserEmailVerified
  <2>4. /\ new \in UserTable
        /\ \A v \in User : v # u => new[v] = auth_user[v]
        /\ new[u] = Null <=> auth_user[u] = Null
        /\ auth_user[u] # Null => /\ new[u].name = auth_user[u].name
                                  /\ new[u].verified = true
                                  /\ new[u].image = auth_user[u].image
    BY <1>2, <2>1, <2>2, ColumnSet
  <2>5. AuthEffect(e)
    BY <1>3, <2>0, <2>1, <2>3, <2>4 DEF AuthEffect, PasswordTypes
  <2> QED BY <1>0, <1>2, <2>1, <2>3, <2>4, <2>5 DEF AuthTypes
<1>9. CASE HandlePasswordResetRequested(e)
  <2>1. e.type = "PasswordResetRequested" /\ u \in User
    BY <1>1, <1>9 DEF HandlePasswordResetRequested, SentTypes
  <2>2. /\ UNCHANGED <<auth_user, auth_account>>
        /\ \A row \in auth_verification' :
             \/ row \in auth_verification
             \/ row = [purpose |-> "password-reset", user |-> u, id |-> e.id]
    BY <1>9 DEF HandlePasswordResetRequested, CreateAuthVerification
  <2>3. AuthEffect(e)
    BY <1>3, <2>1, <2>2 DEF AuthEffect, PasswordTypes
  <2> QED BY <1>0, <1>1, <1>2, <2>1, <2>2, <2>3 DEF AuthTypes
<1>10. CASE HandlePasswordUpdated(e)
  <2>1. e.type \in PasswordTypes /\ u \in User /\ e.password \in Password
    BY <1>1, <1>10, Columns DEF HandlePasswordUpdated, SentTypes, PasswordTypes
  <2>2. /\ UNCHANGED <<auth_user, auth_verification>>
        /\ auth_account' = IF auth_account[u] = Null THEN auth_account
                           ELSE [auth_account EXCEPT ![u] = e.password]
    BY <1>10 DEF HandlePasswordUpdated, UpdateAuthAccountPassword
  <2>3. AuthEffect(e)
    BY <1>2, <1>3, <1>4, <2>1, <2>2 DEF AuthEffect, PasswordTypes
  <2> QED BY <1>0, <1>2, <2>1, <2>2, <2>3 DEF AuthTypes, PasswordTypes
<1> QED BY <1>0, <1>5, <1>6, <1>7, <1>8, <1>9, <1>10 DEF AuthProject

\* Each event sets its column.
ProfileEffect(e) ==
    LET u == e.user
    IN  /\ \A v \in User : v # u => profile_stats'[v] = profile_stats[v]
        /\ profile_stats'[u] # Null
        /\ profile_stats'[u].name =
             IF e.type \in {"UserRegistered", "UserNameChanged"} THEN e.name
             ELSE OldProfile(u).name
        /\ profile_stats'[u].bio =
             IF e.type = "ProfileBioUpdated" THEN e.bio ELSE OldProfile(u).bio
        /\ profile_stats'[u].image =
             IF e.type = "ProfileImageUploaded" THEN e.id ELSE OldProfile(u).image
        /\ profile_stats'[u].header =
             IF e.type = "ProfileHeaderImageUploaded" THEN e.id ELSE OldProfile(u).header

\* The queries of the handlers ask for types.
LEMMA AsksForTypes ==
    ASSUME NEW e \in Event
    PROVE  /\ InQuery(e, QueryOf("auth_user_projection")) <=> e.type \in AuthTypes
           /\ InQuery(e, QueryOf("profile_read_model")) <=> e.type \in ProfileTypes
           /\ InQuery(e, QueryOf("profile_image")) <=> e.type = "ProfileImageUploaded"
           /\ InQuery(e, QueryOf("account_deletion")) <=> e.type = "AccountDeletionRequested"
<1>1. \A types : InQuery(e, [type : types]) <=> e.type \in types
  <2> SUFFICES ASSUME NEW types PROVE InQuery(e, [type : types]) <=> e.type \in types
    OBVIOUS
  <2>1. ASSUME e.type \in types PROVE InQuery(e, [type : types])
    <3>1. [type |-> e.type] \in [type : types] /\ Matches(e, [type |-> e.type])
      BY <2>1, EventFields DEF Matches, Fielded
    <3> QED BY <3>1 DEF InQuery
  <2>2. ASSUME NEW criterion \in [type : types], Matches(e, criterion) PROVE e.type \in types
    BY <2>2 DEF Matches
  <2> QED BY <2>1, <2>2 DEF InQuery
<1>2. QueryOf("auth_user_projection") = [type : AuthTypes]
  BY Zenon DEF QueryOf, AuthTypes
<1>3. QueryOf("profile_read_model") = [type : ProfileTypes]
  BY Zenon DEF QueryOf, ProfileTypes
<1>4. QueryOf("profile_image") = [type : {"ProfileImageUploaded"}]
  BY Zenon DEF QueryOf
<1>5. QueryOf("account_deletion") = [type : {"AccountDeletionRequested"}]
  BY Zenon DEF QueryOf
<1>6. InQuery(e, QueryOf("auth_user_projection")) <=> e.type \in AuthTypes
  BY Zenon, <1>1, <1>2
<1>7. InQuery(e, QueryOf("profile_read_model")) <=> e.type \in ProfileTypes
  BY Zenon, <1>1, <1>3
<1>8. InQuery(e, QueryOf("profile_image")) <=> e.type \in {"ProfileImageUploaded"}
  BY Zenon, <1>1, <1>4
<1>9. InQuery(e, QueryOf("account_deletion")) <=> e.type \in {"AccountDeletionRequested"}
  BY Zenon, <1>1, <1>5
<1> QED BY <1>6, <1>7, <1>8, <1>9

\* When handler h may handle event i: it stands at i, or i is the next event it asks for.
LEMMA MayDeliverIs ==
    ASSUME NEW h, NEW i, Promise(h)!MayDeliver(i)
    PROVE  \/ i = delivered[h] /\ i # 0
           \/ /\ i \in DOMAIN log /\ InQuery(log[i], QueryOf(h))
              /\ delivered[h] = checkpoint[h]
              /\ i > delivered[h]
              /\ \A j \in DOMAIN log : j > delivered[h] /\ i > j => ~ InQuery(log[j], QueryOf(h))
BY DEF Promise!MayDeliver, Promise!NoEventPosition, Promise!Wanted, After, Promise!After,
   InQuery, Promise!InQuery, Matches, Promise!Matches

\* A callback that commits moves its handler forward, or leaves it where it is.
LEMMA DeliversIs ==
    ASSUME LogInv, ProgressInv, NEW h, NEW i \in DOMAIN log, Delivers(h, i)
    PROVE  /\ h \in Handler /\ delivered[h] \in 0..Len(log) /\ i >= delivered[h]
           /\ InQuery(log[i], QueryOf(h))
           /\ \A j \in DOMAIN log : j > delivered[h] /\ i > j => ~ InQuery(log[j], QueryOf(h))
           /\ delivered' = [delivered EXCEPT ![h] = i] /\ delivered'[h] = i
           /\ \A g \in Handler : g # h => delivered'[g] = delivered[g]
           /\ UNCHANGED <<checkpoint, auth_session, admitted, resets>>
<1>1. h \in Handler /\ delivered' = [delivered EXCEPT ![h] = i] /\ Promise(h)!MayDeliver(i)
  BY DEF Delivers
<1>2. delivered \in [Handler -> 0..Len(log)] /\ Len(log) \in Nat /\ i \in Nat /\ i # 0
  BY EventAt, Positions DEF ProgressInv
<1>3. delivered[h] # 0 => InQuery(log[delivered[h]], QueryOf(h))
  BY <1>1 DEF ProgressInv
<1>4. \/ i = delivered[h]
      \/ /\ InQuery(log[i], QueryOf(h)) /\ i > delivered[h]
         /\ \A j \in DOMAIN log : j > delivered[h] /\ i > j => ~ InQuery(log[j], QueryOf(h))
  BY <1>1, MayDeliverIs
<1>5. UNCHANGED <<checkpoint, auth_session, admitted, resets>>
  BY DEF Delivers
<1>6. CASE i = delivered[h]
  <2>1. DOMAIN log \subseteq Nat
    BY Positions
  <2> QED BY <1>1, <1>2, <1>3, <1>5, <1>6, <2>1
<1> QED BY <1>1, <1>2, <1>4, <1>5, <1>6

LEMMA ProfileProjected ==
    ASSUME IInv, RowsInv, ProgressInv, NEW i \in DOMAIN log, ProfileProject(i)
    PROVE  /\ log[i].type \in ProfileTypes /\ log[i].user \in User /\ ProfileEffect(log[i])
           /\ profile_stats' \in ProfileTable
<1>0. PICK e : e = log[i]
  OBVIOUS
<1> DEFINE u == e.user
<1>1. e \in Event /\ e.id = i /\ i \in Id /\ (e.type \notin SentTypes => u \in User)
  BY <1>0, EventAt DEF IInv
<1>2. profile_stats \in ProfileTable
  BY DEF RowsInv
<1>3. Delivers("profile_read_model", i)
  BY DEF ProfileProject
<1>4. e.type \in ProfileTypes
  BY <1>0, <1>1, <1>3, DeliversIs, AsksForTypes DEF IInv
<1>5. u \in User
  BY <1>1, <1>4 DEF ProfileTypes, SentTypes
<1>6. PICK next : next = profile_stats'
  OBVIOUS
<1>7. next = CASE e.type = "UserRegistered" -> UpsertRegisteredProfileUser(e)
               [] e.type = "UserNameChanged" -> UpsertProfileName(e)
               [] e.type = "ProfileBioUpdated" -> UpsertProfileBio(e)
               [] e.type = "ProfileImageUploaded" -> UpsertProfileImage(e)
               [] e.type = "ProfileHeaderImageUploaded" -> UpsertProfileHeaderImage(e)
  BY Zenon, <1>0, <1>6 DEF ProfileProject
<1>8. CASE e.type = "UserRegistered"
  <2>1. next = UpsertProfile(u, "name", e.name)
    BY Zenon, <1>7, <1>8 DEF UpsertRegisteredProfileUser
  <2> QED BY <1>0, <1>1, <1>2, <1>4, <1>5, <1>6, <1>8, <2>1, Columns, ProfileUpserted
          DEF ProfileEffect
<1>9. CASE e.type = "UserNameChanged"
  <2>1. next = UpsertProfile(u, "name", e.name)
    BY Zenon, <1>7, <1>9 DEF UpsertProfileName
  <2> QED BY <1>0, <1>1, <1>2, <1>4, <1>5, <1>6, <1>9, <2>1, Columns, ProfileUpserted
          DEF ProfileEffect
<1>10. CASE e.type = "ProfileBioUpdated"
  <2>1. next = UpsertProfile(u, "bio", e.bio)
    BY Zenon, <1>7, <1>10 DEF UpsertProfileBio
  <2> QED BY <1>0, <1>1, <1>2, <1>4, <1>5, <1>6, <1>10, <2>1, Columns, ProfileUpserted
          DEF ProfileEffect
<1>11. CASE e.type = "ProfileImageUploaded"
  <2>1. next = UpsertProfile(u, "image", e.id)
    BY Zenon, <1>7, <1>11 DEF UpsertProfileImage
  <2> QED BY <1>0, <1>1, <1>2, <1>4, <1>5, <1>6, <1>11, <2>1, ProfileUpserted
          DEF ProfileEffect
<1>12. CASE e.type = "ProfileHeaderImageUploaded"
  <2>1. next = UpsertProfile(u, "header", e.id)
    BY Zenon, <1>7, <1>12 DEF UpsertProfileHeaderImage
  <2> QED BY <1>0, <1>1, <1>2, <1>4, <1>5, <1>6, <1>12, <2>1, ProfileUpserted
          DEF ProfileEffect
<1> QED BY <1>4, <1>8, <1>9, <1>10, <1>11, <1>12 DEF ProfileTypes

\* The image handler sets the image of a row that is there.
LEMMA ImageProjected ==
    ASSUME IInv, RowsInv, ProgressInv, NEW i \in DOMAIN log, ImageProject(i)
    PROVE  /\ log[i].type = "ProfileImageUploaded" /\ log[i].user \in User
           /\ auth_user' \in UserTable
           /\ \A v \in User : v # log[i].user => auth_user'[v] = auth_user[v]
           /\ auth_user'[log[i].user] = Null <=> auth_user[log[i].user] = Null
           /\ auth_user[log[i].user] # Null =>
                /\ auth_user'[log[i].user].name = auth_user[log[i].user].name
                /\ auth_user'[log[i].user].verified = auth_user[log[i].user].verified
                /\ auth_user'[log[i].user].image = i
<1>1. log[i] \in Event /\ i \in Id /\ (log[i].type \notin SentTypes => log[i].user \in User)
  BY EventAt DEF IInv
<1>2. Delivers("profile_image", i) /\ auth_user' = UpdateAuthUserImage(log[i].user, i)
  BY DEF ImageProject
<1>3. log[i].type = "ProfileImageUploaded"
  BY <1>1, <1>2, DeliversIs, AsksForTypes DEF IInv
<1>4. log[i].user \in User /\ auth_user \in UserTable
  BY <1>1, <1>3 DEF SentTypes, RowsInv
<1>5. auth_user' = SetColumn(auth_user, log[i].user, "image", i)
  BY <1>2 DEF UpdateAuthUserImage
<1> QED BY <1>1, <1>3, <1>4, <1>5, ColumnSet

-------------------------------------------------------------------------------
(* What a step changes.                                                     *)

\* The log only grows.
LEMMA LogGrows ==
    ASSUME IInv, [SystemNext]_systemVars
    PROVE  /\ Len(log) \in Nat /\ DOMAIN log = 1..Len(log)
           /\ Len(log') \in Nat /\ DOMAIN log' = 1..Len(log') /\ Len(log) <= Len(log')
           /\ \A i \in DOMAIN log : i \in DOMAIN log' /\ log'[i] = log[i]
<1>1. LogInv /\ Len(log) \in Nat /\ DOMAIN log = 1..Len(log)
  BY Positions DEF IInv
<1>2. CASE UNCHANGED log
  BY <1>1, <1>2
<1>3. ASSUME NEW r \in Request, SaveCommit(r)
      PROVE  /\ Len(log') = Len(log) + 1 /\ DOMAIN log' = 1..(Len(log) + 1)
             /\ \A i \in DOMAIN log : log'[i] = log[i]
  BY <1>1, <1>3, Accepted, Saved
<1>4. [Next]_vars \/ Stops
  BY <1>1, SystemSteps
<1>5. UNCHANGED log \/ \E r \in Request : SaveCommit(r)
  BY <1>4, OnlySaves DEF Stops, vars
<1> QED BY <1>1, <1>2, <1>3, <1>5

\* What a step may do to the tables.
LEMMA TableSteps ==
    ASSUME [SystemNext]_systemVars
    PROVE  \/ UNCHANGED tables
           \/ \E u \in User : CreateSession(u) \/ Logout(u)
           \/ \E i \in DOMAIN log : AuthProject(i) \/ ProfileProject(i) \/ ImageProject(i)
           \/ DeleteAccountData
           \/ ResetReadModels
<1> USE DEF tables
<1>1. CASE UNCHANGED systemVars
  BY <1>1 DEF systemVars
<1>2. ASSUME NEW u \in User, CheckPassword(u) \/ RequireVerifiedEmail(u)
      PROVE  UNCHANGED tables
  BY <1>2 DEF CheckPassword, RequireVerifiedEmail
<1>3. CASE GoAway
  BY <1>3 DEF GoAway
<1>4. CASE \E r \in Web : WebCommand(r)
  BY <1>4 DEF WebCommand
<1>5. CASE CodeExpires
  BY <1>5 DEF CodeExpires
<1>6. ASSUME NEW i \in DOMAIN log, StartDeletion(i) \/ SkipDeletion(i)
      PROVE  UNCHANGED tables
  BY <1>6 DEF StartDeletion, SkipDeletion, Delivers
<1>7. ASSUME NEW h \in Handler,
             AdvanceCheckpoint(h) \/ \E i \in DOMAIN log : ReadSubjectKey(h, i)
      PROVE  UNCHANGED tables
  BY <1>7 DEF AdvanceCheckpoint, ReadSubjectKey
<1>8. CASE DestroySubjectKey \/ SaveAccountDeleted \/ DeletionFails
  BY <1>8 DEF DestroySubjectKey, SaveAccountDeleted, DeletionFails
<1> QED BY <1>1, <1>2, <1>3, <1>4, <1>5, <1>6, <1>7, <1>8 DEF SystemNext

\* What a step may do to the handlers' progress.
LEMMA ProgressSteps ==
    ASSUME [SystemNext]_systemVars
    PROVE  \/ UNCHANGED <<progress, resets>>
           \/ \E h \in Handler : AdvanceCheckpoint(h)
           \/ \E h \in Handler, i \in DOMAIN log : ReadSubjectKey(h, i)
           \/ \E h \in Handler, i \in DOMAIN log :
                Delivers(h, i) /\ (h = "account_deletion" => request[DeletionWorker] = Idle)
                /\ UNCHANGED vars
           \/ SaveAccountDeleted
           \/ ResetReadModels
<1>1. CASE UNCHANGED systemVars
  BY <1>1 DEF systemVars
<1>2. ASSUME NEW u \in User,
             CheckPassword(u) \/ RequireVerifiedEmail(u) \/ CreateSession(u) \/ Logout(u)
      PROVE  UNCHANGED <<progress, resets>>
  BY <1>2 DEF CheckPassword, RequireVerifiedEmail, CreateSession, Logout
<1>3. CASE GoAway
  BY <1>3 DEF GoAway
<1>4. CASE \E r \in Web : WebCommand(r)
  BY <1>4 DEF WebCommand
<1>5. CASE CodeExpires
  BY <1>5 DEF CodeExpires
<1>6. ASSUME NEW i \in DOMAIN log, StartDeletion(i)
      PROVE  UNCHANGED <<progress, resets>>
  BY <1>6 DEF StartDeletion
<1>7. CASE DestroySubjectKey \/ DeletionFails \/ DeleteAccountData
  BY <1>7 DEF DestroySubjectKey, DeletionFails, DeleteAccountData
<1>8. ASSUME NEW i \in DOMAIN log,
             AuthProject(i) \/ ProfileProject(i) \/ ImageProject(i) \/ SkipDeletion(i)
      PROVE  \E h \in Handler :
                Delivers(h, i) /\ (h = "account_deletion" => request[DeletionWorker] = Idle)
                /\ UNCHANGED vars
  <2>1. CASE AuthProject(i)
    BY <2>1 DEF AuthProject, Delivers
  <2>2. CASE ProfileProject(i)
    <3>1. Delivers("profile_read_model", i) /\ UNCHANGED vars
      BY <2>2 DEF ProfileProject
    <3> QED BY <3>1 DEF Delivers
  <2>3. CASE ImageProject(i)
    BY <2>3 DEF ImageProject, Delivers
  <2>4. CASE SkipDeletion(i)
    BY <2>4 DEF SkipDeletion, Delivers
  <2> QED BY <1>8, <2>1, <2>2, <2>3, <2>4
<1> QED BY <1>1, <1>2, <1>3, <1>4, <1>5, <1>6, <1>7, <1>8 DEF SystemNext

\* A reset starts the handlers and the tables anew.
LEMMA ResetIs ==
    ASSUME ResetReadModels
    PROVE  /\ resets < MaxResets /\ resets' = resets + 1 /\ Stops /\ admitted' = {}
           /\ \A u \in User : auth_user'[u] = Null /\ auth_account'[u] = Null
                              /\ profile_stats'[u] = Null
           /\ auth_user' = [u \in User |-> Null] /\ auth_account' = [u \in User |-> Null]
           /\ profile_stats' = [u \in User |-> Null]
           /\ auth_session' = {} /\ auth_verification' = {}
           /\ delivered' = [h \in Handler |-> 0] /\ checkpoint' = [h \in Handler |-> 0]
           /\ unlocked' = [h \in Handler |-> 0]
BY DEF ResetReadModels, Stops, NoRows, NoEventPosition, ResetReadModelAuthUsers,
   ResetReadModelAuthAccounts, ResetReadModelAuthSessions, ResetReadModelAuthVerifications,
   ResetReadModelProfiles

\* The deletion in hand is that of a user of the log.
LEMMA WorkerHolds ==
    ASSUME IInv, WorkerInv, request[DeletionWorker] # Idle, NEW e,
           e = request[DeletionWorker].event
    PROVE  /\ e.type = "AccountDeleted" /\ e.user \in User /\ e.about \in DOMAIN log
           /\ log[e.about].type = "AccountDeletionRequested" /\ log[e.about].user = e.user
           /\ log[e.about] \in Event
<1>1. e.type = "AccountDeleted"
  BY DeletionWorkerAssumption DEF WorkerInv
<1>2. Sound(request[DeletionWorker]) /\ e \in Event
  BY InFlight, DeletionWorkerAssumption
<1>3. Grounded(request[DeletionWorker].next, e)
  BY <1>2 DEF Sound
<1>4. Is(e.about, "AccountDeletionRequested") /\ log[e.about].user = e.user
  BY <1>1, <1>3 DEF Grounded
<1> QED BY <1>1, <1>2, <1>4, EventAt, EventFields DEF Is, IInv, Fielded, SentTypes

\* The rows keep their columns.
LEMMA RowsKept ==
    ASSUME IInv, RowsInv, ProgressInv, WorkerInv, [SystemNext]_systemVars
    PROVE  RowsInv'
<1>1. CASE UNCHANGED tables
  BY <1>1 DEF tables, RowsInv
<1>2. ASSUME NEW u \in User, CreateSession(u) \/ Logout(u)
      PROVE  RowsInv'
  BY <1>2 DEF CreateSession, Logout, CreateAuthSession, DeleteAuthSessionByToken, RowsInv
<1>3. ASSUME NEW i \in DOMAIN log, AuthProject(i)
      PROVE  RowsInv'
  <2>1. /\ log[i].user \in User /\ AuthEffect(log[i])
        /\ auth_user' \in UserTable /\ auth_account' \in [User -> Password \cup {Null}]
    BY <1>3, AuthProjected
  <2>2. UNCHANGED <<profile_stats, auth_session>>
    BY <1>3 DEF AuthProject, Delivers
  <2>3. PICK u \in User : u = log[i].user
    BY <2>1
  <2>4. \A v \in User : (auth_user'[v] = Null <=> auth_account'[v] = Null)
                        /\ (auth_user[v] # Null => auth_user'[v] # Null)
    BY <2>1, <2>3 DEF AuthEffect, RowsInv
  <2> QED BY <2>1, <2>2, <2>4 DEF RowsInv
<1>4. ASSUME NEW i \in DOMAIN log, ProfileProject(i)
      PROVE  RowsInv'
  <2>1. UNCHANGED <<auth_user, auth_account, auth_session>>
    BY <1>4 DEF ProfileProject, Delivers
  <2> QED BY <1>4, <2>1, ProfileProjected DEF RowsInv
<1>5. ASSUME NEW i \in DOMAIN log, ImageProject(i)
      PROVE  RowsInv'
  <2>1. UNCHANGED <<auth_account, profile_stats, auth_session>>
    BY <1>5 DEF ImageProject, Delivers
  <2>2. auth_user' \in UserTable /\ \A v \in User : auth_user'[v] = Null <=> auth_user[v] = Null
    BY <1>5, ImageProjected
  <2> QED BY <2>1, <2>2 DEF RowsInv
<1>6. CASE DeleteAccountData
  <2>1. PICK u : u = request[DeletionWorker].event.user
    OBVIOUS
  <2>2. /\ auth_session' = auth_session \ {u}
        /\ auth_account' = [auth_account EXCEPT ![u] = Null]
        /\ profile_stats' = [profile_stats EXCEPT ![u] = Null]
        /\ auth_user' = [auth_user EXCEPT ![u] = Null]
    BY <1>6, <2>1 DEF DeleteAccountData, DeleteAuthSessions, DeleteAuthAccounts, DeleteProfile,
       DeleteAuthUser
  <2> QED BY <2>2 DEF RowsInv, UserTable, ProfileTable
<1>7. CASE ResetReadModels
  BY <1>7, ResetIs DEF RowsInv, UserTable, ProfileTable
<1> QED BY <1>1, <1>2, <1>3, <1>4, <1>5, <1>6, <1>7, TableSteps

\* Verifications refer to events of the log.
LEMMA VerificationsKept ==
    ASSUME IInv, RowsInv, VerificationsInv, [SystemNext]_systemVars
    PROVE  VerificationsInv'
<1>1. \A i \in DOMAIN log : i \in DOMAIN log' /\ log'[i] = log[i]
  BY LogGrows
<1>2. ASSUME \A row \in auth_verification' : row \in auth_verification
      PROVE  VerificationsInv'
  BY <1>1, <1>2 DEF VerificationsInv
<1>3. CASE UNCHANGED tables
  BY <1>2, <1>3 DEF tables
<1>4. ASSUME NEW u \in User, CreateSession(u) \/ Logout(u)
      PROVE  VerificationsInv'
  BY <1>2, <1>4 DEF CreateSession, Logout
<1>5. ASSUME NEW i \in DOMAIN log, AuthProject(i)
      PROVE  VerificationsInv'
  BY <1>1, <1>5, AuthProjected DEF VerificationsInv
<1>6. ASSUME NEW i \in DOMAIN log, ProfileProject(i) \/ ImageProject(i)
      PROVE  VerificationsInv'
  BY <1>2, <1>6 DEF ProfileProject, ImageProject
<1>7. CASE DeleteAccountData
  BY <1>2, <1>7 DEF DeleteAccountData, DeleteAuthVerifications
<1>8. CASE ResetReadModels
  BY <1>2, <1>8, ResetIs
<1> QED BY <1>3, <1>4, <1>5, <1>6, <1>7, <1>8, TableSteps

\* Where admissions come from.
LEMMA AdmittedSteps ==
    ASSUME [SystemNext]_systemVars
    PROVE  \/ admitted' \subseteq admitted
           \/ \E u \in User : CheckPassword(u) \/ RequireVerifiedEmail(u)
<1>1. CASE UNCHANGED systemVars
  BY <1>1 DEF systemVars
<1>2. ASSUME NEW u \in User, CreateSession(u) \/ Logout(u)
      PROVE  admitted' \subseteq admitted
  BY <1>2 DEF CreateSession, Logout
<1>3. CASE GoAway
  BY <1>3 DEF GoAway
<1>4. CASE \E r \in Web : WebCommand(r)
  BY <1>4 DEF WebCommand, SignedOut, SignedIn
<1>5. CASE CodeExpires
  BY <1>5 DEF CodeExpires
<1>6. ASSUME NEW i \in DOMAIN log, StartDeletion(i) \/ SkipDeletion(i) \/ AuthProject(i)
                                   \/ ProfileProject(i) \/ ImageProject(i)
      PROVE  admitted' \subseteq admitted
  <2>1. CASE StartDeletion(i)
    BY <2>1 DEF StartDeletion
  <2>2. CASE ProfileProject(i)
    <3>1. Delivers("profile_read_model", i)
      BY <2>2 DEF ProfileProject
    <3> QED BY <3>1 DEF Delivers
  <2> QED BY <1>6, <2>1, <2>2 DEF SkipDeletion, AuthProject, ImageProject, Delivers
<1>7. ASSUME NEW h \in Handler,
             AdvanceCheckpoint(h) \/ \E i \in DOMAIN log : ReadSubjectKey(h, i)
      PROVE  admitted' \subseteq admitted
  BY <1>7 DEF AdvanceCheckpoint, ReadSubjectKey
<1>8. CASE DestroySubjectKey \/ SaveAccountDeleted \/ DeletionFails \/ DeleteAccountData
  BY <1>8 DEF DestroySubjectKey, SaveAccountDeleted, DeletionFails, DeleteAccountData
<1>9. CASE ResetReadModels
  BY <1>9, ResetIs
<1> QED BY <1>1, <1>2, <1>3, <1>4, <1>5, <1>6, <1>7, <1>8, <1>9 DEF SystemNext

LEMMA AdmittedKept ==
    ASSUME AdmittedInv, [SystemNext]_systemVars
    PROVE  AdmittedInv'
<1>1. ASSUME NEW u \in User, CheckPassword(u) \/ RequireVerifiedEmail(u)
      PROVE  AdmittedInv'
  BY <1>1 DEF CheckPassword, RequireVerifiedEmail, AdmittedInv
<1> QED BY <1>1, AdmittedSteps DEF AdmittedInv

\* Handlers move forward.
LEMMA ProgressKept ==
    ASSUME IInv, ProgressInv, WorkerInv, [SystemNext]_systemVars
    PROVE  ProgressInv'
<1> USE DEF progress
<1>1. /\ Len(log) \in Nat /\ DOMAIN log = 1..Len(log) /\ Len(log') \in Nat
      /\ Len(log) <= Len(log')
      /\ \A i \in DOMAIN log : i \in DOMAIN log' /\ log'[i] = log[i]
  BY LogGrows
<1>2. \A h \in Handler : delivered[h] \in 0..Len(log) /\ checkpoint[h] \in Nat
  BY DEF ProgressInv
<1>3. \A h \in Handler : delivered[h] # 0 =>
         InQuery(log[delivered[h]], QueryOf(h)) /\ log'[delivered[h]] = log[delivered[h]]
  BY <1>1, <1>2 DEF ProgressInv
<1>4. CASE UNCHANGED <<progress, resets>>
  BY <1>1, <1>2, <1>3, <1>4 DEF ProgressInv
<1>5. ASSUME NEW h \in Handler, AdvanceCheckpoint(h)
      PROVE  ProgressInv'
  <2>1. checkpoint' = [checkpoint EXCEPT ![h] = delivered[h]]
        /\ UNCHANGED <<delivered, unlocked, resets>>
    BY <1>5 DEF AdvanceCheckpoint
  <2> QED BY <1>1, <1>2, <1>3, <2>1 DEF ProgressInv
<1>6. ASSUME NEW h \in Handler, NEW i \in DOMAIN log, ReadSubjectKey(h, i)
      PROVE  ProgressInv'
  <2>1. unlocked' = [unlocked EXCEPT ![h] = i] /\ UNCHANGED <<delivered, checkpoint, resets>>
    BY <1>6 DEF ReadSubjectKey
  <2> QED BY <1>1, <1>2, <1>3, <2>1 DEF ProgressInv
<1>7. ASSUME NEW h \in Handler, NEW i \in DOMAIN log, Delivers(h, i), UNCHANGED vars
      PROVE  ProgressInv'
  <2>1. /\ delivered' = [delivered EXCEPT ![h] = i] /\ i >= delivered[h]
        /\ InQuery(log[i], QueryOf(h)) /\ UNCHANGED <<checkpoint, resets>>
    BY <1>7, DeliversIs DEF IInv
  <2>2. unlocked' = [unlocked EXCEPT ![h] = NoEventPosition] /\ log' = log
    BY <1>7 DEF Delivers, vars
  <2> QED BY <1>1, <1>2, <1>3, <2>1, <2>2 DEF ProgressInv, NoEventPosition
<1>8. CASE SaveAccountDeleted
  <2>1. PICK e : e = request[DeletionWorker].event
    OBVIOUS
  <2>2. /\ request[DeletionWorker] # Idle
        /\ delivered' = [delivered EXCEPT !["account_deletion"] = e.about]
        /\ UNCHANGED <<checkpoint, unlocked, resets>>
    BY <1>8, <2>1 DEF SaveAccountDeleted, SaveCommit, At
  <2>3. /\ e.about \in DOMAIN log /\ log[e.about] \in Event
        /\ log[e.about].type = "AccountDeletionRequested"
    BY <2>1, <2>2, WorkerHolds
  <2>4. InQuery(log[e.about], QueryOf("account_deletion"))
    BY <2>3, AsksForTypes
  <2>5. "account_deletion" \in Handler /\ e.about >= delivered["account_deletion"]
    BY <2>1, <2>2 DEF WorkerInv
  <2>6. log'[e.about] = log[e.about]
    BY <1>1, <2>3
  <2> QED BY <1>1, <1>2, <1>3, <2>2, <2>3, <2>4, <2>5, <2>6 DEF ProgressInv
<1>9. CASE ResetReadModels
  BY <1>1, <1>9, ResetIs, MaxResetsAssumption DEF ProgressInv
<1> QED BY <1>4, <1>5, <1>6, <1>7, <1>8, <1>9, ProgressSteps

-------------------------------------------------------------------------------
(* Where commands come from.                                                *)

\* What a user who is signed in may save.
SessionTypes == {"UserNameChanged", "ProfileBioUpdated", "ProfileImageUploaded",
                 "ProfileHeaderImageUploaded", "PasswordChanged", "AccountDeletionRequested"}

\* A command that goes on has the same event in hand; a validation may go on with a
\* newer code.
Alike(d, e) ==
    /\ d.type = e.type /\ d.user = e.user
    /\ e.type = "AccountDeleted" => d = e

LEMMA HoldIs ==
    ASSUME IInv, NEW r \in Request, NEW c, Hold(r, c)
    PROVE  \A q \in Request : request'[q] = IF q = r THEN c ELSE request[q]
<1>1. request' = [request EXCEPT ![r] = c] /\ request = [q \in Request |-> request[q]]
  BY DEF Hold, IInv, RequestInv
<1> QED BY <1>1

LEMMA LoadIs ==
    ASSUME IInv, NEW r \in Request, NEW next, NEW query, NEW event, Load(r, next, query, event)
    PROVE  /\ request'[r].event = event /\ request'[r].next = next
           /\ \A q \in Request : q # r => request'[q] = request[q]
<1>1. PICK p \in 0..Len(log) :
        Hold(r, [next |-> next, round |-> 0, position |-> p, query |-> query, event |-> event])
  BY DEF Load
<1> DEFINE c == [next |-> next, round |-> 0, position |-> p, query |-> query, event |-> event]
<1>2. c.event = event /\ c.next = next
  OBVIOUS
<1> HIDE DEF c
<1> QED BY <1>1, <1>2, HoldIs DEF c

LEMMA StartIs ==
    ASSUME IInv, NEW r \in Request, NEW next, NEW round, NEW event, Start(r, next, round, event)
    PROVE  /\ request'[r].event = event
           /\ \A q \in Request : q # r => request'[q] = request[q]
<1> DEFINE c == [next |-> next, round |-> round, position |-> NoEventPosition, query |-> {},
                 event |-> event]
<1>1. Hold(r, c) /\ c.event = event
  BY DEF Start
<1> HIDE DEF c
<1> QED BY <1>1, HoldIs

\* The steps after the first one.
LEMMA GoesOn ==
    ASSUME IInv, NEW r \in Request, Continue(r) \/ DeleteData(r) \/ SaveCommit(r)
    PROVE  /\ request[r] # Idle
           /\ \A q \in Request : q # r => request'[q] = request[q]
           /\ request'[r] # Idle => Alike(request'[r].event, request[r].event)
<1>0. PICK c : c = request[r]
  OBVIOUS
<1>1. CASE Return(r) /\ c # Idle
  BY <1>0, <1>1, HoldIs DEF Return
<1>2. ASSUME NEW next, Proceed(r, next), c # Idle
      PROVE  /\ \A q \in Request : q # r => request'[q] = request[q]
             /\ Alike(request'[r].event, c.event)
  <2>1. Hold(r, [c EXCEPT !.next = next])
    BY <1>0, <1>2 DEF Proceed
  <2>2. Sound(c)
    BY <1>0, <1>2, InFlight
  <2>3. [c EXCEPT !.next = next].event = c.event
    BY <2>2 DEF Sound
  <2> QED BY <2>1, <2>3, HoldIs DEF Alike
<1>3. ASSUME NEW code, NEW u, u = c.event.user, At(r, "readCode"),
             request'[r].event = Validation(u, code)
      PROVE  Alike(request'[r].event, c.event)
  <2>1. Sound(c) /\ c.next = "readCode"
    BY <1>0, <1>3, InFlight DEF At
  <2>2. c.event.type = "EmailVerificationOTPValidated"
    BY <2>1 DEF Sound, Grounded
  <2> QED BY <1>3, <2>2 DEF Alike, Validation
<1>4. CASE ReadCodeAgain(r)
  <2>1. PICK u : u = c.event.user
    OBVIOUS
  <2>2. PICK code : code = NewestCode(u)
    OBVIOUS
  <2>3. /\ At(r, "readCode")
        /\ Return(r) \/ Start(r, "readCode", c.round + 1, Validation(u, code))
    BY <1>0, <1>4, <2>1, <2>2 DEF ReadCodeAgain
  <2>4. CASE Return(r)
    BY <1>0, <1>1, <2>3, <2>4 DEF At
  <2>5. CASE Start(r, "readCode", c.round + 1, Validation(u, code))
    <3>1. /\ request'[r].event = Validation(u, code)
          /\ \A q \in Request : q # r => request'[q] = request[q]
      BY <2>5, StartIs
    <3> QED BY <1>0, <1>3, <2>1, <2>3, <3>1 DEF At
  <2> QED BY <2>3, <2>4, <2>5
<1>5. CASE ReadCodeStable(r)
  <2>1. PICK u : u = c.event.user
    OBVIOUS
  <2>2. PICK code : code = c.event.about
    OBVIOUS
  <2>3. At(r, "readCode") /\ Load(r, "save", ValidateQuery(u, code), Validation(u, code))
    BY <1>0, <1>5, <2>1, <2>2 DEF ReadCodeStable
  <2>4. /\ request'[r].event = Validation(u, code)
        /\ \A q \in Request : q # r => request'[q] = request[q]
    BY <2>3, LoadIs
  <2> QED BY <1>0, <1>3, <2>1, <2>3, <2>4 DEF At
<1>6. CASE ReadBio(r)
  <2>1. At(r, "readBio") /\ Load(r, "save", UpdateBioQuery(c.event.user), c.event)
    BY <1>0, <1>6 DEF ReadBio
  <2> QED BY <1>0, <2>1, LoadIs DEF At, Alike
<1>7. CASE CreateKey(r) \/ DestroyKey(r) \/ DeleteData(r)
  BY <1>0, <1>2, <1>7 DEF CreateKey, DestroyKey, DeleteData, At
<1>8. CASE ReadKey(r)
  BY <1>0, <1>1, <1>2, <1>8 DEF ReadKey, At
<1>9. CASE SaveConflict(r) \/ Abort(r) \/ SaveCommit(r)
  BY <1>0, <1>1, <1>9 DEF SaveConflict, Abort, SaveCommit, At
<1> QED BY <1>0, <1>4, <1>5, <1>6, <1>7, <1>8, <1>9 DEF Continue

\* A request starts a command of a session only when it has been admitted, and none
\* deletes an account.
LEMMA WebBegins ==
    ASSUME IInv, NEW r \in Web, WebCommand(r)
    PROVE  /\ \A q \in Request : q # r => request'[q] = request[q]
           /\ request'[r] # Idle =>
                \/ request[r] # Idle /\ Alike(request'[r].event, request[r].event)
                \/ /\ request'[r].event.type # "AccountDeleted"
                   /\ request'[r].event.type \in SessionTypes =>
                        <<"session", request'[r].event.user>> \in admitted
<1> r \in Request
  BY DEF Web
<1>1. CASE Continue(r) \/ SaveCommit(r)
  BY <1>1, GoesOn
<1>2. CASE SignedOut(r)
  <2>1. ASSUME NEW event \in Registration, Register(r, event)
        PROVE  /\ \A q \in Request : q # r => request'[q] = request[q]
               /\ request'[r].event.type \notin SessionTypes \cup {"AccountDeleted"}
    <3>1. event.type = "UserRegistered"
      BY DEF Registration, UserRegistered
    <3> QED BY <2>1, <3>1, LoadIs DEF Register, SessionTypes
  <2>2. ASSUME NEW u \in User, GenerateCode(r, u) \/ RequestReset(r, u)
        PROVE  /\ \A q \in Request : q # r => request'[q] = request[q]
               /\ request'[r].event.type \notin SessionTypes \cup {"AccountDeleted"}
    BY <2>2, LoadIs DEF GenerateCode, RequestReset, SessionTypes
  <2>3. ASSUME NEW u \in User, StartValidate(r, u)
        PROVE  /\ \A q \in Request : q # r => request'[q] = request[q]
               /\ request'[r].event.type \notin SessionTypes \cup {"AccountDeleted"}
    <3>1. Start(r, "readCode", 1, Validation(u, NoEventPosition))
      BY <2>3 DEF StartValidate
    <3> QED BY <3>1, StartIs DEF Validation, SessionTypes
  <2>4. ASSUME NEW i \in 1..MaxEvents, SendCode(r, i) \/ SendReset(r, i)
        PROVE  /\ \A q \in Request : q # r => request'[q] = request[q]
               /\ request'[r].event.type \notin SessionTypes \cup {"AccountDeleted"}
    BY <2>4, LoadIs DEF SendCode, SendReset, SessionTypes
  <2>5. ASSUME NEW i \in 1..MaxEvents, NEW password \in Password, ResetPassword(r, i, password)
        PROVE  /\ \A q \in Request : q # r => request'[q] = request[q]
               /\ request'[r].event.type \notin SessionTypes \cup {"AccountDeleted"}
    BY <2>5, LoadIs DEF ResetPassword, SessionTypes
  <2> QED BY <1>2, <2>1, <2>2, <2>3, <2>4, <2>5 DEF SignedOut
<1>3. ASSUME NEW u \in User, SignedIn(r, u)
      PROVE  /\ \A q \in Request : q # r => request'[q] = request[q]
             /\ request'[r].event.type # "AccountDeleted"
             /\ <<"session", request'[r].event.user>> \in admitted
  <2>1. <<"session", u>> \in admitted
    BY <1>3 DEF SignedIn
  <2>2. ASSUME NEW name \in Name, UpdateName(r, u, name)
        PROVE  /\ \A q \in Request : q # r => request'[q] = request[q]
               /\ request'[r].event.type # "AccountDeleted" /\ request'[r].event.user = u
    BY <2>2, LoadIs DEF UpdateName
  <2>3. ASSUME NEW bio \in Bio, StartUpdateBio(r, u, bio)
        PROVE  /\ \A q \in Request : q # r => request'[q] = request[q]
               /\ request'[r].event.type # "AccountDeleted" /\ request'[r].event.user = u
    BY <2>3, StartIs DEF StartUpdateBio
  <2>4. ASSUME NEW type \in {"ProfileImageUploaded", "ProfileHeaderImageUploaded"},
               UploadImage(r, u, type)
        PROVE  /\ \A q \in Request : q # r => request'[q] = request[q]
               /\ request'[r].event.type # "AccountDeleted" /\ request'[r].event.user = u
    BY <2>4, LoadIs DEF UploadImage
  <2>5. ASSUME NEW password \in Password, ChangePassword(r, u, password)
        PROVE  /\ \A q \in Request : q # r => request'[q] = request[q]
               /\ request'[r].event.type # "AccountDeleted" /\ request'[r].event.user = u
    BY <2>5, LoadIs DEF ChangePassword
  <2>6. ASSUME RequestDeletion(r, u)
        PROVE  /\ \A q \in Request : q # r => request'[q] = request[q]
               /\ request'[r].event.type # "AccountDeleted" /\ request'[r].event.user = u
    BY <2>6, LoadIs DEF RequestDeletion
  <2> QED BY <1>3, <2>1, <2>2, <2>3, <2>4, <2>5, <2>6 DEF SignedIn
<1> QED BY <1>1, <1>2, <1>3 DEF WebCommand

\* account_deletion starts with a request of the log.
LEMMA DeletionBegins ==
    ASSUME IInv, NEW i \in DOMAIN log, StartDeletion(i)
    PROVE  /\ "account_deletion" \in Handler /\ Promise("account_deletion")!MayDeliver(i)
           /\ \A q \in Request : q # DeletionWorker => request'[q] = request[q]
           /\ request'[DeletionWorker].next = "deleteData"
           /\ request'[DeletionWorker].event.type = "AccountDeleted"
           /\ request'[DeletionWorker].event.about = i
           /\ log[i].type = "AccountDeletionRequested"
           /\ request'[DeletionWorker].event.user = log[i].user
<1>1. "account_deletion" \in Handler /\ Promise("account_deletion")!MayDeliver(i)
  BY DEF StartDeletion
<1>2. log[i].type = "AccountDeletionRequested" /\ CompleteDeletion(DeletionWorker, i)
  BY DEF StartDeletion, CompleteDeletion
<1> DEFINE event == [type |-> "AccountDeleted", id |-> NoEventPosition, user |-> log[i].user,
                     about |-> i]
<1>3. Load(DeletionWorker, "deleteData", CompleteDeletionQuery(i, log[i].user), event)
  BY <1>2 DEF CompleteDeletion
<1>4. event.type = "AccountDeleted" /\ event.about = i /\ event.user = log[i].user
  OBVIOUS
<1> HIDE DEF event
<1>5. /\ request'[DeletionWorker].event = event /\ request'[DeletionWorker].next = "deleteData"
      /\ \A q \in Request : q # DeletionWorker => request'[q] = request[q]
  BY <1>3, LoadIs, DeletionWorkerAssumption
<1> QED BY <1>1, <1>2, <1>4, <1>5

\* Every command in flight goes on or has started in this step.
LEMMA RequestSteps ==
    ASSUME IInv, [SystemNext]_systemVars, NEW q \in Request, request'[q] # Idle
    PROVE  \/ request[q] # Idle /\ Alike(request'[q].event, request[q].event)
           \/ /\ q # DeletionWorker /\ request'[q].event.type # "AccountDeleted"
              /\ request'[q].event.type \in SessionTypes =>
                   <<"session", request'[q].event.user>> \in admitted
           \/ q = DeletionWorker /\ \E i \in DOMAIN log : StartDeletion(i)
<1>1. CASE request'[q] = request[q]
  BY <1>1 DEF Alike
<1>2. CASE UNCHANGED vars
  BY <1>1, <1>2 DEF vars
<1>3. ASSUME NEW u \in User,
             CheckPassword(u) \/ CreateSession(u) \/ Logout(u) \/ RequireVerifiedEmail(u)
      PROVE  UNCHANGED vars
  BY <1>3 DEF CheckPassword, CreateSession, Logout, RequireVerifiedEmail
<1>4. CASE GoAway
  BY <1>2, <1>4 DEF GoAway
<1>5. ASSUME NEW r \in Web, WebCommand(r)
      PROVE  \/ request[q] # Idle /\ Alike(request'[q].event, request[q].event)
             \/ /\ q # DeletionWorker /\ request'[q].event.type # "AccountDeleted"
                /\ request'[q].event.type \in SessionTypes =>
                     <<"session", request'[q].event.user>> \in admitted
  <2>1. r # DeletionWorker
    BY DEF Web
  <2>2. CASE q = r
    BY <1>5, <2>1, <2>2, WebBegins
  <2>3. CASE q # r
    BY <1>5, <2>3, WebBegins DEF Alike
  <2> QED BY <2>2, <2>3
<1>6. CASE CodeExpires
  BY <1>1, <1>6 DEF CodeExpires, Expire
<1>7. ASSUME NEW i \in DOMAIN log,
             AuthProject(i) \/ ProfileProject(i) \/ ImageProject(i) \/ SkipDeletion(i)
      PROVE  UNCHANGED vars
  BY <1>7 DEF AuthProject, ProfileProject, ImageProject, SkipDeletion
<1>8. ASSUME NEW i \in DOMAIN log, StartDeletion(i), q # DeletionWorker
      PROVE  request'[q] = request[q]
  BY <1>8, DeletionBegins
<1>9. ASSUME NEW h \in Handler,
             AdvanceCheckpoint(h) \/ \E i \in DOMAIN log : ReadSubjectKey(h, i)
      PROVE  UNCHANGED vars
  BY <1>9 DEF AdvanceCheckpoint, ReadSubjectKey
<1>10. CASE DeleteAccountData \/ DestroySubjectKey \/ SaveAccountDeleted \/ DeletionFails
  <2>1. \/ Continue(DeletionWorker) \/ DeleteData(DeletionWorker) \/ SaveCommit(DeletionWorker)
    BY <1>10 DEF DeleteAccountData, DestroySubjectKey, SaveAccountDeleted, DeletionFails, Continue
  <2> QED BY <1>1, <2>1, GoesOn, DeletionWorkerAssumption
<1>11. CASE ResetReadModels
  BY <1>11, ResetIs DEF Stops
<1> QED BY <1>1, <1>2, <1>3, <1>4, <1>5, <1>6, <1>7, <1>8, <1>9, <1>10, <1>11
        DEF SystemNext, systemVars

\* The deletion keeps up with its handler.
LEMMA WorkerKept ==
    ASSUME IInv, ProgressInv, WorkerInv, [SystemNext]_systemVars
    PROVE  WorkerInv'
<1> USE DeletionWorkerAssumption
<1>1. ASSUME NEW i \in DOMAIN log, StartDeletion(i)
      PROVE  /\ "account_deletion" \in Handler
             /\ request'[DeletionWorker].event.type = "AccountDeleted"
             /\ request'[DeletionWorker].event.about >= delivered'["account_deletion"]
  <2>1. UNCHANGED delivered
    BY <1>1 DEF StartDeletion, progress
  <2>2. i \in Nat /\ "account_deletion" \in Handler
    BY <1>1, EventAt, DeletionBegins DEF IInv
  <2>3. delivered["account_deletion"] \in Nat
    BY <2>2, Positions DEF ProgressInv, IInv
  <2>4. i >= delivered["account_deletion"]
    BY <1>1, <2>2, <2>3, DeletionBegins, MayDeliverIs
  <2> QED BY <1>1, <2>1, <2>2, <2>4, DeletionBegins
<1>2. \A q \in Request : request'[q] # Idle =>
        (request'[q].event.type = "AccountDeleted" <=> q = DeletionWorker)
  BY <1>1, RequestSteps DEF WorkerInv, Alike
<1>3. ASSUME request'[DeletionWorker] # Idle, ~ \E i \in DOMAIN log : StartDeletion(i)
      PROVE  /\ "account_deletion" \in Handler
             /\ request'[DeletionWorker].event.about >= delivered'["account_deletion"]
  <2>1. /\ request[DeletionWorker] # Idle
        /\ request'[DeletionWorker].event = request[DeletionWorker].event
        /\ "account_deletion" \in Handler
        /\ request[DeletionWorker].event.about >= delivered["account_deletion"]
    BY <1>3, RequestSteps DEF WorkerInv, Alike
  <2>2. delivered'["account_deletion"] = delivered["account_deletion"]
    <3>1. CASE UNCHANGED <<progress, resets>>
      BY <3>1 DEF progress
    <3>2. ASSUME NEW h \in Handler,
                 AdvanceCheckpoint(h) \/ \E i \in DOMAIN log : ReadSubjectKey(h, i)
          PROVE  UNCHANGED delivered
      BY <3>2 DEF AdvanceCheckpoint, ReadSubjectKey
    <3>3. ASSUME NEW h \in Handler, NEW i \in DOMAIN log, Delivers(h, i),
                 h = "account_deletion" => request[DeletionWorker] = Idle
          PROVE  delivered'["account_deletion"] = delivered["account_deletion"]
      BY <2>1, <3>3, DeliversIs DEF IInv
    <3>4. CASE SaveAccountDeleted
      <4>1. Hold(DeletionWorker, Idle)
        BY <3>4 DEF SaveAccountDeleted, SaveCommit, Return
      <4> QED BY <1>3, <4>1, HoldIs
    <3>5. CASE ResetReadModels
      BY <1>3, <3>5, ResetIs DEF Stops
    <3> QED BY <3>1, <3>2, <3>3, <3>4, <3>5, ProgressSteps
  <2> QED BY <2>1, <2>2
<1> QED BY <1>1, <1>2, <1>3 DEF WorkerInv

-------------------------------------------------------------------------------
LEMMA TablesInit == SystemInit => TablesInv
<1> SUFFICES ASSUME SystemInit PROVE TablesInv
  OBVIOUS
<1>1. RowsInv
  BY DEF SystemInit, NoRows, RowsInv, UserTable, ProfileTable
<1>2. VerificationsInv /\ AdmittedInv
  BY DEF SystemInit, VerificationsInv, AdmittedInv
<1>3. ProgressInv
  BY MaxResetsAssumption DEF SystemInit, Init, ProgressInv, NoEventPosition
<1>4. WorkerInv
  BY DeletionWorkerAssumption DEF SystemInit, Init, WorkerInv
<1> QED BY <1>1, <1>2, <1>3, <1>4 DEF TablesInv

LEMMA TablesStep == IInv /\ TablesInv /\ [SystemNext]_systemVars => TablesInv'
BY RowsKept, VerificationsKept, AdmittedKept, ProgressKept, WorkerKept DEF TablesInv

LEMMA TablesHold == SystemSpec => []TablesInv
BY TablesInit, TablesStep, CommandsHold, PTL DEF SystemSpec

LEMMA TablesTypes == IInv /\ TablesInv => AccountSystemTypeOK
<1> SUFFICES ASSUME IInv, TablesInv PROVE AccountSystemTypeOK
  OBVIOUS
<1>1. TypeOK
  BY InvTypes
<1> QED BY <1>1 DEF TablesInv, RowsInv, VerificationsInv, AdmittedInv, ProgressInv, UserTable,
           ProfileTable, AccountSystemTypeOK

\* Rows have their columns and refer to users and events that exist, a session has a
\* user, and no checkpoint overtakes its handler, whichever handlers run.
THEOREM AccountSystemTypeCorrect == SystemSpec => []AccountSystemTypeOK
BY CommandsHold, TablesHold, TablesTypes, PTL

-------------------------------------------------------------------------------
(* Until a reset, nobody is signed in whose registration might still be       *)
(* delivered again.                                                         *)

\* auth_user_projection has gone past the registration of u.
Passed(u) ==
    \E k \in DOMAIN log :
        k < delivered["auth_user_projection"] /\ InQuery(log[k], UserRegisteredQuery(u))

VerifiedPassed == \A u \in User : auth_user[u] # Null /\ auth_user[u].verified => Passed(u)

AdmittedPassed == \A u \in User : <<"session", u>> \in admitted => Passed(u)

RequestsPassed ==
    \A r \in Request : \A u \in User :
        /\ request[r] # Idle
        /\ request[r].event.type \in SessionTypes /\ request[r].event.user = u
        => Passed(u)

LogPassed ==
    \A i \in DOMAIN log : \A u \in User :
        log[i].type \in SessionTypes /\ log[i].user = u => Passed(u)

\* A deletion past its first step has removed the row ...
DeletionClears ==
    /\ request[DeletionWorker] # Idle
    /\ request[DeletionWorker].next \in {"destroyKey", "save"}
    => auth_user[request[DeletionWorker].event.user] = Null

\* ... and after its last one the row stays away.
DeletedGone == \A u \in User : Closed(u) => auth_user[u] = Null

SessionInv ==
    resets = 0 => /\ VerifiedPassed /\ AdmittedPassed /\ RequestsPassed /\ LogPassed
                  /\ DeletionClears /\ DeletedGone

\* A step without a reset.
Goes ==
    /\ "auth_user_projection" \in Handler
    /\ IInv /\ TablesInv /\ SessionInv
    /\ [SystemNext]_systemVars
    /\ resets' = 0

LEMMA NoReset ==
    ASSUME ProgressInv, [SystemNext]_systemVars, resets' = 0
    PROVE  resets = 0 /\ ~ ResetReadModels
<1>1. resets \in Nat
  BY DEF ProgressInv
<1>2. ~ ResetReadModels
  BY <1>1, ResetIs
<1>3. ASSUME NEW h \in Handler,
             AdvanceCheckpoint(h) \/ \E i \in DOMAIN log : ReadSubjectKey(h, i)
      PROVE  resets' = resets
  BY <1>3 DEF AdvanceCheckpoint, ReadSubjectKey
<1>4. ASSUME NEW h \in Handler, NEW i \in DOMAIN log, Delivers(h, i)
      PROVE  resets' = resets
  BY <1>4 DEF Delivers
<1>5. SaveAccountDeleted => resets' = resets
  BY DEF SaveAccountDeleted
<1> QED BY <1>2, <1>3, <1>4, <1>5, ProgressSteps

\* Then the handlers only go forward.
LEMMA Forwards ==
    ASSUME IInv, TablesInv, [SystemNext]_systemVars, ~ ResetReadModels, NEW g \in Handler
    PROVE  delivered'[g] \in Nat /\ delivered[g] \in Nat /\ delivered[g] <= delivered'[g]
<1>1. delivered \in [Handler -> 0..Len(log)] /\ DOMAIN log = 1..Len(log) /\ Len(log) \in Nat
  BY Positions DEF TablesInv, ProgressInv, IInv
<1>2. CASE UNCHANGED <<progress, resets>>
  BY <1>1, <1>2 DEF progress
<1>3. ASSUME NEW h \in Handler,
             AdvanceCheckpoint(h) \/ \E i \in DOMAIN log : ReadSubjectKey(h, i)
      PROVE  UNCHANGED delivered
  BY <1>3 DEF AdvanceCheckpoint, ReadSubjectKey
<1>4. ASSUME NEW h \in Handler, NEW i \in DOMAIN log, Delivers(h, i)
      PROVE  delivered'[g] \in Nat /\ delivered[g] <= delivered'[g]
  BY <1>1, <1>4, DeliversIs DEF TablesInv, IInv
<1>5. CASE SaveAccountDeleted
  <2>1. PICK e : e = request[DeletionWorker].event
    OBVIOUS
  <2>2. /\ request[DeletionWorker] # Idle
        /\ delivered' = [delivered EXCEPT !["account_deletion"] = e.about]
    BY <1>5, <2>1 DEF SaveAccountDeleted, SaveCommit, At
  <2>3. e.about \in DOMAIN log /\ e.about >= delivered["account_deletion"]
    BY <2>1, <2>2, WorkerHolds DEF TablesInv, WorkerInv
  <2> QED BY <1>1, <2>2, <2>3
<1> QED BY <1>1, <1>2, <1>3, <1>4, <1>5, ProgressSteps

LEMMA PassedStays ==
    ASSUME Goes, NEW u, Passed(u)
    PROVE  Passed(u)'
<1>1. ~ ResetReadModels
  BY NoReset DEF Goes, TablesInv
<1>2. /\ delivered["auth_user_projection"] <= delivered'["auth_user_projection"]
      /\ delivered["auth_user_projection"] \in Nat /\ delivered'["auth_user_projection"] \in Nat
  BY <1>1, Forwards DEF Goes
<1>3. PICK k \in DOMAIN log :
        k < delivered["auth_user_projection"] /\ InQuery(log[k], UserRegisteredQuery(u))
  BY DEF Passed
<1>4. k \in DOMAIN log' /\ log'[k] = log[k] /\ k \in Nat
  BY LogGrows DEF Goes
<1> QED BY <1>2, <1>3, <1>4 DEF Passed

\* The row of such a user does not come back.
LEMMA NullStays ==
    ASSUME Goes, NEW u \in User, Passed(u), auth_user[u] = Null
    PROVE  auth_user'[u] = Null
<1> USE DEF Goes
<1>1. ~ ResetReadModels
  BY NoReset DEF TablesInv
<1>2. CASE UNCHANGED tables
  BY <1>2 DEF tables
<1>3. ASSUME NEW v \in User, CreateSession(v) \/ Logout(v)
      PROVE  UNCHANGED auth_user
  BY <1>3 DEF CreateSession, Logout
<1>4. ASSUME NEW i \in DOMAIN log, AuthProject(i)
      PROVE  auth_user'[u] = Null
  <2>1. PICK e : e = log[i]
    OBVIOUS
  <2>2. AuthEffect(e)
    BY <1>4, <2>1, AuthProjected DEF TablesInv
  <2>3. ~ (e.type = "UserRegistered" /\ e.user = u)
    <3> SUFFICES ASSUME e.type = "UserRegistered", e.user = u PROVE FALSE
      OBVIOUS
    <3>1. PICK k \in DOMAIN log :
            k < delivered["auth_user_projection"] /\ InQuery(log[k], UserRegisteredQuery(u))
      BY DEF Passed
    <3>2. log[k].type = "UserRegistered" /\ log[k].user = u /\ k \in Nat /\ i \in Nat
      BY <3>1, EventAt, AsksOfUser DEF UserRegisteredQuery, IInv
    <3>3. k = i
      BY <2>1, <3>2 DEF IInv, Promises, IdentityTakenOnce
    <3>4. i >= delivered["auth_user_projection"] /\ delivered["auth_user_projection"] \in Nat
      <4>1. Delivers("auth_user_projection", i)
        BY <1>4 DEF AuthProject
      <4> QED BY <4>1, DeliversIs, Positions DEF TablesInv, IInv
    <3> QED BY <3>1, <3>2, <3>3, <3>4
  <2> QED BY <2>2, <2>3 DEF AuthEffect
<1>5. ASSUME NEW i \in DOMAIN log, ProfileProject(i)
      PROVE  UNCHANGED auth_user
  BY <1>5 DEF ProfileProject
<1>6. ASSUME NEW i \in DOMAIN log, ImageProject(i)
      PROVE  auth_user'[u] = Null
  BY <1>6, ImageProjected DEF TablesInv
<1>7. CASE DeleteAccountData
  <2>1. PICK v : v = request[DeletionWorker].event.user
    OBVIOUS
  <2>2. auth_user' = [auth_user EXCEPT ![v] = Null] /\ auth_user \in UserTable
    BY <1>7, <2>1 DEF DeleteAccountData, DeleteAuthUser, TablesInv, RowsInv
  <2> QED BY <2>2 DEF UserTable
<1> QED BY <1>1, <1>2, <1>3, <1>4, <1>5, <1>6, <1>7, TableSteps

\* A user becomes verified after its registration.
LEMMA VerifiedPassedKept ==
    ASSUME Goes
    PROVE  VerifiedPassed'
<1> USE DEF Goes
<1> SUFFICES ASSUME NEW u \in User, auth_user'[u] # Null, auth_user'[u].verified
             PROVE  Passed(u)'
  BY DEF VerifiedPassed
<1>1. ~ ResetReadModels /\ VerifiedPassed
  BY NoReset DEF TablesInv, SessionInv
<1>2. CASE auth_user[u] # Null /\ auth_user[u].verified
  BY <1>1, <1>2, PassedStays DEF VerifiedPassed
<1>3. CASE UNCHANGED tables
  BY <1>2, <1>3 DEF tables
<1>4. ASSUME NEW v \in User, CreateSession(v) \/ Logout(v)
      PROVE  UNCHANGED auth_user
  BY <1>4 DEF CreateSession, Logout
<1>5. ASSUME NEW i \in DOMAIN log, AuthProject(i), ~ (auth_user[u] # Null /\ auth_user[u].verified)
      PROVE  Passed(u)'
  <2>1. PICK e : e = log[i]
    OBVIOUS
  <2>2. AuthEffect(e)
    BY <1>5, <2>1, AuthProjected DEF TablesInv
  <2>3. e.user = u /\ e.type = "EmailVerificationOTPValidated"
    BY <1>5, <2>2 DEF AuthEffect
  <2>4. PICK k \in DOMAIN log : k < i /\ InQuery(log[k], UserRegisteredQuery(u))
    BY <2>1, <2>3 DEF IInv, LogInv, Rooted, OwnedTypes
  <2>5. Delivers("auth_user_projection", i) /\ log' = log
    BY <1>5 DEF AuthProject, vars
  <2>6. delivered'["auth_user_projection"] = i
    BY <2>5, DeliversIs DEF TablesInv, IInv
  <2> QED BY <2>4, <2>5, <2>6 DEF Passed
<1>6. ASSUME NEW i \in DOMAIN log, ProfileProject(i)
      PROVE  UNCHANGED auth_user
  BY <1>6 DEF ProfileProject
<1>7. ASSUME NEW i \in DOMAIN log, ImageProject(i)
      PROVE  auth_user[u] # Null /\ auth_user[u].verified
  BY <1>7, ImageProjected DEF TablesInv
<1>8. CASE DeleteAccountData
  <2>1. PICK v : v = request[DeletionWorker].event.user
    OBVIOUS
  <2>2. auth_user' = [auth_user EXCEPT ![v] = Null] /\ auth_user \in UserTable
    BY <1>8, <2>1 DEF DeleteAccountData, DeleteAuthUser, TablesInv, RowsInv
  <2>3. auth_user'[u] = auth_user[u]
    BY <2>2 DEF UserTable
  <2> QED BY <1>2, <2>3
<1> QED BY <1>1, <1>2, <1>3, <1>4, <1>5, <1>6, <1>7, <1>8, TableSteps

\* So whoever is admitted by a session, and what they ask for, comes after it.
LEMMA AdmittedPassedKept ==
    ASSUME Goes
    PROVE  AdmittedPassed'
<1> USE DEF Goes
<1>1. VerifiedPassed /\ AdmittedPassed
  BY NoReset DEF TablesInv, SessionInv
<1>2. ASSUME NEW u \in User, CheckPassword(u)
      PROVE  AdmittedPassed'
  BY <1>2 DEF CheckPassword, AdmittedPassed
<1>3. ASSUME NEW u \in User, RequireVerifiedEmail(u)
      PROVE  AdmittedPassed'
  <2>1. Passed(u) /\ admitted' = {<<"session", u>>}
    BY <1>1, <1>3 DEF RequireVerifiedEmail, UserBySessionToken, VerifiedPassed
  <2> QED BY <2>1, PassedStays DEF AdmittedPassed
<1>4. CASE admitted' \subseteq admitted
  BY <1>1, <1>4, PassedStays DEF AdmittedPassed
<1> QED BY <1>2, <1>3, <1>4, AdmittedSteps

LEMMA RequestsPassedKept ==
    ASSUME Goes
    PROVE  RequestsPassed'
<1> USE DEF Goes
<1>1. AdmittedPassed /\ RequestsPassed
  BY NoReset DEF TablesInv, SessionInv
<1> SUFFICES ASSUME NEW q \in Request, NEW u \in User, request'[q] # Idle,
                    request'[q].event.type \in SessionTypes, request'[q].event.user = u
             PROVE  Passed(u)'
  BY DEF RequestsPassed
<1>2. Passed(u)
  <2>1. CASE request[q] # Idle /\ Alike(request'[q].event, request[q].event)
    BY <1>1, <2>1 DEF Alike, RequestsPassed
  <2>2. ASSUME NEW i \in DOMAIN log, StartDeletion(i), q = DeletionWorker
        PROVE  FALSE
    BY <2>2, DeletionBegins DEF SessionTypes
  <2>3. CASE <<"session", u>> \in admitted
    BY <1>1, <2>3 DEF AdmittedPassed
  <2> QED BY <2>1, <2>2, <2>3, RequestSteps
<1> QED BY <1>2, PassedStays

\* Only a save writes the log.
LEMMA LogSteps ==
    ASSUME IInv, [SystemNext]_systemVars
    PROVE  \/ UNCHANGED log
           \/ \E r \in Request, new \in Event :
                /\ SaveCommit(r) /\ Saves(new) /\ request[r] # Idle
                /\ new.type = request[r].event.type
                /\ new.type \notin SentTypes => new.user = request[r].event.user
<1>1. [Next]_vars \/ Stops
  BY SystemSteps DEF IInv
<1>2. UNCHANGED log \/ \E r \in Request : SaveCommit(r)
  BY <1>1, OnlySaves DEF Stops, vars
<1> QED BY <1>2, Accepted

LEMMA LogPassedKept ==
    ASSUME Goes
    PROVE  LogPassed'
<1>1. RequestsPassed /\ LogPassed
  BY NoReset DEF Goes, TablesInv, SessionInv
<1> SUFFICES ASSUME NEW i \in DOMAIN log', NEW u \in User,
                    log'[i].type \in SessionTypes, log'[i].user = u
             PROVE  Passed(u)'
  BY DEF LogPassed
<1>2. CASE i \in DOMAIN log /\ log'[i] = log[i]
  <2>1. Passed(u)
    BY <1>1, <1>2 DEF LogPassed
  <2> QED BY <2>1, PassedStays
<1>3. CASE UNCHANGED log
  BY <1>2, <1>3
<1>4. ASSUME NEW r \in Request, NEW new \in Event, Saves(new), request[r] # Idle,
             new.type = request[r].event.type,
             new.type \notin SentTypes => new.user = request[r].event.user,
             ~ (i \in DOMAIN log /\ log'[i] = log[i])
      PROVE  Passed(u)'
  <2>1. log'[i] = new
    BY <1>4, Saved DEF Goes, IInv
  <2>2. new.type \notin SentTypes
    BY <2>1 DEF SessionTypes, SentTypes
  <2>3. Passed(u)
    BY <1>1, <1>4, <2>1, <2>2 DEF RequestsPassed
  <2> QED BY <2>3, PassedStays
<1> QED BY <1>2, <1>3, <1>4, LogSteps DEF Goes

\* The steps of account_deletion.
LEMMA WorkerSteps ==
    ASSUME IInv, WorkerInv, [SystemNext]_systemVars, request'[DeletionWorker] # Idle,
           request'[DeletionWorker].next \in {"destroyKey", "save"}
    PROVE  /\ request[DeletionWorker] # Idle
           /\ request'[DeletionWorker].event = request[DeletionWorker].event
           /\ \/ request[DeletionWorker].next \in {"destroyKey", "save"}
              \/ DeleteAccountData
<1> USE DeletionWorkerAssumption
<1>1. CASE request'[DeletionWorker] = request[DeletionWorker]
  BY <1>1
<1>2. CASE UNCHANGED vars
  BY <1>1, <1>2 DEF vars
<1>3. ASSUME NEW u \in User,
             CheckPassword(u) \/ CreateSession(u) \/ Logout(u) \/ RequireVerifiedEmail(u)
      PROVE  UNCHANGED vars
  BY <1>3 DEF CheckPassword, CreateSession, Logout, RequireVerifiedEmail
<1>4. CASE GoAway
  BY <1>2, <1>4 DEF GoAway
<1>5. ASSUME NEW r \in Web, WebCommand(r)
      PROVE  request'[DeletionWorker] = request[DeletionWorker]
  <2>1. r # DeletionWorker
    BY DEF Web
  <2> QED BY <1>5, <2>1, WebBegins
<1>6. CASE CodeExpires
  BY <1>1, <1>6 DEF CodeExpires, Expire
<1>7. ASSUME NEW i \in DOMAIN log,
             AuthProject(i) \/ ProfileProject(i) \/ ImageProject(i) \/ SkipDeletion(i)
      PROVE  UNCHANGED vars
  BY <1>7 DEF AuthProject, ProfileProject, ImageProject, SkipDeletion
<1>8. ASSUME NEW i \in DOMAIN log, StartDeletion(i)
      PROVE  FALSE
  BY <1>8, DeletionBegins
<1>9. ASSUME NEW h \in Handler,
             AdvanceCheckpoint(h) \/ \E i \in DOMAIN log : ReadSubjectKey(h, i)
      PROVE  UNCHANGED vars
  BY <1>9 DEF AdvanceCheckpoint, ReadSubjectKey
<1>10. CASE DeleteAccountData \/ DestroySubjectKey
  <2>1. Continue(DeletionWorker) \/ DeleteData(DeletionWorker)
    BY <1>10 DEF DeleteAccountData, DestroySubjectKey, Continue
  <2>2. /\ request[DeletionWorker] # Idle
        /\ Alike(request'[DeletionWorker].event, request[DeletionWorker].event)
    BY <2>1, GoesOn
  <2>3. request[DeletionWorker].event.type = "AccountDeleted"
    BY <2>2 DEF WorkerInv
  <2>4. DestroySubjectKey => request[DeletionWorker].next = "destroyKey"
    BY DEF DestroySubjectKey, DestroyKey, At
  <2> QED BY <1>10, <2>2, <2>3, <2>4 DEF Alike
<1>11. CASE SaveAccountDeleted \/ DeletionFails
  <2>1. Hold(DeletionWorker, Idle)
    BY <1>11 DEF SaveAccountDeleted, SaveCommit, DeletionFails, Abort, Return
  <2> QED BY <2>1, HoldIs
<1>12. CASE ResetReadModels
  BY <1>12, ResetIs DEF Stops
<1> QED BY <1>1, <1>2, <1>3, <1>4, <1>5, <1>6, <1>7, <1>8, <1>9, <1>10, <1>11, <1>12
        DEF SystemNext, systemVars

\* Whose deletion is in hand has been signed in.
LEMMA WorkerPassed ==
    ASSUME IInv, WorkerInv, LogPassed, request[DeletionWorker] # Idle, NEW u,
           u = request[DeletionWorker].event.user
    PROVE  u \in User /\ Passed(u)
BY WorkerHolds DEF LogPassed, SessionTypes

LEMMA DeletionClearsKept ==
    ASSUME Goes
    PROVE  DeletionClears'
<1> USE DEF Goes, TablesInv
<1> SUFFICES ASSUME request'[DeletionWorker] # Idle,
                    request'[DeletionWorker].next \in {"destroyKey", "save"},
                    NEW u, u = request'[DeletionWorker].event.user
             PROVE  auth_user'[u] = Null
  BY DEF DeletionClears
<1>1. LogPassed /\ DeletionClears
  BY NoReset DEF SessionInv
<1>2. /\ request[DeletionWorker] # Idle /\ u = request[DeletionWorker].event.user
      /\ request[DeletionWorker].next \in {"destroyKey", "save"} \/ DeleteAccountData
  BY WorkerSteps
<1>3. u \in User /\ Passed(u)
  BY <1>1, <1>2, WorkerPassed
<1>4. CASE request[DeletionWorker].next \in {"destroyKey", "save"}
  BY <1>1, <1>2, <1>3, <1>4, NullStays DEF DeletionClears
<1>5. CASE DeleteAccountData
  <2>1. auth_user' = [auth_user EXCEPT ![u] = Null] /\ auth_user \in UserTable
    BY <1>2, <1>5 DEF DeleteAccountData, DeleteAuthUser, RowsInv
  <2> QED BY <1>3, <2>1 DEF UserTable
<1> QED BY <1>2, <1>4, <1>5

LEMMA DeletedGoneKept ==
    ASSUME Goes
    PROVE  DeletedGone'
<1> USE DEF Goes, TablesInv
<1> SUFFICES ASSUME NEW u \in User, Closed(u)' PROVE auth_user'[u] = Null
  BY DEF DeletedGone
<1>1. LogPassed /\ DeletionClears /\ DeletedGone
  BY NoReset DEF SessionInv
<1>2. CASE Closed(u)
  <2>1. Finds(TypeOfUser("AccountDeletionRequested", u))
    BY <1>2, StatesInOrder DEF Asked
  <2>2. \E i \in DOMAIN log : log[i].type = "AccountDeletionRequested" /\ log[i].user = u
    BY <2>1, FindsOfUser DEF IInv, SentTypes
  <2>3. Passed(u)
    BY <1>1, <2>2 DEF LogPassed, SessionTypes
  <2> QED BY <1>1, <1>2, <2>3, NullStays DEF DeletedGone
<1>3. CASE UNCHANGED log
  BY <1>2, <1>3 DEF Closed, Finds
<1>4. ASSUME NEW r \in Request, NEW new \in Event, SaveCommit(r), Saves(new), request[r] # Idle,
             new.type = request[r].event.type,
             new.type \notin SentTypes => new.user = request[r].event.user,
             ~ Closed(u)
      PROVE  auth_user'[u] = Null
  <2>1. new.type = "AccountDeleted" /\ new.user = u
    BY <1>4, FoundAfterSave DEF IInv
  <2>2. r = DeletionWorker /\ request[r].event.user = u
    BY <1>4, <2>1 DEF WorkerInv, SentTypes
  <2>3. request[r].next = "save"
    BY <1>4 DEF SaveCommit, At
  <2>4. Passed(u)
    BY <1>1, <1>4, <2>2, WorkerPassed
  <2>5. auth_user[u] = Null
    BY <1>1, <1>4, <2>2, <2>3 DEF DeletionClears
  <2> QED BY <2>4, <2>5, NullStays
<1> QED BY <1>2, <1>3, <1>4, LogSteps

LEMMA SessionInit == SystemInit => SessionInv
<1> SUFFICES ASSUME SystemInit PROVE SessionInv
  OBVIOUS
<1>1. Init /\ auth_user = NoRows /\ admitted = {} /\ DOMAIN log = {}
  BY DEF SystemInit, Init
<1>2. \A u \in User : auth_user[u] = Null
  BY <1>1 DEF NoRows
<1>3. \A r \in Request : request[r] = Idle
  BY <1>1 DEF Init
<1> QED BY <1>1, <1>2, <1>3, DeletionWorkerAssumption DEF SessionInv, VerifiedPassed,
        AdmittedPassed, RequestsPassed, LogPassed, DeletionClears, DeletedGone, Closed, Finds

LEMMA SessionStep ==
    ASSUME "auth_user_projection" \in Handler
    PROVE  IInv /\ TablesInv /\ SessionInv /\ [SystemNext]_systemVars => SessionInv'
<1> SUFFICES ASSUME IInv, TablesInv, SessionInv, [SystemNext]_systemVars, resets' = 0
             PROVE  /\ VerifiedPassed' /\ AdmittedPassed' /\ RequestsPassed' /\ LogPassed'
                    /\ DeletionClears' /\ DeletedGone'
  BY DEF SessionInv
<1>1. Goes
  BY DEF Goes
<1> QED BY <1>1, VerifiedPassedKept, AdmittedPassedKept, RequestsPassedKept, LogPassedKept,
        DeletionClearsKept, DeletedGoneKept

\* Without its projection nobody has a row.
NoUsers == "auth_user_projection" \notin Handler => \A u \in User : auth_user[u] = Null

LEMMA NoUsersStep == IInv /\ TablesInv /\ NoUsers /\ [SystemNext]_systemVars => NoUsers'
<1> SUFFICES ASSUME IInv, TablesInv, [SystemNext]_systemVars,
                    "auth_user_projection" \notin Handler,
                    \A u \in User : auth_user[u] = Null,
                    NEW u \in User
             PROVE  auth_user'[u] = Null
  BY DEF NoUsers
<1>1. CASE UNCHANGED tables
  BY <1>1 DEF tables
<1>2. ASSUME NEW v \in User, CreateSession(v) \/ Logout(v)
      PROVE  UNCHANGED auth_user
  BY <1>2 DEF CreateSession, Logout
<1>3. ASSUME NEW i \in DOMAIN log, AuthProject(i)
      PROVE  FALSE
  BY <1>3 DEF AuthProject, Delivers
<1>4. ASSUME NEW i \in DOMAIN log, ProfileProject(i)
      PROVE  UNCHANGED auth_user
  BY <1>4 DEF ProfileProject
<1>5. ASSUME NEW i \in DOMAIN log, ImageProject(i)
      PROVE  auth_user'[u] = Null
  BY <1>5, ImageProjected DEF TablesInv
<1>6. CASE DeleteAccountData
  <2>1. PICK v : v = request[DeletionWorker].event.user
    OBVIOUS
  <2>2. auth_user' = [auth_user EXCEPT ![v] = Null] /\ auth_user \in UserTable
    BY <1>6, <2>1 DEF DeleteAccountData, DeleteAuthUser, TablesInv, RowsInv
  <2> QED BY <2>2 DEF UserTable
<1>7. CASE ResetReadModels
  BY <1>7, ResetIs
<1> QED BY <1>1, <1>2, <1>3, <1>4, <1>5, <1>6, <1>7, TableSteps

LEMMA SessionsHold ==
    ASSUME "auth_user_projection" \in Handler
    PROVE  SystemSpec => []SessionInv
BY SessionInit, SessionStep, CommandsHold, TablesHold, PTL DEF SystemSpec

\* Until a reset a deleted user is gone from auth_user and signed out, however late or
\* often auth_user_projection handles its events: whoever asks for a deletion is signed
\* in, so the projection has gone past the registration and never creates the row again.
THEOREM SignedOutForGood == SystemSpec => []SignInEndsWithDeletion
<1>1. TablesInv => RowsInv
  BY DEF TablesInv
<1>2. CASE "auth_user_projection" \in Handler
  <2>1. RowsInv /\ SessionInv => SignInEndsWithDeletion
    BY DEF RowsInv, SessionInv, DeletedGone, SignInEndsWithDeletion, Deleted, Closed
  <2>2. SystemSpec => []SessionInv
    BY <1>2, SessionsHold
  <2> QED BY <1>1, <2>1, <2>2, TablesHold, PTL
<1>3. CASE "auth_user_projection" \notin Handler
  <2>1. SystemInit => NoUsers
    BY DEF SystemInit, NoRows, NoUsers
  <2>2. RowsInv /\ NoUsers => SignInEndsWithDeletion
    BY <1>3 DEF RowsInv, NoUsers, SignInEndsWithDeletion
  <2> QED BY <1>1, <2>1, <2>2, NoUsersStep, CommandsHold, TablesHold, PTL DEF SystemSpec
<1> QED BY <1>2, <1>3

-------------------------------------------------------------------------------
(* A column shows the last event of its types that its handler has handled.  *)

NameTypes == {"UserRegistered", "UserNameChanged"}
AccountTypes == {"UserRegistered"} \cup PasswordTypes

\* Up to p the log has an event of these types about u ...
FoundBy(p, types, u) ==
    \E i \in DOMAIN log : i <= p /\ log[i].type \in types /\ log[i].user = u

\* ... the last of which is i, or there is none and i is 0.
LastBy(p, types, u, i) ==
    /\ i = 0 \/ (i \in DOMAIN log /\ i <= p /\ log[i].type \in types /\ log[i].user = u)
    /\ \A j \in DOMAIN log : j <= p /\ log[j].type \in types /\ log[j].user = u => j <= i

\* The row of u in auth_user and auth_account.
ShowsAuth(u, p) ==
    /\ auth_user[u] # Null <=> FoundBy(p, {"UserRegistered"}, u)
    /\ auth_user[u] # Null =>
         /\ \E i : LastBy(p, NameTypes, u, i) /\ auth_user[u].name = DisplayName(log[i])
         /\ auth_user[u].verified <=> FoundBy(p, {"EmailVerificationOTPValidated"}, u)
         /\ \E i : LastBy(p, AccountTypes, u, i) /\ auth_account[u] = log[i].password

ShowsImage(u, p) ==
    auth_user[u] # Null => LastBy(p, {"ProfileImageUploaded"}, u, auth_user[u].image)

\* And its row in profile_stats.
ShowsProfile(u, p) ==
    /\ profile_stats[u] # Null <=> FoundBy(p, {"UserRegistered"}, u)
    /\ profile_stats[u] # Null =>
         /\ \E i : LastBy(p, NameTypes, u, i) /\ profile_stats[u].name = log[i].name
         /\ \E i : /\ LastBy(p, {"ProfileBioUpdated"}, u, i)
                   /\ Coalesce(profile_stats[u].bio, NoBio) = IF i = 0 THEN NoBio ELSE log[i].bio
         /\ LastBy(p, {"ProfileImageUploaded"}, u, Coalesce(profile_stats[u].image, 0))
         /\ LastBy(p, {"ProfileHeaderImageUploaded"}, u, Coalesce(profile_stats[u].header, 0))

ShowInv ==
    \A u \in User : ~ Asked(u) =>
        /\ ShowsAuth(u, delivered["auth_user_projection"])
        /\ resets = 0 => ShowsImage(u, delivered["profile_image"])
        /\ ShowsProfile(u, delivered["profile_read_model"])

\* A log that grows stays the same up to where it was.
LEMMA PastStays ==
    ASSUME IInv, [SystemNext]_systemVars, NEW p \in 0..Len(log), NEW types, NEW u
    PROVE  /\ FoundBy(p, types, u)' <=> FoundBy(p, types, u)
           /\ \A i : LastBy(p, types, u, i)' <=> LastBy(p, types, u, i)
           /\ \A i : LastBy(p, types, u, i) /\ i # 0 => i \in DOMAIN log /\ log'[i] = log[i]
<1>1. /\ Len(log) \in Nat /\ DOMAIN log = 1..Len(log)
      /\ Len(log') \in Nat /\ DOMAIN log' = 1..Len(log') /\ Len(log) <= Len(log')
      /\ \A i \in DOMAIN log : i \in DOMAIN log' /\ log'[i] = log[i]
  BY LogGrows
<1>2. \A i \in DOMAIN log' : i <= p => i \in DOMAIN log
  BY <1>1
<1>3. FoundBy(p, types, u)' <=> FoundBy(p, types, u)
  BY <1>1, <1>2 DEF FoundBy
<1>4. \A i : LastBy(p, types, u, i)' <=> LastBy(p, types, u, i)
  BY <1>1, <1>2 DEF LastBy
<1> QED BY <1>1, <1>3, <1>4 DEF LastBy

\* A handler that asks for the types goes from p to i: event i is the last one then, if
\* it is one of them, and nothing is passed over.
LEMMA PastGrows ==
    ASSUME LogInv, NEW p \in 0..Len(log), NEW i \in DOMAIN log, i >= p, NEW all, NEW types,
           types \subseteq all,
           \A j \in DOMAIN log : j > p /\ i > j => log[j].type \notin all,
           NEW u
    PROVE  /\ log[i].type \in types /\ log[i].user = u =>
                FoundBy(i, types, u) /\ LastBy(i, types, u, i)
           /\ FoundBy(p, types, u) => FoundBy(i, types, u)
           /\ \A j : LastBy(i, types, u, j) /\ j # 0 => FoundBy(i, types, u)
           /\ i = p \/ ~ (log[i].type \in types /\ log[i].user = u) =>
                /\ FoundBy(i, types, u) <=> FoundBy(p, types, u)
                /\ \A j : LastBy(i, types, u, j) <=> LastBy(p, types, u, j)
           /\ FoundBy(p, types, u) => ~ LastBy(p, types, u, 0)
<1>1. Len(log) \in Nat /\ DOMAIN log = 1..Len(log) /\ i \in Nat /\ p \in Nat
  BY Positions
<1>2. \A j \in DOMAIN log : j \in Nat /\ j # 0
  BY <1>1
<1>3. \A j \in DOMAIN log : j <= i /\ log[j].type \in types /\ log[j].user = u =>
        j <= p \/ j = i
  BY <1>1, <1>2
<1>4. log[i].type \in types /\ log[i].user = u => FoundBy(i, types, u) /\ LastBy(i, types, u, i)
  BY <1>1 DEF FoundBy, LastBy
<1>5. \A j \in DOMAIN log : j <= p => j <= i
  BY <1>1, <1>2
<1>6. FoundBy(p, types, u) => FoundBy(i, types, u)
  BY <1>5 DEF FoundBy
<1>7. ASSUME i = p \/ ~ (log[i].type \in types /\ log[i].user = u)
      PROVE  /\ FoundBy(i, types, u) <=> FoundBy(p, types, u)
             /\ \A j : LastBy(i, types, u, j) <=> LastBy(p, types, u, j)
  <2>1. \A j \in DOMAIN log : log[j].type \in types /\ log[j].user = u => (j <= i <=> j <= p)
    BY <1>1, <1>3, <1>5, <1>7
  <2> QED BY <2>1 DEF FoundBy, LastBy
<1>8. FoundBy(p, types, u) => ~ LastBy(p, types, u, 0)
  BY <1>2 DEF FoundBy, LastBy
<1>9. \A j : LastBy(i, types, u, j) /\ j # 0 => FoundBy(i, types, u)
  BY DEF FoundBy, LastBy
<1> QED BY <1>4, <1>6, <1>7, <1>8, <1>9

\* A user registers once, and has no events before that.
LEMMA FirstRegisters ==
    ASSUME IInv, NEW i \in DOMAIN log, log[i].type = "UserRegistered", NEW u, log[i].user = u
    PROVE  /\ \A k \in DOMAIN log : log[k].type = "UserRegistered" /\ log[k].user = u => k = i
           /\ \A k \in DOMAIN log : log[k].type \in OwnedTypes /\ log[k].user = u => i < k
<1>1. \A k \in DOMAIN log : log[k].type = "UserRegistered" /\ log[k].user = u => k = i
  BY DEF IInv, Promises, IdentityTakenOnce
<1>2. ASSUME NEW k \in DOMAIN log, log[k].type \in OwnedTypes, log[k].user = u
      PROVE  i < k
  <2>1. PICK j \in DOMAIN log : j < k /\ InQuery(log[j], UserRegisteredQuery(u))
    BY <1>2 DEF IInv, LogInv, Rooted
  <2>2. log[j].type = "UserRegistered" /\ log[j].user = u
    BY <2>1, EventAt, AsksOfUser DEF UserRegisteredQuery, IInv
  <2> QED BY <1>1, <2>1, <2>2
<1> QED BY <1>1, <1>2

\* The stretch that a handler passes over.
LEMMA PassesOver ==
    ASSUME IInv, TablesInv, NEW h, NEW i \in DOMAIN log, Delivers(h, i), NEW p, p = delivered[h]
    PROVE  /\ p \in 0..Len(log) /\ i \in 0..Len(log) /\ i >= p /\ delivered'[h] = i
           /\ h = "auth_user_projection" =>
                \A j \in DOMAIN log : j > p /\ i > j => log[j].type \notin AuthTypes
           /\ h = "profile_read_model" =>
                \A j \in DOMAIN log : j > p /\ i > j => log[j].type \notin ProfileTypes
           /\ h = "profile_image" =>
                \A j \in DOMAIN log : j > p /\ i > j => log[j].type \notin {"ProfileImageUploaded"}
<1>1. /\ p \in 0..Len(log) /\ i >= p /\ delivered'[h] = i
      /\ \A j \in DOMAIN log : j > p /\ i > j => ~ InQuery(log[j], QueryOf(h))
  BY DeliversIs DEF IInv, TablesInv
<1>2. i \in 0..Len(log) /\ \A j \in DOMAIN log : log[j] \in Event
  BY Positions DEF IInv
<1>3. \A j \in DOMAIN log :
        /\ InQuery(log[j], QueryOf("auth_user_projection")) <=> log[j].type \in AuthTypes
        /\ InQuery(log[j], QueryOf("profile_read_model")) <=> log[j].type \in ProfileTypes
        /\ InQuery(log[j], QueryOf("profile_image")) <=> log[j].type = "ProfileImageUploaded"
  BY <1>2, AsksForTypes
<1> QED BY <1>1, <1>2, <1>3

\* auth_user_projection shows what it has handled.
LEMMA AuthShown ==
    ASSUME IInv, TablesInv, [SystemNext]_systemVars, NEW u \in User, NEW i \in DOMAIN log,
           AuthProject(i), NEW p, p = delivered["auth_user_projection"], ShowsAuth(u, p)
    PROVE  ShowsAuth(u, i)'
<1>1. PICK e : e = log[i]
  OBVIOUS
<1>2. AuthEffect(e)
  BY <1>1, AuthProjected DEF TablesInv
<1>3. /\ p \in 0..Len(log) /\ i \in 0..Len(log) /\ i >= p
      /\ \A j \in DOMAIN log : j > p /\ i > j => log[j].type \notin AuthTypes
  <2>1. Delivers("auth_user_projection", i)
    BY DEF AuthProject
  <2> QED BY <2>1, PassesOver
<1>4. LogInv
  BY DEF IInv
<1>5. \A types : /\ FoundBy(i, types, u)' <=> FoundBy(i, types, u)
                 /\ \A j : LastBy(i, types, u, j)' <=> LastBy(i, types, u, j)
  BY <1>3, PastStays
<1>6. log' = log
  BY DEF AuthProject, vars
<1>7. \A types : types \subseteq AuthTypes =>
        /\ e.type \in types /\ e.user = u => FoundBy(i, types, u) /\ LastBy(i, types, u, i)
        /\ FoundBy(p, types, u) => FoundBy(i, types, u)
        /\ i = p \/ ~ (e.type \in types /\ e.user = u) =>
             /\ FoundBy(i, types, u) <=> FoundBy(p, types, u)
             /\ \A j : LastBy(i, types, u, j) <=> LastBy(p, types, u, j)
  BY <1>1, <1>3, <1>4, PastGrows
<1>8. /\ {"UserRegistered"} \subseteq AuthTypes /\ NameTypes \subseteq AuthTypes
      /\ {"EmailVerificationOTPValidated"} \subseteq AuthTypes /\ AccountTypes \subseteq AuthTypes
  BY DEF AuthTypes, NameTypes, AccountTypes, PasswordTypes
<1>9. SUFFICES /\ auth_user'[u] # Null <=> FoundBy(i, {"UserRegistered"}, u)
               /\ auth_user'[u] # Null =>
                    /\ \E j : LastBy(i, NameTypes, u, j) /\ auth_user'[u].name = DisplayName(log[j])
                    /\ auth_user'[u].verified <=> FoundBy(i, {"EmailVerificationOTPValidated"}, u)
                    /\ \E j : LastBy(i, AccountTypes, u, j) /\ auth_account'[u] = log[j].password
  BY <1>5, <1>6 DEF ShowsAuth
<1>10. CASE e.user # u
  <2>1. auth_user'[u] = auth_user[u] /\ auth_account'[u] = auth_account[u]
    BY <1>2, <1>10 DEF AuthEffect
  <2> QED BY <1>7, <1>8, <1>10, <2>1 DEF ShowsAuth
<1>11. CASE e.user = u /\ auth_user[u] = Null /\ e.type # "UserRegistered"
  <2>1. auth_user'[u] = Null
    BY <1>2, <1>11 DEF AuthEffect
  <2> QED BY <1>7, <1>8, <1>11, <2>1 DEF ShowsAuth
<1>12. CASE e.user = u /\ auth_user[u] = Null /\ e.type = "UserRegistered"
  <2>1. /\ auth_user'[u] # Null /\ auth_user'[u].name = DisplayName(e)
        /\ auth_user'[u].verified = FALSE /\ auth_account'[u] = e.password
    BY <1>2, <1>12 DEF AuthEffect
  <2>2. ~ FoundBy(i, {"EmailVerificationOTPValidated"}, u)
    <3>1. \A k \in DOMAIN log : log[k].type \in OwnedTypes /\ log[k].user = u => i < k
      BY <1>1, <1>12, FirstRegisters
    <3>2. \A k \in DOMAIN log : k \in Nat /\ i \in Nat
      BY <1>4, EventAt
    <3> QED BY <3>1, <3>2 DEF FoundBy, OwnedTypes
  <2>3. /\ FoundBy(i, {"UserRegistered"}, u) /\ LastBy(i, NameTypes, u, i)
        /\ LastBy(i, AccountTypes, u, i)
    BY <1>7, <1>8, <1>12 DEF NameTypes, AccountTypes
  <2> QED BY <1>1, <2>1, <2>2, <2>3
<1>13. CASE e.user = u /\ auth_user[u] # Null
  <2>1. FoundBy(p, {"UserRegistered"}, u)
    BY <1>13 DEF ShowsAuth
  <2>2. e.type = "UserRegistered" => i = p
    <3>1. PICK k \in DOMAIN log : k <= p /\ log[k].type = "UserRegistered" /\ log[k].user = u
      BY <2>1 DEF FoundBy
    <3>2. e.type = "UserRegistered" => k = i
      BY <1>1, <1>13, <3>1, FirstRegisters
    <3> QED BY <1>3, <3>1, <3>2
  <2>3. /\ auth_user'[u] # Null
        /\ auth_user'[u].name =
             IF e.type = "UserNameChanged" THEN DisplayName(e) ELSE auth_user[u].name
        /\ auth_user'[u].verified =
             IF e.type = "EmailVerificationOTPValidated" THEN TRUE ELSE auth_user[u].verified
        /\ auth_account'[u] = IF e.type \in PasswordTypes THEN e.password ELSE auth_account[u]
    BY <1>2, <1>13 DEF AuthEffect
  <2>4. \E j : LastBy(i, NameTypes, u, j) /\ auth_user'[u].name = DisplayName(log[j])
    <3>1. CASE e.type = "UserNameChanged"
      BY <1>1, <1>7, <1>8, <1>13, <2>3, <3>1 DEF NameTypes
    <3>2. CASE e.type # "UserNameChanged"
      BY <1>7, <1>8, <1>13, <2>2, <2>3, <3>2 DEF NameTypes, ShowsAuth
    <3> QED BY <3>1, <3>2
  <2>5. auth_user'[u].verified <=> FoundBy(i, {"EmailVerificationOTPValidated"}, u)
    <3>1. CASE e.type = "EmailVerificationOTPValidated"
      BY <1>7, <1>8, <1>13, <2>3, <3>1
    <3>2. CASE e.type # "EmailVerificationOTPValidated"
      BY <1>7, <1>8, <1>13, <2>3, <3>2 DEF ShowsAuth
    <3> QED BY <3>1, <3>2
  <2>6. \E j : LastBy(i, AccountTypes, u, j) /\ auth_account'[u] = log[j].password
    <3>1. CASE e.type \in PasswordTypes
      BY <1>1, <1>7, <1>8, <1>13, <2>3, <3>1 DEF AccountTypes
    <3>2. CASE e.type \notin PasswordTypes
      BY <1>7, <1>8, <1>13, <2>2, <2>3, <3>2 DEF AccountTypes, ShowsAuth
    <3> QED BY <3>1, <3>2
  <2>7. FoundBy(i, {"UserRegistered"}, u)
    BY <1>7, <1>8, <2>1
  <2> QED BY <2>3, <2>4, <2>5, <2>6, <2>7
<1> QED BY <1>10, <1>11, <1>12, <1>13

\* So does profile_read_model.
LEMMA ProfileShown ==
    ASSUME IInv, TablesInv, [SystemNext]_systemVars, NEW u \in User, NEW i \in DOMAIN log,
           ProfileProject(i), NEW p, p = delivered["profile_read_model"], ShowsProfile(u, p)
    PROVE  ShowsProfile(u, i)'
<1>1. PICK e : e = log[i]
  OBVIOUS
<1>2. ProfileEffect(e) /\ e \in Event /\ e.id = i /\ e.type \in ProfileTypes /\ i # 0
  BY <1>1, ProfileProjected, EventAt DEF TablesInv, IInv
<1>3. /\ p \in 0..Len(log) /\ i \in 0..Len(log) /\ i >= p
      /\ \A j \in DOMAIN log : j > p /\ i > j => log[j].type \notin ProfileTypes
  <2>1. Delivers("profile_read_model", i)
    BY DEF ProfileProject
  <2> QED BY <2>1, PassesOver
<1>4. LogInv
  BY DEF IInv
<1>5. \A types : /\ FoundBy(i, types, u)' <=> FoundBy(i, types, u)
                 /\ \A j : LastBy(i, types, u, j)' <=> LastBy(i, types, u, j)
  BY <1>3, PastStays
<1>6. log' = log
  BY DEF ProfileProject, vars
<1>7. \A types : types \subseteq ProfileTypes =>
        /\ e.type \in types /\ e.user = u => FoundBy(i, types, u) /\ LastBy(i, types, u, i)
        /\ FoundBy(p, types, u) => FoundBy(i, types, u)
        /\ i = p \/ ~ (e.type \in types /\ e.user = u) =>
             /\ FoundBy(i, types, u) <=> FoundBy(p, types, u)
             /\ \A j : LastBy(i, types, u, j) <=> LastBy(p, types, u, j)
  BY <1>1, <1>3, <1>4, PastGrows
<1>8. /\ {"UserRegistered"} \subseteq ProfileTypes /\ NameTypes \subseteq ProfileTypes
      /\ {"ProfileBioUpdated"} \subseteq ProfileTypes
      /\ {"ProfileImageUploaded"} \subseteq ProfileTypes
      /\ {"ProfileHeaderImageUploaded"} \subseteq ProfileTypes
  BY DEF ProfileTypes, NameTypes
<1> DEFINE row == profile_stats'[u]
<1>9. SUFFICES /\ row # Null <=> FoundBy(i, {"UserRegistered"}, u)
               /\ row # Null =>
                    /\ \E j : LastBy(i, NameTypes, u, j) /\ row.name = log[j].name
                    /\ \E j : /\ LastBy(i, {"ProfileBioUpdated"}, u, j)
                              /\ Coalesce(row.bio, NoBio) = IF j = 0 THEN NoBio ELSE log[j].bio
                    /\ LastBy(i, {"ProfileImageUploaded"}, u, Coalesce(row.image, 0))
                    /\ LastBy(i, {"ProfileHeaderImageUploaded"}, u, Coalesce(row.header, 0))
  <2>1. LastBy(i, {"ProfileImageUploaded"}, u, Coalesce(row.image, 0))
          => LastBy(i, {"ProfileImageUploaded"}, u, Coalesce(profile_stats[u].image, 0))'
    BY <1>5, <1>6 DEF LastBy, Coalesce
  <2>2. LastBy(i, {"ProfileHeaderImageUploaded"}, u, Coalesce(row.header, 0))
          => LastBy(i, {"ProfileHeaderImageUploaded"}, u, Coalesce(profile_stats[u].header, 0))'
    BY <1>5, <1>6 DEF LastBy, Coalesce
  <2> QED BY <1>5, <1>6, <1>9, <2>1, <2>2 DEF ShowsProfile, Coalesce
<1>10. CASE e.user # u
  <2>1. row = profile_stats[u]
    BY <1>2, <1>10 DEF ProfileEffect
  <2> HIDE DEF row
  <2> QED BY <1>7, <1>8, <1>10, <2>1 DEF ShowsProfile
<1>11. CASE e.user = u
  <2>1. PICK old : old = OldProfile(u)
    OBVIOUS
  <2>2. /\ row # Null
        /\ row.name = IF e.type \in NameTypes THEN e.name ELSE old.name
        /\ row.bio = IF e.type = "ProfileBioUpdated" THEN e.bio ELSE old.bio
        /\ row.image = IF e.type = "ProfileImageUploaded" THEN i ELSE old.image
        /\ row.header = IF e.type = "ProfileHeaderImageUploaded" THEN i ELSE old.header
    BY <1>2, <1>11, <2>1 DEF ProfileEffect, NameTypes
  <2> HIDE DEF row
  <2>3. i \in Nat /\ \A k \in DOMAIN log : k \in Nat /\ k # 0
    BY <1>4, EventAt
  <2>4. i # Null /\ Null \notin Bio
    BY <1>4, EventAt, NullAssumption
  <2>5. e.type = "ProfileBioUpdated" => e.bio # Null
    BY <1>2, <2>4, Columns
  <2>6. FoundBy(i, {"UserRegistered"}, u)
    <3>1. CASE e.type = "UserRegistered"
      BY <1>7, <1>8, <1>11, <3>1
    <3>2. CASE e.type # "UserRegistered"
      <4>1. log[i].type \in OwnedTypes
        BY <1>1, <1>2, <3>2 DEF ProfileTypes, OwnedTypes
      <4>2. PICK k \in DOMAIN log : k < i /\ InQuery(log[k], UserRegisteredQuery(u))
        BY <1>1, <1>11, <4>1 DEF IInv, LogInv, Rooted
      <4>3. log[k].type = "UserRegistered" /\ log[k].user = u
        BY <4>2, EventAt, AsksOfUser DEF UserRegisteredQuery, IInv
      <4> QED BY <2>3, <4>2, <4>3 DEF FoundBy
    <3> QED BY <3>1, <3>2
  <2>7. CASE profile_stats[u] = Null
    <3>1. old = [name |-> Null, bio |-> Null, image |-> Null, header |-> Null]
      BY <2>1, <2>7 DEF OldProfile
    <3>2. e.type = "UserRegistered"
      <4>1. ~ FoundBy(p, {"UserRegistered"}, u)
        BY <2>7 DEF ShowsProfile
      <4> QED BY <1>7, <1>8, <2>6, <4>1
    <3>3. \A k \in DOMAIN log : log[k].type \in OwnedTypes /\ log[k].user = u => ~ (k <= i)
      <4>1. \A k \in DOMAIN log : log[k].type \in OwnedTypes /\ log[k].user = u => i < k
        BY <1>1, <1>11, <3>2, FirstRegisters
      <4> QED BY <2>3, <4>1
    <3>4. /\ LastBy(i, {"ProfileBioUpdated"}, u, 0) /\ LastBy(i, {"ProfileImageUploaded"}, u, 0)
          /\ LastBy(i, {"ProfileHeaderImageUploaded"}, u, 0)
      BY <3>3 DEF LastBy, OwnedTypes
    <3>5. /\ row.name = e.name /\ Coalesce(row.bio, NoBio) = NoBio
          /\ Coalesce(row.image, 0) = 0 /\ Coalesce(row.header, 0) = 0
      BY <2>2, <3>1, <3>2 DEF Coalesce, NameTypes
    <3>6. LastBy(i, NameTypes, u, i)
      BY <1>7, <1>8, <1>11, <3>2 DEF NameTypes
    <3> QED BY <1>1, <2>2, <2>6, <3>4, <3>5, <3>6
  <2>8. CASE profile_stats[u] # Null
    <3>1. old = profile_stats[u]
      BY <2>1, <2>8 DEF OldProfile
    <3>2. \E j : LastBy(i, NameTypes, u, j) /\ row.name = log[j].name
      <4>1. CASE e.type \in NameTypes
        BY <1>1, <1>7, <1>8, <1>11, <2>2, <4>1
      <4>2. CASE e.type \notin NameTypes
        BY <1>7, <1>8, <2>2, <2>8, <3>1, <4>2 DEF ShowsProfile
      <4> QED BY <4>1, <4>2
    <3>3. \E j : /\ LastBy(i, {"ProfileBioUpdated"}, u, j)
                 /\ Coalesce(row.bio, NoBio) = IF j = 0 THEN NoBio ELSE log[j].bio
      <4>1. CASE e.type = "ProfileBioUpdated"
        <5>1. LastBy(i, {"ProfileBioUpdated"}, u, i) /\ Coalesce(row.bio, NoBio) = log[i].bio
          BY <1>1, <1>7, <1>8, <1>11, <2>2, <2>5, <4>1 DEF Coalesce
        <5> QED BY <1>2, <5>1
      <4>2. CASE e.type # "ProfileBioUpdated"
        BY <1>7, <1>8, <2>2, <2>8, <3>1, <4>2 DEF ShowsProfile
      <4> QED BY <4>1, <4>2
    <3>4. LastBy(i, {"ProfileImageUploaded"}, u, Coalesce(row.image, 0))
      <4>1. CASE e.type = "ProfileImageUploaded"
        <5>1. Coalesce(row.image, 0) = i
          BY <2>2, <2>4, <4>1 DEF Coalesce
        <5> QED BY <1>7, <1>8, <1>11, <4>1, <5>1
      <4>2. CASE e.type # "ProfileImageUploaded"
        BY <1>7, <1>8, <2>2, <2>8, <3>1, <4>2 DEF ShowsProfile
      <4> QED BY <4>1, <4>2
    <3>5. LastBy(i, {"ProfileHeaderImageUploaded"}, u, Coalesce(row.header, 0))
      <4>1. CASE e.type = "ProfileHeaderImageUploaded"
        <5>1. Coalesce(row.header, 0) = i
          BY <2>2, <2>4, <4>1 DEF Coalesce
        <5> QED BY <1>7, <1>8, <1>11, <4>1, <5>1
      <4>2. CASE e.type # "ProfileHeaderImageUploaded"
        BY <1>7, <1>8, <2>2, <2>8, <3>1, <4>2 DEF ShowsProfile
      <4> QED BY <4>1, <4>2
    <3> QED BY <2>2, <2>6, <3>2, <3>3, <3>4, <3>5
  <2> QED BY <2>7, <2>8
<1> QED BY <1>10, <1>11

\* And profile_image, in its column of auth_user.
LEMMA ImageShown ==
    ASSUME IInv, TablesInv, [SystemNext]_systemVars, NEW u \in User, NEW i \in DOMAIN log,
           ImageProject(i), NEW p, p = delivered["profile_image"], ShowsImage(u, p)
    PROVE  ShowsImage(u, i)'
<1> DEFINE types == {"ProfileImageUploaded"}
<1>1. /\ p \in 0..Len(log) /\ i \in 0..Len(log) /\ i >= p
      /\ \A j \in DOMAIN log : j > p /\ i > j => log[j].type \notin types
  <2>1. Delivers("profile_image", i)
    BY DEF ImageProject
  <2> QED BY <2>1, PassesOver
<1> HIDE DEF types
<1>2. LogInv
  BY DEF IInv
<1>3. \A j : LastBy(i, types, u, j)' <=> LastBy(i, types, u, j)
  BY <1>1, PastStays
<1>4. /\ log[i].type \in types /\ log[i].user = u => LastBy(i, types, u, i)
      /\ log[i].user # u => \A j : LastBy(i, types, u, j) <=> LastBy(p, types, u, j)
  BY <1>1, <1>2, PastGrows
<1>5. /\ log[i].type \in types
      /\ log[i].user # u => auth_user'[u] = auth_user[u]
      /\ log[i].user = u => /\ auth_user'[u] = Null <=> auth_user[u] = Null
                            /\ auth_user[u] # Null => auth_user'[u].image = i
  BY ImageProjected DEF TablesInv, types
<1>6. PICK image : image = auth_user'[u].image
  OBVIOUS
<1>7. auth_user'[u] # Null => LastBy(i, types, u, image)
  <2>1. CASE log[i].user = u
    BY <1>4, <1>5, <1>6, <2>1
  <2>2. CASE log[i].user # u
    BY <1>4, <1>5, <1>6, <2>2 DEF ShowsImage, types
  <2> QED BY <2>1, <2>2
<1> QED BY <1>3, <1>6, <1>7 DEF ShowsImage, types

\* The two handlers that write auth_user keep to their columns: profile_image ...
LEMMA ImageKeepsAuth ==
    ASSUME IInv, TablesInv, [SystemNext]_systemVars, NEW u \in User, NEW i \in DOMAIN log,
           ImageProject(i), NEW p \in 0..Len(log), ShowsAuth(u, p)
    PROVE  ShowsAuth(u, p)'
<1>1. \A types : /\ FoundBy(p, types, u)' <=> FoundBy(p, types, u)
                 /\ \A j : LastBy(p, types, u, j)' <=> LastBy(p, types, u, j)
  BY PastStays
<1>2. log' = log /\ auth_account' = auth_account
  BY DEF ImageProject, vars
<1>3. /\ auth_user'[u] = Null <=> auth_user[u] = Null
      /\ auth_user[u] # Null => /\ auth_user'[u].name = auth_user[u].name
                                /\ auth_user'[u].verified = auth_user[u].verified
  BY ImageProjected DEF TablesInv
<1> QED BY <1>1, <1>2, <1>3 DEF ShowsAuth

\* ... and auth_user_projection, which creates a row before anyone can upload an image.
LEMMA AuthKeepsImage ==
    ASSUME IInv, TablesInv, [SystemNext]_systemVars, LogPassed, NEW u \in User,
           NEW i \in DOMAIN log, AuthProject(i), NEW p \in 0..Len(log), ShowsImage(u, p)
    PROVE  ShowsImage(u, p)'
<1> DEFINE types == {"ProfileImageUploaded"}
<1>1. \A j : LastBy(p, types, u, j)' <=> LastBy(p, types, u, j)
  BY PastStays
<1>2. PICK e : e = log[i]
  OBVIOUS
<1>3. AuthEffect(e)
  BY <1>2, AuthProjected DEF TablesInv
<1>4. PICK image : image = auth_user'[u].image
  OBVIOUS
<1>5. CASE auth_user[u] # Null
  <2>1. image = auth_user[u].image
    BY <1>3, <1>4, <1>5 DEF AuthEffect
  <2>2. LastBy(p, types, u, image)
    BY <1>5, <2>1 DEF ShowsImage
  <2> QED BY <1>1, <1>4, <2>2 DEF ShowsImage
<1>6. CASE auth_user[u] = Null /\ auth_user'[u] # Null
  <2>1. e.user = u /\ e.type = "UserRegistered" /\ image = 0
    BY <1>3, <1>4, <1>6 DEF AuthEffect
  <2>2. \A j \in DOMAIN log : ~ (log[j].type = "ProfileImageUploaded" /\ log[j].user = u)
    <3> SUFFICES ASSUME NEW j \in DOMAIN log, log[j].type = "ProfileImageUploaded",
                        log[j].user = u
                 PROVE  FALSE
      OBVIOUS
    <3>1. PICK k \in DOMAIN log :
            k < delivered["auth_user_projection"] /\ InQuery(log[k], UserRegisteredQuery(u))
      BY DEF LogPassed, SessionTypes, Passed
    <3>2. log[k].type = "UserRegistered" /\ log[k].user = u /\ k \in Nat /\ i \in Nat
      BY <3>1, EventAt, AsksOfUser DEF UserRegisteredQuery, IInv
    <3>3. k = i
      BY <1>2, <2>1, <3>2, FirstRegisters
    <3>4. i >= delivered["auth_user_projection"] /\ delivered["auth_user_projection"] \in Nat
      <4>1. Delivers("auth_user_projection", i)
        BY DEF AuthProject
      <4> QED BY <4>1, DeliversIs, Positions DEF TablesInv, IInv
    <3> QED BY <3>1, <3>2, <3>3, <3>4
  <2>3. LastBy(p, types, u, image)
    BY <2>1, <2>2 DEF LastBy
  <2> QED BY <1>1, <1>4, <2>3 DEF ShowsImage
<1> QED BY <1>5, <1>6 DEF ShowsImage

\* What is left alone shows what it showed.
LEMMA RowsStay ==
    ASSUME IInv, [SystemNext]_systemVars, NEW u \in User, NEW p \in 0..Len(log)
    PROVE  /\ ShowsAuth(u, p) /\ auth_user'[u] = auth_user[u] /\ auth_account'[u] = auth_account[u]
                => ShowsAuth(u, p)'
           /\ ShowsImage(u, p) /\ auth_user'[u] = auth_user[u] => ShowsImage(u, p)'
           /\ ShowsProfile(u, p) /\ profile_stats'[u] = profile_stats[u] => ShowsProfile(u, p)'
<1>1. \A types : /\ FoundBy(p, types, u)' <=> FoundBy(p, types, u)
                 /\ \A j : LastBy(p, types, u, j)' <=> LastBy(p, types, u, j)
                 /\ \A j : LastBy(p, types, u, j) /\ j # 0 => log'[j] = log[j]
  BY PastStays
<1>2. ASSUME NEW types, "UserRegistered" \in types, FoundBy(p, {"UserRegistered"}, u)
      PROVE  ~ LastBy(p, types, u, 0)
  <2>1. DOMAIN log = 1..Len(log) /\ Len(log) \in Nat
    BY Positions DEF IInv
  <2> QED BY <1>2, <2>1 DEF FoundBy, LastBy
<1>3. /\ FoundBy(p, {"UserRegistered"}, u) => ~ LastBy(p, NameTypes, u, 0)
      /\ FoundBy(p, {"UserRegistered"}, u) => ~ LastBy(p, AccountTypes, u, 0)
  BY <1>2 DEF NameTypes, AccountTypes
<1>4. ASSUME ShowsAuth(u, p), auth_user'[u] = auth_user[u], auth_account'[u] = auth_account[u]
      PROVE  ShowsAuth(u, p)'
  BY <1>1, <1>3, <1>4 DEF ShowsAuth
<1>5. ASSUME ShowsImage(u, p), auth_user'[u] = auth_user[u] PROVE ShowsImage(u, p)'
  <2>1. PICK image : image = auth_user[u].image
    OBVIOUS
  <2> QED BY <1>1, <1>5, <2>1 DEF ShowsImage
<1>6. ASSUME ShowsProfile(u, p), profile_stats'[u] = profile_stats[u] PROVE ShowsProfile(u, p)'
  <2>1. PICK image, header, bio : /\ image = Coalesce(profile_stats[u].image, 0)
                                  /\ header = Coalesce(profile_stats[u].header, 0)
                                  /\ bio = Coalesce(profile_stats[u].bio, NoBio)
    OBVIOUS
  <2>2. /\ image = Coalesce(profile_stats'[u].image, 0)
        /\ header = Coalesce(profile_stats'[u].header, 0)
        /\ bio = Coalesce(profile_stats'[u].bio, NoBio)
    BY <1>6, <2>1
  <2>3. profile_stats'[u] # Null <=> FoundBy(p, {"UserRegistered"}, u)'
    BY <1>1, <1>6 DEF ShowsProfile
  <2>4. ASSUME profile_stats[u] # Null
        PROVE  /\ \E i : LastBy(p, NameTypes, u, i)' /\ profile_stats'[u].name = log'[i].name
               /\ \E i : /\ LastBy(p, {"ProfileBioUpdated"}, u, i)'
                         /\ bio = IF i = 0 THEN NoBio ELSE log'[i].bio
               /\ LastBy(p, {"ProfileImageUploaded"}, u, image)'
               /\ LastBy(p, {"ProfileHeaderImageUploaded"}, u, header)'
    BY <1>1, <1>3, <1>6, <2>1, <2>4 DEF ShowsProfile
  <2> QED BY <1>6, <2>2, <2>3, <2>4 DEF ShowsProfile
<1> QED BY <1>4, <1>5, <1>6

\* The handlers that fill the tables.
Projections == {"auth_user_projection", "profile_image", "profile_read_model"}

RowsLeft(u) ==
    /\ auth_user'[u] = auth_user[u] /\ auth_account'[u] = auth_account[u]
    /\ profile_stats'[u] = profile_stats[u]

\* What happens to a user who has not asked for a deletion.
LEMMA RowSteps ==
    ASSUME IInv, TablesInv, [SystemNext]_systemVars, NEW u \in User, ~ Asked(u),
           Projections \subseteq Handler
    PROVE  \/ /\ RowsLeft(u) /\ resets' = resets
              /\ \A h \in Projections : delivered'[h] = delivered[h]
           \/ \E i \in DOMAIN log : AuthProject(i) \/ ProfileProject(i) \/ ImageProject(i)
           \/ ResetReadModels
<1> USE DEF RowsLeft, Projections
<1>1. CASE UNCHANGED systemVars
  BY <1>1 DEF systemVars, tables, progress
<1>2. ASSUME NEW v \in User,
             CheckPassword(v) \/ RequireVerifiedEmail(v) \/ CreateSession(v) \/ Logout(v)
      PROVE  UNCHANGED <<auth_user, auth_account, profile_stats, resets, delivered>>
  BY <1>2 DEF CheckPassword, RequireVerifiedEmail, CreateSession, Logout, tables, progress
<1>3. CASE GoAway
  BY <1>3 DEF GoAway, tables, progress
<1>4. CASE \E r \in Web : WebCommand(r)
  BY <1>4 DEF WebCommand, tables, progress
<1>5. CASE CodeExpires
  BY <1>5 DEF CodeExpires, tables, progress
<1>6. ASSUME NEW i \in DOMAIN log, StartDeletion(i)
      PROVE  UNCHANGED <<auth_user, auth_account, profile_stats, resets, delivered>>
  BY <1>6 DEF StartDeletion, tables, progress
<1>7. ASSUME NEW i \in DOMAIN log, SkipDeletion(i)
      PROVE  /\ RowsLeft(u) /\ resets' = resets
             /\ \A h \in Projections : delivered'[h] = delivered[h]
  <2>1. Delivers("account_deletion", i) /\ UNCHANGED <<auth_user, auth_account, profile_stats>>
    BY <1>7 DEF SkipDeletion
  <2>2. resets' = resets /\ \A h \in Handler : h # "account_deletion" => delivered'[h] = delivered[h]
    BY <2>1, DeliversIs DEF IInv, TablesInv
  <2> QED BY <2>1, <2>2
<1>8. ASSUME NEW h \in Handler,
             AdvanceCheckpoint(h) \/ \E i \in DOMAIN log : ReadSubjectKey(h, i)
      PROVE  UNCHANGED <<auth_user, auth_account, profile_stats, resets, delivered>>
  BY <1>8 DEF AdvanceCheckpoint, ReadSubjectKey, tables
<1>9. CASE DestroySubjectKey \/ DeletionFails
  BY <1>9 DEF DestroySubjectKey, DeletionFails, tables, progress
<1>10. CASE SaveAccountDeleted
  <2>1. /\ UNCHANGED <<auth_user, auth_account, profile_stats, resets>>
        /\ delivered' = [delivered EXCEPT !["account_deletion"] =
                           request[DeletionWorker].event.about]
    BY <1>10 DEF SaveAccountDeleted, tables
  <2>2. delivered = [h \in Handler |-> delivered[h]]
    BY DEF TablesInv, ProgressInv
  <2> QED BY <2>1, <2>2
<1>11. CASE DeleteAccountData
  <2>1. PICK v : v = request[DeletionWorker].event.user
    OBVIOUS
  <2>2. /\ auth_user' = [auth_user EXCEPT ![v] = Null]
        /\ auth_account' = [auth_account EXCEPT ![v] = Null]
        /\ profile_stats' = [profile_stats EXCEPT ![v] = Null]
        /\ UNCHANGED <<resets, delivered>>
        /\ request[DeletionWorker] # Idle
    BY <1>11, <2>1 DEF DeleteAccountData, DeleteAuthUser, DeleteAuthAccounts, DeleteProfile,
       DeleteData, At, progress
  <2>3. PICK e : e = request[DeletionWorker].event
    OBVIOUS
  <2>4. log[e.about].type = "AccountDeletionRequested" /\ log[e.about].user = v
        /\ e.about \in DOMAIN log
    BY <2>1, <2>2, <2>3, WorkerHolds DEF TablesInv
  <2>5. Asked(v)
    BY <2>4, FindsOfUser DEF Asked, IInv, SentTypes
  <2>6. u # v
    BY <2>5
  <2>7. /\ auth_user \in UserTable /\ auth_account \in [User -> Password \cup {Null}]
        /\ profile_stats \in ProfileTable
    BY DEF TablesInv, RowsInv
  <2> QED BY <2>2, <2>6, <2>7 DEF UserTable, ProfileTable
<1> QED BY <1>1, <1>2, <1>3, <1>4, <1>5, <1>6, <1>7, <1>8, <1>9, <1>10, <1>11 DEF SystemNext

LEMMA ShowInit == SystemInit => ShowInv
<1> SUFFICES ASSUME SystemInit, NEW u \in User
             PROVE  \A p : ShowsAuth(u, p) /\ ShowsImage(u, p) /\ ShowsProfile(u, p)
  BY DEF ShowInv
<1>1. DOMAIN log = {} /\ auth_user[u] = Null /\ profile_stats[u] = Null
  BY DEF SystemInit, Init, NoRows
<1> QED BY <1>1 DEF ShowsAuth, ShowsImage, ShowsProfile, FoundBy

LEMMA ShowStep ==
    ASSUME Projections \subseteq Handler
    PROVE  /\ IInv /\ TablesInv /\ SessionInv /\ ShowInv
           /\ [SystemNext]_systemVars
           => ShowInv'
<1> SUFFICES ASSUME IInv, TablesInv, SessionInv, ShowInv, [SystemNext]_systemVars,
                    NEW u \in User, ~ Asked(u)'
             PROVE  \A a, m, q : /\ a = delivered'["auth_user_projection"]
                                 /\ m = delivered'["profile_image"]
                                 /\ q = delivered'["profile_read_model"]
                    => /\ ShowsAuth(u, a)' /\ ShowsProfile(u, q)'
                       /\ resets' = 0 => ShowsImage(u, m)'
  BY DEF ShowInv, ShowsAuth, ShowsProfile, ShowsImage
<1> SUFFICES ASSUME NEW a, NEW m, NEW q, a = delivered'["auth_user_projection"],
                    m = delivered'["profile_image"], q = delivered'["profile_read_model"]
             PROVE  /\ ShowsAuth(u, a)' /\ ShowsProfile(u, q)'
                    /\ resets' = 0 => ShowsImage(u, m)'
  OBVIOUS
<1>1. ~ Asked(u)
  <2>1. \A i \in DOMAIN log : i \in DOMAIN log' /\ log'[i] = log[i]
    BY LogGrows
  <2> QED BY <2>1 DEF Asked, Finds
<1>2. PICK b, n, r : /\ b = delivered["auth_user_projection"] /\ n = delivered["profile_image"]
                     /\ r = delivered["profile_read_model"]
  OBVIOUS
<1>3. b \in 0..Len(log) /\ n \in 0..Len(log) /\ r \in 0..Len(log)
  BY <1>2 DEF TablesInv, ProgressInv, Projections
<1>4. ShowsAuth(u, b) /\ ShowsProfile(u, r) /\ (resets = 0 => ShowsImage(u, n))
  BY <1>1, <1>2 DEF ShowInv
<1>5. CASE RowsLeft(u) /\ resets' = resets /\ \A h \in Projections : delivered'[h] = delivered[h]
  <2>1. a = b /\ m = n /\ q = r
    BY <1>2, <1>5 DEF Projections
  <2> QED BY <1>3, <1>4, <1>5, <2>1, RowsStay DEF RowsLeft
<1>6. ASSUME NEW i \in DOMAIN log, AuthProject(i)
      PROVE  /\ ShowsAuth(u, a)' /\ ShowsProfile(u, q)'
             /\ resets' = 0 => ShowsImage(u, m)'
  <2>1. Delivers("auth_user_projection", i) /\ profile_stats' = profile_stats
    BY <1>6 DEF AuthProject
  <2>2. a = i /\ m = n /\ q = r /\ resets' = resets
    BY <1>2, <2>1, DeliversIs DEF Projections, IInv, TablesInv
  <2>3. ShowsAuth(u, i)'
    BY <1>2, <1>4, <1>6, AuthShown
  <2>4. ShowsProfile(u, r)'
    BY <1>3, <1>4, <2>1, RowsStay
  <2>5. resets = 0 => ShowsImage(u, n)'
    BY <1>3, <1>4, <1>6, AuthKeepsImage DEF SessionInv
  <2> QED BY <2>2, <2>3, <2>4, <2>5
<1>7. ASSUME NEW i \in DOMAIN log, ProfileProject(i)
      PROVE  /\ ShowsAuth(u, a)' /\ ShowsProfile(u, q)'
             /\ resets' = 0 => ShowsImage(u, m)'
  <2>1. Delivers("profile_read_model", i) /\ UNCHANGED <<auth_user, auth_account>>
    BY <1>7 DEF ProfileProject
  <2>2. a = b /\ m = n /\ q = i /\ resets' = resets
    BY <1>2, <2>1, DeliversIs DEF Projections, IInv, TablesInv
  <2>3. ShowsProfile(u, i)'
    BY <1>2, <1>4, <1>7, ProfileShown
  <2>4. ShowsAuth(u, b)' /\ (resets = 0 => ShowsImage(u, n)')
    BY <1>3, <1>4, <2>1, RowsStay
  <2> QED BY <2>2, <2>3, <2>4
<1>8. ASSUME NEW i \in DOMAIN log, ImageProject(i)
      PROVE  /\ ShowsAuth(u, a)' /\ ShowsProfile(u, q)'
             /\ resets' = 0 => ShowsImage(u, m)'
  <2>1. Delivers("profile_image", i) /\ profile_stats' = profile_stats
    BY <1>8 DEF ImageProject
  <2>2. a = b /\ m = i /\ q = r /\ resets' = resets
    BY <1>2, <2>1, DeliversIs DEF Projections, IInv, TablesInv
  <2>3. ShowsAuth(u, b)'
    BY <1>3, <1>4, <1>8, ImageKeepsAuth
  <2>4. ShowsProfile(u, r)'
    BY <1>3, <1>4, <2>1, RowsStay
  <2>5. resets = 0 => ShowsImage(u, i)'
    BY <1>2, <1>4, <1>8, ImageShown
  <2> QED BY <2>2, <2>3, <2>4, <2>5
<1>9. CASE ResetReadModels
  <2>1. /\ auth_user'[u] = Null /\ profile_stats'[u] = Null /\ resets' = resets + 1
        /\ a = 0 /\ q = 0
    BY <1>9, ResetIs DEF Projections
  <2>2. ~ FoundBy(0, {"UserRegistered"}, u)'
    <3>1. DOMAIN log' = 1..Len(log') /\ Len(log') \in Nat
      BY LogGrows
    <3> QED BY <3>1 DEF FoundBy
  <2>3. resets' # 0
    BY <2>1 DEF TablesInv, ProgressInv
  <2> QED BY <2>1, <2>2, <2>3 DEF ShowsAuth, ShowsProfile
<1> QED BY <1>1, <1>5, <1>6, <1>7, <1>8, <1>9, RowSteps

-------------------------------------------------------------------------------
(* What a column shows, said of the log as it was.                          *)

\* The log up to p.
LEMMA Prefix ==
    ASSUME LogInv, NEW p \in 0..Len(log), NEW s, s = SubSeq(log, 1, p)
    PROVE  /\ Len(s) = p /\ DOMAIN s = 1..p /\ \A i \in DOMAIN s : s[i] = log[i]
           /\ \A i : i \in DOMAIN s <=> i \in DOMAIN log /\ i <= p
<1>1. log \in Seq(Event) /\ Len(log) \in Nat /\ DOMAIN log = 1..Len(log)
  BY Positions DEF LogInv
<1>2. Len(s) = p /\ DOMAIN s = 1..p /\ \A i \in 1..p : s[i] = log[i]
  BY <1>1
<1> QED BY <1>1, <1>2

\* It finds what was found by then ...
LEMMA PastFinds ==
    ASSUME LogInv, NEW p \in 0..Len(log), NEW query
    PROVE  /\ Past(p)!Finds(query) <=> \E i \in DOMAIN log : i <= p /\ InQuery(log[i], query)
           /\ Past(p)!Finds(query) \in BOOLEAN
<1>1. PICK s : s = SubSeq(log, 1, p)
  OBVIOUS
<1>2. /\ \A i \in DOMAIN s : s[i] = log[i]
      /\ \A i : i \in DOMAIN s <=> i \in DOMAIN log /\ i <= p
  BY <1>1, Prefix
<1>3. Past(p)!Finds(query) <=> \E i \in DOMAIN s : InQuery(s[i], query)
  BY <1>1 DEF Past!Finds, Past!InQuery, Past!Matches, InQuery, Matches
<1>4. Past(p)!Finds(query) \in BOOLEAN
  BY DEF Past!Finds
<1> QED BY <1>2, <1>3, <1>4

\* ... the last of it last.
LEMMA PastNewest ==
    ASSUME LogInv, NEW p \in 0..Len(log), NEW query, NEW i,
           i = 0 \/ (i \in DOMAIN log /\ i <= p /\ InQuery(log[i], query)),
           \A j \in DOMAIN log : j <= p /\ InQuery(log[j], query) => j <= i
    PROVE  /\ Past(p)!Newest(query) = i
           /\ i # 0 => SubSeq(log, 1, p)[i] = log[i]
<1>1. PICK s : s = SubSeq(log, 1, p)
  OBVIOUS
<1>2. /\ Len(s) = p /\ DOMAIN s = 1..p /\ \A j \in DOMAIN s : s[j] = log[j]
      /\ \A j : j \in DOMAIN s <=> j \in DOMAIN log /\ j <= p
  BY <1>1, Prefix
<1>3. p \in Nat /\ i \in 0..p
  BY <1>2, Positions
<1>4. Past(p)!Newest(query) =
        CHOOSE k \in 0..Len(s) :
          /\ k = 0 \/ (k \in DOMAIN s /\ InQuery(s[k], query))
          /\ ~ \E j \in DOMAIN s : j > k /\ InQuery(s[j], query)
  BY <1>1 DEF Past!Newest, Past!IsContextPosition, Past!Conflicts, Past!After,
     Past!NoEventPosition, Past!InQuery, Past!Matches, InQuery, Matches
<1>5. /\ i = 0 \/ (i \in DOMAIN s /\ InQuery(s[i], query))
      /\ ~ \E j \in DOMAIN s : j > i /\ InQuery(s[j], query)
  BY <1>2, <1>3
<1>6. \A k \in 0..Len(s) :
        /\ k = 0 \/ (k \in DOMAIN s /\ InQuery(s[k], query))
        /\ ~ \E j \in DOMAIN s : j > k /\ InQuery(s[j], query)
        => k = i
  BY <1>2, <1>3, <1>5
<1> QED BY <1>1, <1>2, <1>3, <1>4, <1>5, <1>6

\* The queries ask for types of a user.
LEMMA AsksForUser ==
    ASSUME LogInv, NEW j \in DOMAIN log, NEW u
    PROVE  /\ \A type : type \notin SentTypes =>
                (InQuery(log[j], TypeOfUser(type, u)) <=> log[j].type = type /\ log[j].user = u)
           /\ InQuery(log[j], UserRegisteredQuery(u))
                <=> (log[j].type \in {"UserRegistered"} /\ log[j].user = u)
           /\ InQuery(log[j], UpdateNameQuery(u)) <=> (log[j].type \in NameTypes /\ log[j].user = u)
           /\ InQuery(log[j], PasswordQuery(u)) <=> (log[j].type \in AccountTypes /\ log[j].user = u)
<1>1. log[j] \in Event /\ Fielded(log[j])
  BY EventAt, EventFields
<1>2. \A type : type \notin SentTypes =>
        (InQuery(log[j], TypeOfUser(type, u)) <=> log[j].type = type /\ log[j].user = u)
  BY <1>1, AsksOfUser DEF Fielded
<1>3. InQuery(log[j], UserRegisteredQuery(u)) <=> (log[j].type = "UserRegistered" /\ log[j].user = u)
  BY <1>2 DEF UserRegisteredQuery, SentTypes
<1>4. \A a, b : InQuery(log[j], a \cup b) <=> InQuery(log[j], a) \/ InQuery(log[j], b)
  BY DEF InQuery
<1>5. InQuery(log[j], UpdateNameQuery(u))
        <=> (log[j].type \in {"UserRegistered", "UserNameChanged"} /\ log[j].user = u)
  BY <1>2, <1>3, <1>4 DEF UpdateNameQuery, SentTypes
<1>6. InQuery(log[j], PasswordQuery(u))
        <=> \/ log[j].type = "UserRegistered" /\ log[j].user = u
            \/ log[j].type = "PasswordResetCompleted" /\ log[j].user = u
            \/ log[j].type = "PasswordChanged" /\ log[j].user = u
  <2>1. \A type \in {"PasswordResetCompleted", "PasswordChanged"} :
          InQuery(log[j], TypeOfUser(type, u)) <=> log[j].type = type /\ log[j].user = u
    BY <1>2 DEF SentTypes
  <2>2. InQuery(log[j], PasswordQuery(u))
          <=> \/ InQuery(log[j], UserRegisteredQuery(u))
              \/ InQuery(log[j], TypeOfUser("PasswordResetCompleted", u))
              \/ InQuery(log[j], TypeOfUser("PasswordChanged", u))
    BY <1>4, Zenon DEF PasswordQuery
  <2> QED BY <1>3, <2>1, <2>2
<1> QED BY <1>2, <1>3, <1>5, <1>6 DEF NameTypes, AccountTypes, PasswordTypes

\* So what the columns show is what the queries of the commands find.
LEMMA PastShows ==
    ASSUME LogInv, NEW p \in 0..Len(log), NEW u
    PROVE  /\ Past(p)!Registered(u) <=> FoundBy(p, {"UserRegistered"}, u)
           /\ Past(p)!Registered(u) \in BOOLEAN
           /\ \A type : type \notin SentTypes =>
                /\ Past(p)!Finds(TypeOfUser(type, u)) <=> FoundBy(p, {type}, u)
                /\ \A i : LastBy(p, {type}, u, i) => Past(p)!Newest(TypeOfUser(type, u)) = i
           /\ \A i : LastBy(p, NameTypes, u, i) /\ i # 0 =>
                /\ Past(p)!Newest(UpdateNameQuery(u)) = i
                /\ Past(p)!CurrentName(u) = DisplayName(log[i])
           /\ \A i : LastBy(p, {"ProfileBioUpdated"}, u, i) =>
                Past(p)!CurrentBio(u) = IF i = 0 THEN NoBio ELSE log[i].bio
           /\ \A i : LastBy(p, AccountTypes, u, i) => Past(p)!Newest(PasswordQuery(u)) = i
<1>1. Past(p)!UserRegisteredQuery(u) = UserRegisteredQuery(u)
      /\ Past(p)!UpdateNameQuery(u) = UpdateNameQuery(u)
      /\ Past(p)!TypeOfUser("ProfileBioUpdated", u) = TypeOfUser("ProfileBioUpdated", u)
  BY DEF Past!UserRegisteredQuery, Past!UpdateNameQuery, Past!TypeOfUser, UserRegisteredQuery,
     UpdateNameQuery, TypeOfUser
<1>2. Past(p)!Registered(u) <=> FoundBy(p, {"UserRegistered"}, u)
  <2>1. Past(p)!Registered(u) <=> Past(p)!Finds(UserRegisteredQuery(u))
    BY <1>1 DEF Past!Registered
  <2> QED BY <2>1, PastFinds, AsksForUser DEF FoundBy
<1>3. Past(p)!Registered(u) \in BOOLEAN
  BY DEF Past!Registered, Past!Finds
<1>4. ASSUME NEW type, type \notin SentTypes
      PROVE  /\ Past(p)!Finds(TypeOfUser(type, u)) <=> FoundBy(p, {type}, u)
             /\ \A i : LastBy(p, {type}, u, i) => Past(p)!Newest(TypeOfUser(type, u)) = i
  <2>1. \A j \in DOMAIN log : InQuery(log[j], TypeOfUser(type, u))
                                <=> log[j].type \in {type} /\ log[j].user = u
    BY <1>4, AsksForUser
  <2>2. Past(p)!Finds(TypeOfUser(type, u)) <=> FoundBy(p, {type}, u)
    BY <2>1, PastFinds DEF FoundBy
  <2>3. ASSUME NEW i, LastBy(p, {type}, u, i)
        PROVE  Past(p)!Newest(TypeOfUser(type, u)) = i
    BY <2>1, <2>3, PastNewest DEF LastBy
  <2> QED BY <2>2, <2>3
<1>5. ASSUME NEW i, LastBy(p, NameTypes, u, i), i # 0
      PROVE  /\ Past(p)!Newest(UpdateNameQuery(u)) = i
             /\ Past(p)!CurrentName(u) = DisplayName(log[i])
  <2>1. Past(p)!Newest(UpdateNameQuery(u)) = i /\ SubSeq(log, 1, p)[i] = log[i]
    BY <1>5, PastNewest, AsksForUser DEF LastBy
  <2>2. Past(p)!DisplayName(log[i]) = DisplayName(log[i])
    BY DEF Past!DisplayName, DisplayName
  <2> QED BY <1>1, <2>1, <2>2 DEF Past!CurrentName
<1>6. ASSUME NEW i, LastBy(p, {"ProfileBioUpdated"}, u, i)
      PROVE  Past(p)!CurrentBio(u) = IF i = 0 THEN NoBio ELSE log[i].bio
  <2>1. \A j \in DOMAIN log : InQuery(log[j], TypeOfUser("ProfileBioUpdated", u))
                                <=> log[j].type \in {"ProfileBioUpdated"} /\ log[j].user = u
    BY AsksForUser DEF SentTypes
  <2>2. /\ Past(p)!Newest(TypeOfUser("ProfileBioUpdated", u)) = i
        /\ i # 0 => SubSeq(log, 1, p)[i] = log[i]
    BY <1>6, <2>1, PastNewest DEF LastBy
  <2> QED BY <1>1, <2>2 DEF Past!CurrentBio, Past!NoEventPosition
<1>7. ASSUME NEW i, LastBy(p, AccountTypes, u, i)
      PROVE  Past(p)!Newest(PasswordQuery(u)) = i
  BY <1>7, PastNewest, AsksForUser DEF LastBy
<1> QED BY <1>2, <1>3, <1>4, <1>5, <1>6, <1>7

LEMMA ShowsLog ==
    ASSUME IInv, TablesInv, ShowInv, Projections \subseteq Handler
    PROVE  TablesShowLog
<1>1. LogInv /\ RowsInv /\ DOMAIN log = 1..Len(log) /\ Len(log) \in Nat
  BY Positions DEF IInv, TablesInv
<1>2. SUFFICES ASSUME NEW u \in User, ~ Asked(u)
               PROVE  /\ AuthShowsLogAt(u, delivered["auth_user_projection"])
                      /\ ProfileShowsLogAt(u, delivered["profile_read_model"])
  BY DEF TablesShowLog, Deleting, Asked
<1>3. PICK p, m, q : /\ p = delivered["auth_user_projection"] /\ m = delivered["profile_image"]
                     /\ q = delivered["profile_read_model"]
  OBVIOUS
<1>4. p \in 0..Len(log) /\ m \in 0..Len(log) /\ q \in 0..Len(log)
  BY <1>3 DEF TablesInv, ProgressInv, Projections
<1>5. ShowsAuth(u, p) /\ (resets = 0 => ShowsImage(u, m)) /\ ShowsProfile(u, q)
  BY <1>2, <1>3 DEF ShowInv
<1>6. \A k \in 0..Len(log) : \A types : "UserRegistered" \in types
        /\ FoundBy(k, {"UserRegistered"}, u) => ~ LastBy(k, types, u, 0)
  BY <1>1 DEF FoundBy, LastBy
<1>7. \A k \in 0..Len(log) : \A i :
        /\ LastBy(k, {"ProfileImageUploaded"}, u, i) =>
             Past(k)!Newest(TypeOfUser("ProfileImageUploaded", u)) = i
        /\ LastBy(k, {"ProfileHeaderImageUploaded"}, u, i) =>
             Past(k)!Newest(TypeOfUser("ProfileHeaderImageUploaded", u)) = i
  BY <1>1, PastShows DEF SentTypes
<1>8. AuthShowsLogAt(u, p)
  <2>1. (auth_user[u] # Null) = Past(p)!Registered(u)
    BY <1>1, <1>4, <1>5, PastShows DEF ShowsAuth
  <2>2. ASSUME auth_user[u] # Null
        PROVE  /\ auth_user[u].name = Past(p)!CurrentName(u)
               /\ auth_user[u].verified =
                    Past(p)!Finds(TypeOfUser("EmailVerificationOTPValidated", u))
               /\ auth_account[u] = log[Past(p)!Newest(PasswordQuery(u))].password
    <3>1. PICK i : LastBy(p, NameTypes, u, i) /\ auth_user[u].name = DisplayName(log[i])
      BY <1>5, <2>2 DEF ShowsAuth
    <3>2. i # 0
      BY <1>4, <1>5, <1>6, <2>2, <3>1 DEF ShowsAuth, NameTypes
    <3>3. auth_user[u].name = Past(p)!CurrentName(u)
      BY <1>1, <1>4, <3>1, <3>2, PastShows
    <3>4. Past(p)!Finds(TypeOfUser("EmailVerificationOTPValidated", u)) \in BOOLEAN
      BY <1>1, <1>4, PastFinds
    <3>5. auth_user[u].verified \in BOOLEAN
      BY <1>1, <2>2 DEF RowsInv, UserTable, AuthUserRow
    <3>6. auth_user[u].verified <=> Past(p)!Finds(TypeOfUser("EmailVerificationOTPValidated", u))
      BY <1>1, <1>4, <1>5, <2>2, PastShows DEF ShowsAuth, SentTypes
    <3>7. PICK j : LastBy(p, AccountTypes, u, j) /\ auth_account[u] = log[j].password
      BY <1>5, <2>2 DEF ShowsAuth
    <3>8. auth_account[u] = log[Past(p)!Newest(PasswordQuery(u))].password
      BY <1>1, <1>4, <3>7, PastShows
    <3> QED BY <3>3, <3>4, <3>5, <3>6, <3>8
  <2>3. ASSUME auth_user[u] # Null, resets = 0
        PROVE  auth_user[u].image =
                 Past(delivered["profile_image"])!Newest(TypeOfUser("ProfileImageUploaded", u))
    <3>1. LastBy(m, {"ProfileImageUploaded"}, u, auth_user[u].image)
      BY <1>5, <2>3 DEF ShowsImage
    <3>2. Past(m)!Newest(TypeOfUser("ProfileImageUploaded", u)) = auth_user[u].image
      BY <1>7, <1>4, <3>1
    <3> QED BY <1>3, <3>2
  <2> QED BY <2>1, <2>2, <2>3 DEF AuthShowsLogAt
<1>9. ProfileShowsLogAt(u, q)
  <2>1. (profile_stats[u] # Null) = Past(q)!Registered(u)
    BY <1>1, <1>4, <1>5, PastShows DEF ShowsProfile
  <2>2. ASSUME profile_stats[u] # Null
        PROVE  /\ Coalesce(profile_stats[u].name, NoName)
                    = log[Past(q)!Newest(UpdateNameQuery(u))].name
               /\ Coalesce(profile_stats[u].bio, NoBio) = Past(q)!CurrentBio(u)
               /\ Coalesce(profile_stats[u].image, 0)
                    = Past(q)!Newest(TypeOfUser("ProfileImageUploaded", u))
               /\ Coalesce(profile_stats[u].header, 0)
                    = Past(q)!Newest(TypeOfUser("ProfileHeaderImageUploaded", u))
    <3>1. PICK i : LastBy(q, NameTypes, u, i) /\ profile_stats[u].name = log[i].name
      BY <1>5, <2>2 DEF ShowsProfile
    <3>2. i # 0
      BY <1>4, <1>5, <1>6, <2>2, <3>1 DEF ShowsProfile, NameTypes
    <3>3. Coalesce(profile_stats[u].name, NoName)
            = log[Past(q)!Newest(UpdateNameQuery(u))].name
      <4>1. Past(q)!Newest(UpdateNameQuery(u)) = i
        BY <1>1, <1>4, <3>1, <3>2, PastShows
      <4>2. i \in DOMAIN log /\ log[i].type \in NameTypes
        BY <1>1, <1>4, <3>1, <3>2 DEF LastBy
      <4>3. log[i].name \in Name \cup {NoName}
        BY <1>1, <4>2, EventAt, Columns DEF NameTypes
      <4> QED BY <3>1, <4>1, <4>3, NullAssumption DEF Coalesce
    <3>4. PICK j : /\ LastBy(q, {"ProfileBioUpdated"}, u, j)
                   /\ Coalesce(profile_stats[u].bio, NoBio)
                        = IF j = 0 THEN NoBio ELSE log[j].bio
      BY <1>5, <2>2 DEF ShowsProfile
    <3>5. Coalesce(profile_stats[u].bio, NoBio) = Past(q)!CurrentBio(u)
      BY <1>1, <1>4, <3>4, PastShows
    <3>6. /\ LastBy(q, {"ProfileImageUploaded"}, u, Coalesce(profile_stats[u].image, 0))
          /\ LastBy(q, {"ProfileHeaderImageUploaded"}, u, Coalesce(profile_stats[u].header, 0))
      BY <1>5, <2>2 DEF ShowsProfile
    <3> QED BY <1>7, <1>4, <3>3, <3>5, <3>6
  <2> QED BY <2>1, <2>2 DEF ProfileShowsLogAt, ProfileUser, NoEventPosition
<1> QED BY <1>3, <1>8, <1>9

\* Until its deletion is asked for, every column of an account is what the log says of it
\* at the place its handler has reached, however the handlers overtake each other, run a
\* callback again or start anew after a reset.  Each of the three writes the columns of
\* its own types, a registration is unique and comes before everything else, and an image
\* is uploaded only after auth_user_projection has created the row.
THEOREM TablesShowTheLog ==
    ASSUME Projections \subseteq Handler
    PROVE  SystemSpec => []TablesShowLog
<1>1. IInv /\ TablesInv /\ ShowInv => TablesShowLog
  BY ShowsLog
<1>2. SystemSpec => []SessionInv
  BY SessionsHold DEF Projections
<1>3. IInv /\ TablesInv /\ SessionInv /\ ShowInv /\ [SystemNext]_systemVars => ShowInv'
  BY ShowStep
<1> QED BY <1>1, <1>2, <1>3, ShowInit, CommandsHold, TablesHold, PTL DEF SystemSpec

===============================================================================
