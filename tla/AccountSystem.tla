----------------------------- MODULE AccountSystem -----------------------------
(***************************************************************************)
(* Accounts end to end: the commands of Accounts write the log, the event   *)
(* handlers auth_user_projection, profile_read_model and profile_image fill *)
(* the SQLite tables from it, account_deletion empties them and destroys    *)
(* the key, and requests see only what the tables show: who may sign in, is *)
(* signed in, is verified.                                                  *)
(*                                                                         *)
(* Each handler has a checkpoint of its own and they run independently, so  *)
(* any of them may lag behind any other.  What a handler promises is taken  *)
(* from Delivery, which EventHandler implements: a callback that writes one *)
(* table is one step, the deletion, which takes several, is a command in    *)
(* flight.  The process may die at any moment (Abort) and goes on from the  *)
(* checkpoints; the read models may be reset while it is down.              *)
(***************************************************************************)
EXTENDS Accounts

CONSTANTS
    DeletionWorker,  \* the command slot of account_deletion
    Handler,         \* the handlers that run
    Null,            \* no row, and an empty column
    MaxResets        \* bound: resets of the read models

ASSUME DeletionWorkerAssumption == DeletionWorker \in Request
ASSUME HandlerAssumption == Handler \subseteq
    {"auth_user_projection", "profile_read_model", "profile_image", "account_deletion"}
ASSUME MaxResetsAssumption == MaxResets \in Nat

VARIABLES
    delivered,          \* per handler: the last event whose callback committed
    checkpoint,         \* per handler: its row of projector_checkpoint
    unlocked,           \* per handler: the event its callback has read the subject key for
    auth_user, auth_account, auth_session, auth_verification, profile_stats,
    admitted,           \* what a request still running has read (bound: one at a time): the
                        \* password is right, the session is that of a verified user
    resets              \* resets so far

tables == <<auth_user, auth_account, auth_session, auth_verification, profile_stats>>
progress == <<delivered, checkpoint, unlocked>>
systemVars == <<vars, progress, tables, admitted, resets>>

Web == Request \ {DeletionWorker}

QueryOf(h) ==
    CASE h = "auth_user_projection" ->
           [type : {"UserRegistered", "UserNameChanged", "EmailVerificationOTPGenerated",
                    "EmailVerificationOTPValidated", "PasswordResetRequested",
                    "PasswordResetCompleted", "PasswordChanged"}]
      [] h = "profile_read_model" ->
           [type : {"UserRegistered", "UserNameChanged", "ProfileBioUpdated",
                    "ProfileImageUploaded", "ProfileHeaderImageUploaded"}]
      [] h = "profile_image" -> [type : {"ProfileImageUploaded"}]
      [] h = "account_deletion" -> [type : {"AccountDeletionRequested"}]

Promise(h) == INSTANCE Delivery WITH
    HandlerQuery <- QueryOf(h), delivered <- delivered[h], checkpoint <- checkpoint[h]

-------------------------------------------------------------------------------
(* The statements, each on the table it names.                              *)

SetColumn(table, u, column, value) ==
    IF table[u] = Null THEN table ELSE [table EXCEPT ![u] = [@ EXCEPT ![column] = value]]

\* INSERT OR IGNORE.
CreateAuthUser(u, name) ==
    IF auth_user[u] # Null THEN auth_user
    ELSE [auth_user EXCEPT ![u] =
            [name |-> name, verified |-> FALSE, image |-> NoEventPosition]]

CreateAuthAccount(u, password) ==
    IF auth_account[u] # Null THEN auth_account ELSE [auth_account EXCEPT ![u] = password]

UpdateAuthUserNameByRegisteredId(u, name) == SetColumn(auth_user, u, "name", name)
MarkAuthUserEmailVerified(u) == SetColumn(auth_user, u, "verified", TRUE)
UpdateAuthUserImage(u, image) == SetColumn(auth_user, u, "image", image)

UpdateAuthAccountPassword(u, password) ==
    IF auth_account[u] = Null THEN auth_account ELSE [auth_account EXCEPT ![u] = password]

CreateAuthVerification(purpose, u, i) ==
    auth_verification \cup {[purpose |-> purpose, user |-> u, id |-> i]}

\* Faulty variant: INSERT OR REPLACE.
ReplaceProfile(u, column, value) ==
    LET row == [name |-> Null, bio |-> Null, image |-> Null, header |-> Null]
    IN  [profile_stats EXCEPT ![u] = [row EXCEPT ![column] = value]]

\* INSERT ... ON CONFLICT (user_id) DO UPDATE SET of one column: the row comes into
\* being with whichever event is projected first.
UpsertProfile(u, column, value) ==
    LET row == IF profile_stats[u] # Null THEN profile_stats[u]
               ELSE [name |-> Null, bio |-> Null, image |-> Null, header |-> Null]
    IN  [profile_stats EXCEPT ![u] = [row EXCEPT ![column] = value]]

\* The names of the registration as they are, blank or not.
UpsertRegisteredProfileUser(event) == UpsertProfile(event.user, "name", event.name)
UpsertProfileName(event) == UpsertProfile(event.user, "name", event.name)
UpsertProfileBio(event) == UpsertProfile(event.user, "bio", event.bio)
UpsertProfileImage(event) == UpsertProfile(event.user, "image", event.id)
UpsertProfileHeaderImage(event) == UpsertProfile(event.user, "header", event.id)

CreateAuthSession(u) == auth_session \cup {u}
DeleteAuthSessionByToken(u) == auth_session \ {u}

DeleteAuthVerifications(u) == {row \in auth_verification : row.user # u}
DeleteAuthSessions(u) == auth_session \ {u}
DeleteAuthAccounts(u) == [auth_account EXCEPT ![u] = Null]
DeleteProfile(u) == [profile_stats EXCEPT ![u] = Null]
DeleteAuthUser(u) == [auth_user EXCEPT ![u] = Null]

\* The reset deletes every row.
NoRows == [u \in User |-> Null]
ResetReadModelAuthUsers == NoRows
ResetReadModelAuthAccounts == NoRows
ResetReadModelAuthSessions == {}
ResetReadModelAuthVerifications == {}
ResetReadModelProfiles == NoRows

\* SELECT.
UserByRegisteredId(users, u) == users[u] # Null
UserByEmailWithPassword(u) == auth_user[u] # Null /\ auth_account[u] # Null
UserByIdOrRegisteredId(u) == auth_user[u] # Null
UserBySessionToken(u) == u \in auth_session /\ auth_user[u] # Null
PasswordResetVerificationByToken(i) ==
    \E row \in auth_verification : row.purpose = "password-reset" /\ row.id = i

Coalesce(value, default) == IF value = Null THEN default ELSE value

ProfileUser(u) ==
    [name |-> Coalesce(profile_stats[u].name, NoName),
     bio |-> Coalesce(profile_stats[u].bio, NoBio),
     image |-> Coalesce(profile_stats[u].image, NoEventPosition),
     header |-> Coalesce(profile_stats[u].header, NoEventPosition)]

-------------------------------------------------------------------------------
(* Requests.  The tables decide what a request may ask for.                  *)

SystemInit ==
    /\ Init
    /\ delivered = [h \in Handler |-> NoEventPosition]
    /\ checkpoint = [h \in Handler |-> NoEventPosition]
    /\ unlocked = [h \in Handler |-> NoEventPosition]
    /\ auth_user = NoRows
    /\ auth_account = NoRows
    /\ profile_stats = NoRows
    /\ auth_session = {}
    /\ auth_verification = {}
    /\ admitted = {}
    /\ resets = 0

\* SessionManager.Login up to the comparison of the password.
CheckPassword(u) ==
    /\ admitted = {}
    /\ UserByEmailWithPassword(u)
    /\ admitted' = {<<"password", u>>}
    /\ UNCHANGED <<vars, progress, tables, resets>>

\* Faulty variant: no foreign key.
CreateSessionOfNobody(u) ==
    /\ <<"password", u>> \in admitted
    /\ admitted' = {}
    /\ auth_session' = CreateAuthSession(u)
    /\ UNCHANGED <<vars, progress, auth_user, auth_account, auth_verification,
                   profile_stats, resets>>

\* ... and its insert, which the foreign key lets through only for a row of auth_user.
CreateSession(u) ==
    /\ <<"password", u>> \in admitted
    /\ admitted' = {}
    /\ auth_session' = IF auth_user[u] = Null THEN auth_session ELSE CreateAuthSession(u)
    /\ UNCHANGED <<vars, progress, auth_user, auth_account, auth_verification,
                   profile_stats, resets>>

Logout(u) ==
    /\ UserBySessionToken(u)
    /\ auth_session' = DeleteAuthSessionByToken(u)
    /\ UNCHANGED <<vars, progress, auth_user, auth_account, auth_verification,
                   profile_stats, admitted, resets>>

\* Faulty variant: any session will do.
RequireSession(u) ==
    /\ admitted = {}
    /\ UserBySessionToken(u)
    /\ admitted' = {<<"session", u>>}
    /\ UNCHANGED <<vars, progress, tables, resets>>

\* requireVerifiedEmail; the handler behind it runs later, or never (GoAway).
RequireVerifiedEmail(u) ==
    /\ admitted = {}
    /\ UserBySessionToken(u)
    /\ auth_user[u].verified
    /\ admitted' = {<<"session", u>>}
    /\ UNCHANGED <<vars, progress, tables, resets>>

GoAway ==
    /\ admitted # {}
    /\ admitted' = {}
    /\ UNCHANGED <<vars, progress, tables, resets>>

\* The pages behind requireVerifiedEmail; two of them ask for the password again.
SignedIn(r, u) ==
    /\ <<"session", u>> \in admitted
    /\ \/ \E name \in Name : UpdateName(r, u, name)
       \/ \E bio \in Bio : StartUpdateBio(r, u, bio)
       \/ \E type \in {"ProfileImageUploaded", "ProfileHeaderImageUploaded"} :
            UploadImage(r, u, type)
       \/ /\ UserByEmailWithPassword(u)
          /\ \/ \E password \in Password : ChangePassword(r, u, password)
             \/ RequestDeletion(r, u)
    /\ admitted' = {}

\* Anyone, and the event handlers that run a command: those redeliver, so they may run
\* theirs for any event at any time.
SignedOut(r) ==
    /\ \/ \E event \in Registration : Register(r, event)
       \/ \E u \in User :
            \/ GenerateCode(r, u)
            \/ UserByIdOrRegisteredId(u) /\ StartValidate(r, u)
            \/ UserByEmailWithPassword(u) /\ RequestReset(r, u)
       \/ \E i \in 1..MaxEvents :
            \/ SendCode(r, i) \/ SendReset(r, i)
            \/ /\ PasswordResetVerificationByToken(i)
               /\ \E password \in Password : ResetPassword(r, i, password)
    /\ UNCHANGED admitted

\* Bound: with a reset only some mixes are tried.
MayMeetReset == \E mix \in Mixes : Met \cup {"reset"} \subseteq mix

\* Bound: the last place in the log is for AccountDeleted.
WebCommand(r) ==
    /\ \/ SignedOut(r)
       \/ \E u \in User : SignedIn(r, u)
       \/ /\ Continue(r) \/ (Len(log) + 1 < MaxEvents /\ SaveCommit(r))
          /\ UNCHANGED admitted
    /\ resets > 0 => MayMeetReset'
    /\ UNCHANGED <<progress, tables, resets>>

CodeExpires ==
    /\ \E i \in 1..MaxEvents : Expire(i)
    /\ resets > 0 => MayMeetReset'
    /\ UNCHANGED <<progress, tables, admitted, resets>>

-------------------------------------------------------------------------------
(* Event handlers.  Each callback is the effect of one event on the tables.  *)

\* Fields of type protectedpii.Value: an object in the stored event, which stringValue
\* reads as the empty string.
ProtectedFields == {"username", "email", "firstName", "lastName", "name", "bio", "resetToken"}

StringValue(field) == IF field \in ProtectedFields THEN "" ELSE field

HandleUserRegistered(event) ==
    /\ event.type = "UserRegistered"
    /\ auth_user' = CreateAuthUser(event.user, DisplayName(event))
    /\ UserByRegisteredId(auth_user', event.user)
    /\ auth_account' = CreateAuthAccount(event.user, event.password)
    /\ UNCHANGED auth_verification

HandleUserNameChanged(event) ==
    /\ event.type = "UserNameChanged"
    /\ auth_user' = UpdateAuthUserNameByRegisteredId(event.user, event.name)
    /\ UNCHANGED <<auth_account, auth_verification>>

HandleEmailVerificationOTPGenerated(event) ==
    /\ event.type = "EmailVerificationOTPGenerated"
    /\ auth_verification' = CreateAuthVerification("email", event.user, event.id)
    /\ UNCHANGED <<auth_user, auth_account>>

HandleEmailVerificationOTPValidated(event) ==
    /\ event.type = "EmailVerificationOTPValidated"
    /\ auth_user' = MarkAuthUserEmailVerified(event.user)
    /\ UNCHANGED <<auth_account, auth_verification>>

HandlePasswordResetRequested(event) ==
    /\ event.type = "PasswordResetRequested"
    /\ auth_verification' =
         IF StringValue("resetToken") = "" THEN auth_verification
         ELSE CreateAuthVerification("password-reset", event.user, event.id)
    /\ UNCHANGED <<auth_user, auth_account>>

HandlePasswordUpdated(event) ==
    /\ event.type \in {"PasswordResetCompleted", "PasswordChanged"}
    /\ auth_account' = UpdateAuthAccountPassword(event.user, event.password)
    /\ UNCHANGED <<auth_user, auth_verification>>

\* What the callback of h decrypts; the images are stored in the clear.
Protected(h) ==
    CASE h = "auth_user_projection" -> {"UserRegistered", "UserNameChanged"}
      [] h = "profile_read_model" -> {"UserRegistered", "UserNameChanged", "ProfileBioUpdated"}
      [] OTHER -> {}

\* The callback reads the subject key first; without one it fails, and is run again.
ReadSubjectKey(h, i) ==
    /\ Promise(h)!MayDeliver(i)
    /\ log[i].type \in Protected(h)
    /\ SubjectPiiKey(log[i].user)
    /\ unlocked[h] # i
    /\ unlocked' = [unlocked EXCEPT ![h] = i]
    /\ UNCHANGED <<vars, delivered, checkpoint, tables, admitted, resets>>

\* Then one transaction on the tables, and the checkpoint in another one.
Delivers(h, i) ==
    /\ h \in Handler
    /\ Promise(h)!MayDeliver(i)
    /\ log[i].type \in Protected(h) => unlocked[h] = i
    /\ delivered' = [delivered EXCEPT ![h] = i]
    /\ unlocked' = [unlocked EXCEPT ![h] = NoEventPosition]
    /\ UNCHANGED <<checkpoint, auth_session, admitted, resets>>

AuthProject(i) ==
    /\ Delivers("auth_user_projection", i)
    /\ \/ HandleUserRegistered(log[i]) \/ HandleUserNameChanged(log[i])
       \/ HandleEmailVerificationOTPGenerated(log[i])
       \/ HandleEmailVerificationOTPValidated(log[i])
       \/ HandlePasswordResetRequested(log[i]) \/ HandlePasswordUpdated(log[i])
    /\ UNCHANGED <<vars, profile_stats>>

ProfileProject(i) ==
    /\ Delivers("profile_read_model", i)
    /\ profile_stats' =
         CASE log[i].type = "UserRegistered" -> UpsertRegisteredProfileUser(log[i])
           [] log[i].type = "UserNameChanged" -> UpsertProfileName(log[i])
           [] log[i].type = "ProfileBioUpdated" -> UpsertProfileBio(log[i])
           [] log[i].type = "ProfileImageUploaded" -> UpsertProfileImage(log[i])
           [] log[i].type = "ProfileHeaderImageUploaded" -> UpsertProfileHeaderImage(log[i])
    /\ UNCHANGED <<vars, auth_user, auth_account, auth_verification>>

ImageProject(i) ==
    /\ Delivers("profile_image", i)
    /\ auth_user' = UpdateAuthUserImage(log[i].user, i)
    /\ UNCHANGED <<vars, auth_account, auth_verification, profile_stats>>

AdvanceCheckpoint(h) ==
    /\ delivered[h] # checkpoint[h]
    /\ checkpoint' = [checkpoint EXCEPT ![h] = delivered[h]]
    /\ UNCHANGED <<vars, delivered, unlocked, tables, admitted, resets>>

-------------------------------------------------------------------------------
(* The deletion, for an event that account_deletion may handle.             *)

StartDeletion(i) ==
    /\ "account_deletion" \in Handler
    /\ Promise("account_deletion")!MayDeliver(i)
    /\ CompleteDeletion(DeletionWorker, i)
    /\ UNCHANGED <<progress, tables, admitted, resets>>

\* Deleted already: the callback has nothing to do.
SkipDeletion(i) ==
    /\ Delivers("account_deletion", i)
    /\ request[DeletionWorker] = Idle
    /\ Finds(TypeAbout("AccountDeleted", i))
    /\ UNCHANGED <<vars, auth_user, auth_account, auth_verification, profile_stats>>

\* One transaction.  The sessions go with their user.
DeleteAccountData ==
    /\ DeleteData(DeletionWorker)
    /\ LET u == request[DeletionWorker].event.user
       IN  /\ auth_verification' = DeleteAuthVerifications(u)
           /\ auth_session' = DeleteAuthSessions(u)
           /\ auth_account' = DeleteAuthAccounts(u)
           /\ profile_stats' = DeleteProfile(u)
           /\ auth_user' = DeleteAuthUser(u)
    /\ UNCHANGED <<progress, admitted, resets>>

\* Faulty variant: there has to be a key to destroy.
DestroyExistingKey ==
    /\ DestroyKey(DeletionWorker)
    /\ request[DeletionWorker].event.user \in keys
    /\ UNCHANGED <<progress, tables, admitted, resets>>

\* Idempotent: a deletion that failed after this step finds no key and goes on.
DestroySubjectKey ==
    /\ DestroyKey(DeletionWorker)
    /\ UNCHANGED <<progress, tables, admitted, resets>>

SaveAccountDeleted ==
    /\ SaveCommit(DeletionWorker)
    /\ delivered' = [delivered EXCEPT !["account_deletion"] =
                       request[DeletionWorker].event.about]
    /\ UNCHANGED <<checkpoint, unlocked, tables, admitted, resets>>

\* A failure or a crash: the callback is run again for the same event.
DeletionFails ==
    /\ Abort(DeletionWorker)
    /\ UNCHANGED <<progress, tables, admitted, resets>>

\* The process ends, whatever was running, and starts with --reset-read-models; the keys
\* are no read model.
ResetReadModels ==
    /\ resets < MaxResets
    /\ MayMeetReset
    /\ resets' = resets + 1
    /\ admitted' = {}
    /\ request' = [r \in Request |-> Idle]
    /\ auth_user' = ResetReadModelAuthUsers
    /\ auth_account' = ResetReadModelAuthAccounts
    /\ auth_session' = ResetReadModelAuthSessions
    /\ auth_verification' = ResetReadModelAuthVerifications
    /\ profile_stats' = ResetReadModelProfiles
    /\ delivered' = [h \in Handler |-> NoEventPosition]
    /\ checkpoint' = [h \in Handler |-> NoEventPosition]
    /\ unlocked' = [h \in Handler |-> NoEventPosition]
    /\ UNCHANGED <<log, keys, expired>>

SystemNext ==
    \/ \E u \in User :
         CheckPassword(u) \/ CreateSession(u) \/ Logout(u) \/ RequireVerifiedEmail(u)
    \/ GoAway
    \/ \E r \in Web : WebCommand(r)
    \/ CodeExpires
    \/ \E i \in DOMAIN log :
         \/ AuthProject(i) \/ ProfileProject(i) \/ ImageProject(i)
         \/ StartDeletion(i) \/ SkipDeletion(i)
    \/ \E h \in Handler : AdvanceCheckpoint(h) \/ \E i \in DOMAIN log : ReadSubjectKey(h, i)
    \/ DeleteAccountData \/ DestroySubjectKey \/ SaveAccountDeleted \/ DeletionFails
    \/ ResetReadModels

SystemSpec == SystemInit /\ [][SystemNext]_systemVars

\* account_deletion retries for ever (MaxEventRetries = -1), and its failures end: each
\* of its calls gets through at last if it is made again and again.
DeletionFairness ==
    /\ SF_systemVars(\E i \in 1..MaxEvents : StartDeletion(i))
    /\ SF_systemVars(DeleteAccountData)
    /\ SF_systemVars(DestroySubjectKey)
    /\ SF_systemVars(SaveAccountDeleted)

\* So does auth_user_projection, for the event after the one it handled last.
AuthFairness ==
    LET Ahead(i) == After(i, delivered["auth_user_projection"])
    IN  /\ SF_systemVars(\E i \in 1..MaxEvents : Ahead(i) /\ AuthProject(i))
        /\ SF_systemVars(\E i \in 1..MaxEvents :
              Ahead(i) /\ ReadSubjectKey("auth_user_projection", i))
        /\ WF_systemVars(AdvanceCheckpoint("auth_user_projection"))

FairSystemSpec == SystemSpec /\ DeletionFairness

FairProjectionSpec == SystemSpec /\ AuthFairness

-------------------------------------------------------------------------------
AuthUserRow == [name : Name, verified : BOOLEAN, image : Id]
ProfileRow == [name : Name \cup {NoName, Null}, bio : Bio \cup {Null},
               image : Id \cup {Null}, header : Id \cup {Null}]

ASSUME NullAssumption ==
    Null \notin AuthUserRow \cup ProfileRow \cup Password \cup Name \cup Bio \cup Id

\* Rows have their columns and refer to rows and events that exist, and the checkpoint
\* never overtakes its handler.
AccountSystemTypeOK ==
    /\ TypeOK
    /\ auth_user \in [User -> AuthUserRow \cup {Null}]
    /\ auth_account \in [User -> Password \cup {Null}]
    /\ profile_stats \in [User -> ProfileRow \cup {Null}]
    /\ \A u \in User :
         /\ (auth_user[u] = Null) = (auth_account[u] = Null)
         /\ u \in auth_session => auth_user[u] # Null
    /\ \A row \in auth_verification : row.id \in DOMAIN log /\ log[row.id].user = row.user
    /\ admitted \subseteq {"password", "session"} \X User
    /\ \A h \in Handler :
         /\ delivered[h] \in 0..Len(log)
         /\ checkpoint[h] <= delivered[h]
         /\ unlocked[h] \in 0..Len(log)
    /\ resets \in 0..MaxResets

\* The log as it was at position p.
Past(p) == INSTANCE Accounts WITH log <- SubSeq(log, 1, p)

PasswordQuery(u) ==
    UserRegisteredQuery(u)
    \cup TypeOfUser("PasswordResetCompleted", u)
    \cup TypeOfUser("PasswordChanged", u)

AuthShowsLogAt(u, p) ==
    /\ (auth_user[u] # Null) = Past(p)!Registered(u)
    /\ auth_user[u] # Null =>
         /\ auth_user[u].name = Past(p)!CurrentName(u)
         /\ auth_user[u].verified =
              Past(p)!Finds(TypeOfUser("EmailVerificationOTPValidated", u))
         /\ auth_account[u] = log[Past(p)!Newest(PasswordQuery(u))].password
         /\ resets = 0 => auth_user[u].image =
              Past(delivered["profile_image"])!Newest(TypeOfUser("ProfileImageUploaded", u))

ProfileShowsLogAt(u, p) ==
    /\ (profile_stats[u] # Null) = Past(p)!Registered(u)
    /\ profile_stats[u] # Null =>
         ProfileUser(u) =
           [name |-> log[Past(p)!Newest(UpdateNameQuery(u))].name,
            bio |-> Past(p)!CurrentBio(u),
            image |-> Past(p)!Newest(TypeOfUser("ProfileImageUploaded", u)),
            header |-> Past(p)!Newest(TypeOfUser("ProfileHeaderImageUploaded", u))]

Deleting(u) == Finds(TypeOfUser("AccountDeletionRequested", u))
Deleted(u) == Finds(TypeOfUser("AccountDeleted", u))

\* Until its deletion is asked for, an account is shown as the log had it where each
\* handler stands, with redelivered events, crashes between table and checkpoint,
\* handlers that overtake each other and a replay from the start.  The two tables need not
\* agree on the name: after a registration with blank names auth_user has the username, as
\* CurrentName does, and profile_stats the blank name until the first UserNameChanged.
\* The image in auth_user is exempt after a reset: profile_image may be replayed before
\* the row is back.
TablesShowLog ==
    \A u \in User : ~ Deleting(u) =>
        /\ AuthShowsLogAt(u, delivered["auth_user_projection"])
        /\ ProfileShowsLogAt(u, delivered["profile_read_model"])

\* A deleted account cannot sign in and is signed out: a login that had checked the
\* password creates no session, and the late or repeated callbacks of
\* auth_user_projection bring no row back.  Without a reset: a replay that reaches the
\* registration between DeleteAccountData and DestroySubjectKey restores the row.
SignInEndsWithDeletion ==
    resets = 0 =>
        \A u \in User : Deleted(u) => auth_user[u] = Null /\ u \notin auth_session

\* A requested deletion completes, however often it fails half way, whether or not the
\* key is already gone and whatever its user does meanwhile.
DeletionCompletes == \A u \in User : Deleting(u) ~> Deleted(u)

\* send_password_reset_email_command_handler.go:80 "Click the link below to reset your
\* password": the link of a reset that auth_user_projection has handled finds its token.
RequestedResetsUsable ==
    \A i \in DOMAIN log :
        /\ log[i].type = "PasswordResetRequested"
        /\ i <= delivered["auth_user_projection"]
        /\ ~ Deleting(log[i].user)
        => PasswordResetVerificationByToken(i)

\* docs/protected-pii-events.md:19: account_deletion "deletes SQLite read-model/auth
\* data" and AccountDeleted records its completion.
NothingLeftAfterDeletion ==
    \A u \in User : Deleted(u) =>
        /\ auth_user[u] = Null
        /\ auth_account[u] = Null
        /\ profile_stats[u] = Null
        /\ \A row \in auth_verification : row.user # u

\* README.md:25 "replayable event-handler slices": after --reset-read-models
\* auth_user_projection gets to every event it asks for.
ReplayCatchesUp ==
    \A i \in 1..MaxEvents :
        /\ resets > 0
        /\ i \in DOMAIN log
        /\ InQuery(log[i], QueryOf("auth_user_projection"))
        ~> delivered["auth_user_projection"] >= i

===============================================================================
