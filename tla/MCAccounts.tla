----------------------------- MODULE MCAccounts -----------------------------
(* Accounts on a small instance: each behaviour mixes the commands of one row. *)
EXTENDS Accounts, TLC

MCMixes == {
    {"UserRegistered", "EmailVerificationOTPGenerated", "EmailVerificationOTPValidated",
     "expiry"},
    {"UserRegistered", "EmailVerificationOTPGenerated", "EmailVerificationOTPSent",
     "AccountDeletionRequested", "AccountDeleted"},
    {"UserRegistered", "PasswordResetRequested", "PasswordResetEmailSent",
     "PasswordResetCompleted", "PasswordChanged"},
    {"UserRegistered", "UserNameChanged", "AccountDeletionRequested", "AccountDeleted"},
    {"UserRegistered", "ProfileBioUpdated", "ProfileImageUploaded",
     "ProfileHeaderImageUploaded"}}

CONSTANTS
    n1,  \* a name that is no username
    x    \* an email

\* One of the two who register gives a name and the other does not.
AllAccounts == {account \in [username : Username, email : Email, name : {n1, NoName},
                             password : Password] :
    (account.name = n1) = (account.email = x)}

\* The usernames are among the names, so both are permuted together.
Symmetry == Permutations(User) \cup Permutations(Username) \cup Permutations(Request)

===============================================================================
