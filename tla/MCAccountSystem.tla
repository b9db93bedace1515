---------------------------- MODULE MCAccountSystem ----------------------------
(* AccountSystem on a small instance: each behaviour mixes the commands of one row. *)
EXTENDS AccountSystem

Verification ==
    {"UserRegistered", "EmailVerificationOTPGenerated", "EmailVerificationOTPValidated"}
Deletion == Verification \cup {"AccountDeletionRequested", "AccountDeleted"}

MCMixes == {
    Deletion \cup {"reset"},
    Verification \cup {"UserNameChanged", "ProfileImageUploaded", "reset"},
    Verification \cup {"ProfileBioUpdated", "ProfileHeaderImageUploaded", "PasswordChanged"},
    Verification \cup {"expiry"},
    {"UserRegistered", "PasswordResetRequested"}}

TokenMixes == {{"UserRegistered", "PasswordResetRequested"}}

LeftoverMixes == {Deletion \cup {"ProfileImageUploaded"}}

ReplayMixes == {Deletion \cup {"reset"}}

CONSTANTS n1, p1

\* With a name or without one.
OneAccount == [username : Username, email : Email, name : {n1, NoName}, password : {p1}]

AllHandlers ==
    {"auth_user_projection", "profile_read_model", "profile_image", "account_deletion"}

===============================================================================
