----------------------------- MODULE Credentials ----------------------------
(***************************************************************************)
(* The account behind one e-mail address, its password and the one-time    *)
(* codes that reset it.  It models                                         *)
(*   Auth/auth.service.ts    createAccount, socialLogin, forgotPassword,   *)
(*                           verifyOTP, resetPassword, changePassword      *)
(*   User/user.services.ts   updateUserStatus, deleteAccount               *)
(* Codes belong to the address, not to the account: they outlive it.       *)
(* Logging in and refreshing tokens change nothing and are left out, as    *)
(* are hashing, e-mails and tokens.  A code is known by its place in otps. *)
(***************************************************************************)
EXTENDS Handlers, Sequences

CONSTANTS Passwords,  \* passwords the owner may choose
          MaxAttempts \* maxAttempts of verifyOTP

ASSUME CredentialsAssumption == MaxAttempts \in Nat \ {0} /\ None \notin Passwords

VARIABLES
    account,  \* the users row of the address, or NoAccount
    otps,     \* otps rows of the address, in the order of their creation
    accounts  \* accounts created so far: the id of the next one

credentialsData == <<account, otps, accounts>>
credentialsVars == <<credentialsData, handlers>>

-----------------------------------------------------------------------------
(* Data *)

AccountRows == [id: Nat, status: {"ACTIVE", "SUSPENDED"}, password: Passwords \cup {None}]
NoAccount   == [id |-> 0, status |-> "NONE", password |-> None]

\* wrong and resets count what the code was used for (history).
OtpRows == [attempts: Nat, verified: BOOLEAN, used: BOOLEAN, expired: BOOLEAN,
            stale: BOOLEAN, wrong: Nat, resets: Nat]
NewOtp  == [attempts |-> 0, verified |-> FALSE, used |-> FALSE, expired |-> FALSE,
            stale |-> FALSE, wrong |-> 0, resets |-> 0]

\* findFirst with orderBy created_at desc among some codes: one code or none.
Newest(codes) == {i \in codes : \A k \in codes : k <= i}

CredentialsInit ==
    /\ account = NoAccount
    /\ otps = << >>
    /\ accounts = 0

-----------------------------------------------------------------------------
(* Accounts *)

\* createAccount hashes, and socialLogin creates at once, after having found no
\* account; the unique e-mail address fails the second create.
SignupRead(s, password) ==
    /\ account = NoAccount
    /\ Begin(s, [op |-> "signup", pc |-> "signup_create", password |-> password])
    /\ UNCHANGED credentialsData

CreateAccount(s) ==
    /\ At(s, "signup_create")
    /\ IF account = NoAccount
       THEN /\ accounts' = accounts + 1
            /\ account' = [id |-> accounts + 1, status |-> "ACTIVE",
                           password |-> req[s].password]
       ELSE UNCHANGED <<account, accounts>>
    /\ Finish(s)
    /\ UNCHANGED otps

ToggleRead(s) ==
    /\ account # NoAccount
    /\ Begin(s, [op |-> "toggle", pc |-> "toggle_write", id |-> account.id,
                 to |-> IF account.status = "SUSPENDED" THEN "ACTIVE" ELSE "SUSPENDED"])
    /\ UNCHANGED credentialsData

\* Writes by id throw when the account is gone.
UpdateUserStatus_Raw(s) ==
    /\ At(s, "toggle_write")
    /\ account' = IF account.id = req[s].id THEN [account EXCEPT !.status = "Suspended"]
                  ELSE account
    /\ Finish(s)
    /\ UNCHANGED <<otps, accounts>>
UpdateUserStatus(s) ==
    /\ At(s, "toggle_write")
    /\ account' = IF account.id = req[s].id THEN [account EXCEPT !.status = req[s].to]
                  ELSE account
    /\ Finish(s)
    /\ UNCHANGED <<otps, accounts>>

\* The look-up and the delete are one step: nothing is read but the id.
DeleteAccount ==
    /\ account # NoAccount
    /\ account' = NoAccount
    /\ AtOnce("delete")
    /\ UNCHANGED <<otps, accounts>>

-----------------------------------------------------------------------------
(* One-time codes *)

ForgotRead(s) ==
    /\ account.status = "ACTIVE"
    /\ Begin(s, [op |-> "forgot", pc |-> "forgot_create"])
    /\ UNCHANGED credentialsData

ForgotPassword(s) ==
    /\ At(s, "forgot_create")
    /\ otps' = Append(otps, NewOtp)
    /\ Finish(s)
    /\ UNCHANGED <<account, accounts>>

\* verifyOTP takes the newest code neither verified nor used and compares; a
\* wrong guess counts as one from here on.
Checkable_OneMore(i) == otps[i].attempts <= MaxAttempts /\ ~otps[i].expired
Checkable(i) == otps[i].attempts < MaxAttempts /\ ~otps[i].expired

VerifyRead(s, right) ==
    /\ \E i \in Newest({k \in DOMAIN otps : ~otps[k].verified /\ ~otps[k].used}) :
         /\ Checkable(i)
         /\ Begin(s, [op |-> "verify", pc |-> IF right THEN "verify_mark" ELSE "verify_count",
                      i |-> i, attempts |-> otps[i].attempts + 1])
         /\ otps' = IF right THEN otps ELSE [otps EXCEPT ![i].wrong = @ + 1]
    /\ UNCHANGED <<account, accounts>>

\* The attempts are written as they were read plus one.
VerifyFailed(s) ==
    /\ At(s, "verify_count")
    /\ otps' = [otps EXCEPT ![req[s].i].attempts = req[s].attempts]
    /\ Finish(s)
    /\ UNCHANGED <<account, accounts>>

VerifyOTP(s) ==
    /\ At(s, "verify_mark")
    /\ otps' = [otps EXCEPT ![req[s].i] = [@ EXCEPT !.attempts = req[s].attempts,
                                                    !.verified = TRUE]]
    /\ Finish(s)
    /\ UNCHANGED <<account, accounts>>

\* Ten minutes pass: an unverified code expires, a verified one may not reset.
TimePasses(i) ==
    /\ otps' = [otps EXCEPT ![i] = [@ EXCEPT !.expired = TRUE, !.stale = otps[i].verified]]
    /\ UNCHANGED <<account, accounts, handlers>>

-----------------------------------------------------------------------------
(* Passwords *)

ResetRead(s, password) ==
    /\ account.status = "ACTIVE"
    /\ Begin(s, [op |-> "reset", pc |-> "reset_find", password |-> password])
    /\ UNCHANGED credentialsData

\* The newest verified code counts, whether it is the one just verified or not.
Resettable_Verified(i) == ~otps[i].stale
Resettable(i) == ~otps[i].used /\ ~otps[i].stale

ResetFind(s) ==
    /\ At(s, "reset_find")
    /\ LET newest == Newest({k \in DOMAIN otps : otps[k].verified})
       IN  \/ \E i \in newest : /\ Resettable(i)
                               /\ Goto(s, [op |-> "reset", pc |-> "reset_write", i |-> i,
                                           password |-> req[s].password])
           \/ (\A i \in newest : ~Resettable(i)) /\ Finish(s)
    /\ UNCHANGED credentialsData

\* After hashing: the update goes by e-mail address.
ResetPassword(s) ==
    /\ At(s, "reset_write")
    /\ IF account = NoAccount
       THEN Finish(s) /\ UNCHANGED <<account, otps>>
       ELSE /\ account' = [account EXCEPT !.password = req[s].password]
            /\ otps' = [otps EXCEPT ![req[s].i].resets = @ + 1]
            /\ Goto(s, [op |-> "reset", pc |-> "reset_used", i |-> req[s].i])
    /\ UNCHANGED accounts

ResetUsed(s) ==
    /\ At(s, "reset_used")
    /\ otps' = [otps EXCEPT ![req[s].i].used = TRUE]
    /\ Finish(s)
    /\ UNCHANGED <<account, accounts>>

\* The current password given matches the one read, which is not that of a
\* social account; the new one differs.
ChangeRead(s, password) ==
    /\ account.status = "ACTIVE"
    /\ account.password \notin {None, password}
    /\ Begin(s, [op |-> "change", pc |-> "change_write", id |-> account.id,
                 known |-> account.password, password |-> password])
    /\ UNCHANGED credentialsData

ChangePassword_ByAddress(s) ==
    /\ At(s, "change_write")
    /\ account' = IF account # NoAccount THEN [account EXCEPT !.password = req[s].password]
                  ELSE account
    /\ Finish(s)
    /\ UNCHANGED <<otps, accounts>>
ChangePassword(s) ==
    /\ At(s, "change_write")
    /\ account' = IF account.id = req[s].id THEN [account EXCEPT !.password = req[s].password]
                  ELSE account
    /\ Finish(s)
    /\ UNCHANGED <<otps, accounts>>

-----------------------------------------------------------------------------
CredentialsAbandon(s) == Stops(s) /\ UNCHANGED credentialsData

CredentialsStep(s) ==
    \/ CreateAccount(s) \/ UpdateUserStatus(s)
    \/ ForgotPassword(s) \/ VerifyFailed(s) \/ VerifyOTP(s)
    \/ ResetFind(s) \/ ResetPassword(s) \/ ResetUsed(s) \/ ChangePassword(s)

CredentialsRequest(s) ==
    \/ \E p \in Passwords \cup {None} : SignupRead(s, p)
    \/ \E p \in Passwords : ResetRead(s, p) \/ ChangeRead(s, p)
    \/ \E right \in BOOLEAN : VerifyRead(s, right)
    \/ ForgotRead(s) \/ ToggleRead(s)

CredentialsNext ==
    \/ \E s \in Slots : CredentialsRequest(s) \/ CredentialsStep(s) \/ CredentialsAbandon(s)
    \/ DeleteAccount
    \/ \E i \in DOMAIN otps : TimePasses(i)

CredentialsSpec == CredentialsInit /\ HandlersInit /\ [][CredentialsNext]_credentialsVars

-----------------------------------------------------------------------------
(* Properties *)

\* Type invariant.
CredentialsTypeOK ==
    /\ account \in AccountRows \cup {NoAccount}
    /\ otps \in Seq(OtpRows)
    /\ accounts \in Nat

\* With verifyOTP kept from overlapping itself and not stopping halfway, a code is
\* compared with at most MaxAttempts wrong guesses, whatever else goes on.
\* Overlapping, guesses write the same number of attempts; and a guess whose
\* write fails has been compared without being counted.
GuessesBounded ==
    (Apart({{"verify"}}) /\ ~failing) =>
        \A i \in DOMAIN otps : otps[i].wrong <= MaxAttempts

\* With resetPassword kept from overlapping itself and not stopping halfway, a
\* verified code resets the password once: the code is marked as used only
\* after the password is written.
OneResetPerCode ==
    (Apart({{"reset"}}) /\ ~failing) => \A i \in DOMAIN otps : otps[i].resets <= 1

\* With changePassword kept from overlapping itself and resetPassword, it
\* replaces the password it was given and checked, never one set meanwhile; nor
\* the password of an account opened anew with the same address.
ChangeReplacesKnown ==
    [][\A s \in Slots :
         (Apart({{"change"}, {"change", "reset"}}) /\ At(s, "change_write")
          /\ account'.password # account.password /\ req'[s] = Idle)
            => account.password = req[s].known /\ account.id = req[s].id]_credentialsVars
=============================================================================
