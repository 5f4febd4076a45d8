----------------------------- MODULE MCAccounts -----------------------------
(***************************************************************************)
(* The account's credentials and its verification side by side: a          *)
(* behaviour is one of the two, as focus says, since they write different  *)
(* columns and rows.                                                       *)
(***************************************************************************)
EXTENDS Credentials, Verification, TLC

CONSTANTS w1, w2, w3, s1, s2

VARIABLE focus

accountsVars == <<credentialsVars, verificationVars, focus>>

Symmetry == Permutations(Passwords) \cup Permutations(Slots)

\* The program, and the program with locks on which nothing fails, or with the
\* avatar's alone.
AccountsRegimes ==
    {[apart |-> {}, failing |-> TRUE],
     [apart |-> AvatarLock, failing |-> TRUE],
     [apart |-> {{"verify"}, {"reset"}, {"change"}, {"change", "reset"}},
      failing |-> FALSE]}

\* The avatar's lock says nothing of the credentials, and what the profile shows
\* at first matters to the avatar only.
AccountsInit ==
    /\ HandlersInit /\ CredentialsInit /\ VerificationInit
    /\ focus \in {"credentials", "verification"}
    /\ focus = "credentials" => apart # AvatarLock
    /\ avatar = Picture => apart = AvatarLock

AccountsNext ==
    \/ focus = "credentials" /\ CredentialsNext /\ UNCHANGED <<verificationData, focus>>
    \/ focus = "verification" /\ VerificationNext /\ UNCHANGED <<credentialsData, focus>>

AccountsSpec == AccountsInit /\ [][AccountsNext]_accountsVars
=============================================================================
