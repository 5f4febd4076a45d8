------------------------- MODULE CredentialsProofs --------------------------
(***************************************************************************)
(* What Credentials guarantees for every set of passwords, limit of        *)
(* attempts and number of handlers: type correctness, and under their      *)
(* locks GuessesBounded, OneResetPerCode and ChangeReplacesKnown.          *)
(*                                                                         *)
(* Each of the last three rests on a handler being alone with what it has  *)
(* read: the attempts of the code it checks, the code it will mark as      *)
(* used, the password it was shown.  Only TypeCorrect needs no lock.       *)
(***************************************************************************)
EXTENDS Credentials, TLAPS

Verifying == {"verify_mark", "verify_count"}
Resetting == {"reset_find", "reset_write", "reset_used"}
OnCode    == Verifying \cup {"reset_write", "reset_used"}

\* What a handler stopped at r.pc relies on: n is the number of accounts created,
\* codes the indices of the codes.
Sound(r, n, codes) ==
    /\ r.op = "verify" <=> r.pc \in Verifying
    /\ r.op = "reset" <=> r.pc \in Resetting
    /\ r.op = "change" <=> r.pc = "change_write"
    /\ r.pc \in OnCode => r.i \in codes
    /\ r.pc \in Verifying => r.attempts \in Nat
    /\ r.pc = "signup_create" => r.password \in Passwords \cup {None}
    /\ r.pc \in {"reset_find", "reset_write", "change_write"} => r.password \in Passwords
    /\ r.pc = "toggle_write" => r.to \in {"ACTIVE", "SUSPENDED"}
    /\ r.pc \in {"toggle_write", "change_write"} => r.id \in 1 .. n

InFlight == DOMAIN req = Slots /\ \A s \in Slots : Sound(req[s], accounts, DOMAIN otps)

\* Ids are given out once, 0 standing for no account.
Ids == account.id \in 0 .. accounts /\ (account # NoAccount => account.id # 0)

Inv == CredentialsTypeOK /\ Ids /\ InFlight

-----------------------------------------------------------------------------
(* Lemmas *)

LEMMA IdleSound == ASSUME NEW n, NEW codes PROVE Sound(Idle, n, codes)
BY DEF Sound, Idle, Verifying, Resetting, OnCode

LEMMA SoundStable ==
    ASSUME NEW r, NEW n \in Nat, NEW m \in Nat, n <= m, NEW c, NEW d, c \subseteq d, Sound(r, n, c)
    PROVE  Sound(r, m, d)
BY DEF Sound

\* Accounts and codes are only added.
Growing == accounts' \in Nat /\ accounts <= accounts' /\ DOMAIN otps \subseteq DOMAIN otps'

LEMMA SlotStep ==
    ASSUME Inv, Growing, NEW s \in Slots, NEW r, req' = [req EXCEPT ![s] = r],
           Sound(r, accounts', DOMAIN otps')
    PROVE  InFlight'
<1>1. \A t \in Slots : req'[t] = IF t = s THEN r ELSE req[t]
  BY DEF Inv, InFlight
<1>2. ASSUME NEW t \in Slots, t # s PROVE Sound(req[t], accounts', DOMAIN otps')
  BY SoundStable DEF Inv, InFlight, CredentialsTypeOK, Growing
<1> QED BY <1>1, <1>2 DEF Inv, InFlight

LEMMA NoSlotStep == ASSUME Inv, Growing, UNCHANGED req PROVE InFlight'
BY SoundStable DEF Inv, InFlight, CredentialsTypeOK, Growing

LEMMA ReadStep ==
    ASSUME Inv, UNCHANGED credentialsData, NEW s \in Slots, NEW r,
           req' = [req EXCEPT ![s] = r], Sound(r, accounts, DOMAIN otps)
    PROVE  Inv'
<1>1. Growing
  BY DEF Growing, Inv, CredentialsTypeOK, credentialsData
<1>2. InFlight'
  BY <1>1, SlotStep DEF credentialsData
<1> QED BY <1>2 DEF Inv, CredentialsTypeOK, Ids, credentialsData

LEMMA SoundAt == ASSUME Inv, NEW s \in Slots PROVE Sound(req[s], accounts, DOMAIN otps)
BY DEF Inv, InFlight

\* An update of one code.
LEMMA CodeStep ==
    ASSUME Inv, NEW i \in DOMAIN otps, NEW code \in OtpRows, otps' = [otps EXCEPT ![i] = code],
           UNCHANGED accounts
    PROVE  Growing /\ otps' \in Seq(OtpRows) /\ DOMAIN otps' = DOMAIN otps
BY DEF Inv, CredentialsTypeOK, Growing

LEMMA CodeType == ASSUME Inv, NEW i \in DOMAIN otps PROVE otps[i] \in OtpRows
BY DEF Inv, CredentialsTypeOK

\* A check begins with a code it may still compare, and counts a wrong guess.
LEMMA CheckBegins ==
    ASSUME Inv, NEW s \in Slots, NEW right \in BOOLEAN, VerifyRead(s, right)
    PROVE  \E i \in DOMAIN otps : \E r, code :
             /\ otps[i].attempts < MaxAttempts
             /\ Begin(s, r) /\ r.op = "verify" /\ r.pc \in Verifying
             /\ r.i = i /\ r.attempts = otps[i].attempts + 1 /\ r.attempts \in Nat
             /\ code \in OtpRows /\ otps' = [otps EXCEPT ![i] = code]
             /\ code.attempts = otps[i].attempts /\ code.used = otps[i].used
             /\ code.resets = otps[i].resets
             /\ code.wrong = otps[i].wrong \/ code.wrong = otps[i].wrong + 1
<1>1. PICK i \in DOMAIN otps :
        /\ otps[i].attempts < MaxAttempts
        /\ Begin(s, [op |-> "verify", pc |-> IF right THEN "verify_mark" ELSE "verify_count",
                     i |-> i, attempts |-> otps[i].attempts + 1])
        /\ otps' = IF right THEN otps ELSE [otps EXCEPT ![i].wrong = @ + 1]
  BY DEF VerifyRead, Newest, Checkable
<1> DEFINE r == [op |-> "verify", pc |-> IF right THEN "verify_mark" ELSE "verify_count",
                 i |-> i, attempts |-> otps[i].attempts + 1]
           code == IF right THEN otps[i] ELSE [otps[i] EXCEPT !.wrong = @ + 1]
<1>2. otps[i] \in OtpRows
  BY CodeType
<1>3. /\ code \in OtpRows /\ code.attempts = otps[i].attempts /\ code.used = otps[i].used
      /\ code.resets = otps[i].resets
      /\ code.wrong = otps[i].wrong \/ code.wrong = otps[i].wrong + 1
  BY <1>2 DEF OtpRows
<1>4. otps' = [otps EXCEPT ![i] = code]
  <2>1. CASE right
    <3>1. otps = [otps EXCEPT ![i] = otps[i]]
      BY DEF Inv, CredentialsTypeOK
    <3> QED BY <1>1, <2>1, <3>1
  <2>2. CASE ~right
    BY <1>1, <2>2
  <2> QED BY <2>1, <2>2
<1>5. /\ r.op = "verify" /\ r.pc \in Verifying
      /\ r.i = i /\ r.attempts = otps[i].attempts + 1 /\ r.attempts \in Nat
  BY <1>2 DEF Verifying, OtpRows
<1>6. Begin(s, r)
  BY <1>1
<1> HIDE DEF r, code
<1> QED BY <1>1, <1>3, <1>4, <1>5, <1>6

LEMMA InitInv == CredentialsInit /\ HandlersInit => Inv
<1> SUFFICES ASSUME CredentialsInit, HandlersInit PROVE Inv
  OBVIOUS
<1>1. CredentialsTypeOK /\ Ids
  BY DEF CredentialsInit, CredentialsTypeOK, Ids, NoAccount
<1>2. InFlight
  BY IdleSound DEF HandlersInit, InFlight
<1> QED BY <1>1, <1>2 DEF Inv

-----------------------------------------------------------------------------
(* The steps *)

LEMMA RequestInv == ASSUME Inv, NEW s \in Slots, CredentialsRequest(s) PROVE Inv'
<1>1. account # NoAccount => account.id \in 1 .. accounts /\ account \in AccountRows
  BY DEF Inv, CredentialsTypeOK, Ids
<1>2. ASSUME NEW p \in Passwords \cup {None}, SignupRead(s, p) PROVE Inv'
  <2> DEFINE r == [op |-> "signup", pc |-> "signup_create", password |-> p]
  <2>1. Sound(r, accounts, DOMAIN otps)
    BY DEF Sound, Verifying, Resetting, OnCode
  <2>2. UNCHANGED credentialsData /\ req' = [req EXCEPT ![s] = r]
    BY <1>2 DEF SignupRead, Begin
  <2> HIDE DEF r
  <2> QED BY <2>1, <2>2, ReadStep
<1>3. ASSUME NEW p \in Passwords, ResetRead(s, p) PROVE Inv'
  <2> DEFINE r == [op |-> "reset", pc |-> "reset_find", password |-> p]
  <2>1. Sound(r, accounts, DOMAIN otps)
    BY DEF Sound, Verifying, Resetting, OnCode
  <2>2. UNCHANGED credentialsData /\ req' = [req EXCEPT ![s] = r]
    BY <1>3 DEF ResetRead, Begin
  <2> HIDE DEF r
  <2> QED BY <2>1, <2>2, ReadStep
<1>4. ASSUME NEW p \in Passwords, ChangeRead(s, p) PROVE Inv'
  <2> DEFINE r == [op |-> "change", pc |-> "change_write", id |-> account.id,
                   known |-> account.password, password |-> p]
  <2>1. account # NoAccount
    BY <1>4 DEF ChangeRead, NoAccount
  <2>2. Sound(r, accounts, DOMAIN otps)
    BY <1>1, <2>1 DEF Sound, Verifying, Resetting, OnCode
  <2>3. UNCHANGED credentialsData /\ req' = [req EXCEPT ![s] = r]
    BY <1>4 DEF ChangeRead, Begin
  <2> HIDE DEF r
  <2> QED BY <2>2, <2>3, ReadStep
<1>5. ASSUME NEW right \in BOOLEAN, VerifyRead(s, right) PROVE Inv'
  <2>0. PICK i \in DOMAIN otps : \E r, code :
          /\ Begin(s, r) /\ r.op = "verify" /\ r.pc \in Verifying /\ r.i = i /\ r.attempts \in Nat
          /\ code \in OtpRows /\ otps' = [otps EXCEPT ![i] = code]
    BY <1>5, CheckBegins
  <2>1. PICK r, code :
          /\ Begin(s, r) /\ r.op = "verify" /\ r.pc \in Verifying /\ r.i = i /\ r.attempts \in Nat
          /\ code \in OtpRows /\ otps' = [otps EXCEPT ![i] = code]
    BY <2>0
  <2>2. UNCHANGED <<account, accounts>> /\ req' = [req EXCEPT ![s] = r]
    BY <1>5, <2>1 DEF VerifyRead, Begin
  <2>3. Growing /\ otps' \in Seq(OtpRows) /\ DOMAIN otps' = DOMAIN otps
    BY <2>1, <2>2, CodeStep
  <2>4. Sound(r, accounts', DOMAIN otps')
    BY <2>1, <2>3 DEF Sound, Verifying, Resetting, OnCode
  <2>5. InFlight'
    BY <2>2, <2>3, <2>4, SlotStep
  <2> QED BY <2>2, <2>3, <2>5 DEF Inv, CredentialsTypeOK, Ids
<1>6. CASE ForgotRead(s)
  <2> DEFINE r == [op |-> "forgot", pc |-> "forgot_create"]
  <2>1. Sound(r, accounts, DOMAIN otps)
    BY DEF Sound, Verifying, Resetting, OnCode
  <2>2. UNCHANGED credentialsData /\ req' = [req EXCEPT ![s] = r]
    BY <1>6 DEF ForgotRead, Begin
  <2> HIDE DEF r
  <2> QED BY <2>1, <2>2, ReadStep
<1>7. CASE ToggleRead(s)
  <2> DEFINE r == [op |-> "toggle", pc |-> "toggle_write", id |-> account.id,
                   to |-> IF account.status = "SUSPENDED" THEN "ACTIVE" ELSE "SUSPENDED"]
  <2>1. Sound(r, accounts, DOMAIN otps)
    BY <1>1, <1>7 DEF ToggleRead, Sound, Verifying, Resetting, OnCode
  <2>2. UNCHANGED credentialsData /\ req' = [req EXCEPT ![s] = r]
    BY <1>7 DEF ToggleRead, Begin
  <2> HIDE DEF r
  <2> QED BY <2>1, <2>2, ReadStep
<1> QED BY <1>2, <1>3, <1>4, <1>5, <1>6, <1>7 DEF CredentialsRequest

LEMMA StepInv == ASSUME Inv, NEW s \in Slots, CredentialsStep(s) PROVE Inv'
<1> DEFINE r == req[s]
<1>1. Sound(r, accounts, DOMAIN otps)
  BY SoundAt
<1>2. /\ account \in AccountRows \cup {NoAccount} /\ otps \in Seq(OtpRows) /\ accounts \in Nat
      /\ Ids
  BY DEF Inv, CredentialsTypeOK
\* A write of the account that ends its handler.
<1>3. ASSUME req' = [req EXCEPT ![s] = Idle], Growing, UNCHANGED otps, Ids',
             account' \in AccountRows \cup {NoAccount}
      PROVE  Inv'
  BY <1>2, <1>3, SlotStep, IdleSound DEF Inv, CredentialsTypeOK, Growing
\* A write of the codes that ends its handler.
<1>4. ASSUME req' = [req EXCEPT ![s] = Idle], Growing, otps' \in Seq(OtpRows),
             UNCHANGED <<account, accounts>>
      PROVE  Inv'
  BY <1>2, <1>4, SlotStep, IdleSound DEF Inv, CredentialsTypeOK, Ids
<1>5. ASSUME NEW code \in OtpRows, NEW i \in DOMAIN otps, otps' = [otps EXCEPT ![i] = code],
             req' = [req EXCEPT ![s] = Idle], UNCHANGED <<account, accounts>>
      PROVE  Inv'
  BY <1>4, <1>5, CodeStep
<1>6. CASE CreateAccount(s)
  <2>1. r.password \in Passwords \cup {None}
    BY <1>1, <1>6 DEF CreateAccount, At, Sound
  <2>2. Growing /\ account' \in AccountRows \cup {NoAccount} /\ Ids'
    BY <1>2, <1>6, <2>1 DEF CreateAccount, Growing, AccountRows, Ids
  <2> QED BY <1>3, <1>6, <2>2 DEF CreateAccount, Finish, Goto
<1>7. CASE UpdateUserStatus(s) \/ ChangePassword(s)
  <2>1. r.id \in 1 .. accounts
    BY <1>1, <1>7 DEF UpdateUserStatus, ChangePassword, At, Sound
  <2>2. \/ account' = account
        \/ /\ account.id = r.id
           /\ \/ /\ r.to \in {"ACTIVE", "SUSPENDED"} /\ account' = [account EXCEPT !.status = r.to]
              \/ r.password \in Passwords /\ account' = [account EXCEPT !.password = r.password]
    BY <1>1, <1>7 DEF UpdateUserStatus, ChangePassword, At, Sound
  <2>3. Growing /\ account' \in AccountRows \cup {NoAccount} /\ Ids'
    <3>1. UNCHANGED <<otps, accounts>>
      BY <1>7 DEF UpdateUserStatus, ChangePassword
    <3>2. account.id = r.id => account \in AccountRows
      BY <1>2, <2>1 DEF NoAccount
    <3>3. account' \in AccountRows \cup {NoAccount} /\ account'.id = account.id
          /\ (account' = NoAccount => account = NoAccount)
      BY <1>2, <2>1, <2>2, <3>2 DEF AccountRows, NoAccount
    <3>4. Growing
      BY <1>2, <3>1 DEF Growing
    <3>5. Ids'
      <4>1. account'.id \in 0 .. accounts'
        BY <1>2, <3>1, <3>3 DEF Ids
      <4>2. account' # NoAccount => account'.id # 0
        BY <1>2, <2>1, <2>2, <3>3 DEF Ids
      <4> QED BY <4>1, <4>2 DEF Ids
    <3> QED BY <3>3, <3>4, <3>5
  <2> QED BY <1>3, <1>7, <2>3 DEF UpdateUserStatus, ChangePassword, Finish, Goto
<1>8. CASE ForgotPassword(s)
  <2>1. NewOtp \in OtpRows
    BY DEF NewOtp, OtpRows
  <2>2. otps' \in Seq(OtpRows) /\ Growing
    BY <1>2, <1>8, <2>1 DEF ForgotPassword, Growing
  <2> QED BY <1>4, <1>8, <2>2 DEF ForgotPassword, Finish, Goto
<1>9. CASE VerifyFailed(s)
  <2> DEFINE code == [otps[r.i] EXCEPT !.attempts = r.attempts]
  <2>1. r.i \in DOMAIN otps /\ r.attempts \in Nat
    BY <1>1, <1>9 DEF VerifyFailed, At, Sound, Verifying, OnCode
  <2>2. code \in OtpRows
    BY <2>1, CodeType DEF OtpRows
  <2>3. otps' = [otps EXCEPT ![r.i] = code]
    BY <1>9 DEF VerifyFailed
  <2> HIDE DEF code
  <2> QED BY <1>5, <1>9, <2>1, <2>2, <2>3 DEF VerifyFailed, Finish, Goto
<1>10. CASE VerifyOTP(s)
  <2> DEFINE code == [otps[r.i] EXCEPT !.attempts = r.attempts, !.verified = TRUE]
  <2>1. r.i \in DOMAIN otps /\ r.attempts \in Nat
    BY <1>1, <1>10 DEF VerifyOTP, At, Sound, Verifying, OnCode
  <2>2. code \in OtpRows
    BY <2>1, CodeType DEF OtpRows
  <2>3. otps' = [otps EXCEPT ![r.i] = code]
    BY <1>10 DEF VerifyOTP
  <2> HIDE DEF code
  <2> QED BY <1>5, <1>10, <2>1, <2>2, <2>3 DEF VerifyOTP, Finish, Goto
<1>11. CASE ResetFind(s)
  <2>1. r.password \in Passwords /\ UNCHANGED credentialsData
    BY <1>1, <1>11 DEF ResetFind, At, Sound
  <2>2. ASSUME NEW i \in DOMAIN otps,
               req' = [req EXCEPT ![s] = [op |-> "reset", pc |-> "reset_write", i |-> i,
                                          password |-> r.password]]
        PROVE  Inv'
    <3> DEFINE q == [op |-> "reset", pc |-> "reset_write", i |-> i, password |-> r.password]
    <3>1. Sound(q, accounts, DOMAIN otps)
      BY <2>1 DEF Sound, Verifying, Resetting, OnCode
    <3> HIDE DEF q
    <3> QED BY <2>1, <2>2, <3>1, ReadStep DEF q
  <2>3. CASE req' = [req EXCEPT ![s] = Idle]
    BY <2>1, <2>3, ReadStep, IdleSound
  <2> QED BY <1>11, <2>2, <2>3 DEF ResetFind, Goto, Finish, Newest
<1>12. CASE ResetPassword(s)
  <2>1. r.i \in DOMAIN otps /\ r.password \in Passwords
    BY <1>1, <1>12 DEF ResetPassword, At, Sound, OnCode
  <2>2. CASE account = NoAccount
    BY <1>12, <2>2, ReadStep, IdleSound DEF ResetPassword, Finish, Goto, credentialsData
  <2>3. CASE account # NoAccount
    <3> DEFINE code == [otps[r.i] EXCEPT !.resets = @ + 1]
               q == [op |-> "reset", pc |-> "reset_used", i |-> r.i]
    <3>1. code \in OtpRows
      BY <2>1, CodeType DEF OtpRows
    <3>2. otps' = [otps EXCEPT ![r.i] = code] /\ UNCHANGED accounts
          /\ account' = [account EXCEPT !.password = r.password] /\ req' = [req EXCEPT ![s] = q]
      BY <1>12, <2>3 DEF ResetPassword, Goto
    <3> HIDE DEF code
    <3>3. Growing /\ otps' \in Seq(OtpRows) /\ DOMAIN otps' = DOMAIN otps
      BY <2>1, <3>1, <3>2, CodeStep
    <3>4. Sound(q, accounts', DOMAIN otps')
      BY <2>1, <3>3 DEF Sound, Verifying, Resetting, OnCode
    <3> HIDE DEF q
    <3>5. account' \in AccountRows /\ account'.id = account.id
      BY <1>2, <2>1, <2>3, <3>2 DEF AccountRows
    <3>6. Ids'
      BY <1>2, <2>3, <3>2, <3>5 DEF Ids
    <3> QED BY <1>2, <3>2, <3>3, <3>4, <3>5, <3>6, SlotStep DEF Inv, CredentialsTypeOK
  <2> QED BY <2>2, <2>3
<1>13. CASE ResetUsed(s)
  <2> DEFINE code == [otps[r.i] EXCEPT !.used = TRUE]
  <2>1. r.i \in DOMAIN otps
    BY <1>1, <1>13 DEF ResetUsed, At, Sound, OnCode
  <2>2. code \in OtpRows /\ otps' = [otps EXCEPT ![r.i] = code]
    BY <1>13, <2>1, CodeType DEF ResetUsed, OtpRows
  <2> QED BY <1>5, <1>13, <2>1, <2>2 DEF ResetUsed, Finish, Goto
<1> QED BY <1>6, <1>7, <1>8, <1>9, <1>10, <1>11, <1>12, <1>13 DEF CredentialsStep

LEMMA NextInv == Inv /\ [CredentialsNext]_credentialsVars => Inv'
<1> SUFFICES ASSUME Inv, [CredentialsNext]_credentialsVars PROVE Inv'
  OBVIOUS
<1>1. CASE \E s \in Slots : CredentialsRequest(s) \/ CredentialsStep(s)
  BY <1>1, RequestInv, StepInv
<1>2. ASSUME NEW s \in Slots, CredentialsAbandon(s) PROVE Inv'
  BY <1>2, ReadStep, IdleSound DEF CredentialsAbandon, Stops, Finish, Goto
<1>3. CASE DeleteAccount
  <2>1. Growing
    BY <1>3 DEF DeleteAccount, Growing, Inv, CredentialsTypeOK
  <2>2. InFlight'
    BY <1>3, <2>1, NoSlotStep DEF DeleteAccount, AtOnce
  <2>3. Ids' /\ CredentialsTypeOK'
    BY <1>3 DEF DeleteAccount, Inv, CredentialsTypeOK, Ids, NoAccount
  <2> QED BY <2>2, <2>3 DEF Inv
<1>4. ASSUME NEW i \in DOMAIN otps, TimePasses(i) PROVE Inv'
  <2> DEFINE code == [otps[i] EXCEPT !.expired = TRUE, !.stale = otps[i].verified]
  <2>1. code \in OtpRows
    BY CodeType DEF OtpRows
  <2>2. otps' = [otps EXCEPT ![i] = code]
    BY <1>4 DEF TimePasses
  <2> HIDE DEF code
  <2>3. Growing /\ otps' \in Seq(OtpRows)
    BY <1>4, <2>1, <2>2, CodeStep DEF TimePasses
  <2>4. InFlight'
    BY <1>4, <2>3, NoSlotStep DEF TimePasses, handlers
  <2> QED BY <1>4, <2>3, <2>4 DEF TimePasses, Inv, CredentialsTypeOK, Ids
<1>5. CASE UNCHANGED credentialsVars
  <2>1. InFlight'
    BY <1>5, NoSlotStep DEF credentialsVars, credentialsData, handlers, Growing, Inv, CredentialsTypeOK
  <2> QED BY <1>5, <2>1 DEF credentialsVars, credentialsData, Inv, CredentialsTypeOK, Ids
<1> QED BY <1>1, <1>2, <1>3, <1>4, <1>5 DEF CredentialsNext

\* The rows keep their types and the handlers what they rely on, whatever overlaps
\* and stops: codes and accounts are only added, and a request holds on to ids.
THEOREM CredentialsInvariant == CredentialsSpec => []Inv
BY InitInv, NextInv, PTL DEF CredentialsSpec

\* The account row and the codes have their types.
THEOREM TypeCorrect == CredentialsSpec => []CredentialsTypeOK
<1>1. Inv => CredentialsTypeOK
  BY DEF Inv
<1> QED BY <1>1, CredentialsInvariant, PTL

-----------------------------------------------------------------------------
(* GuessesBounded *)

Alone(op) == \A s, t \in Slots : req[s].op = op /\ req[t].op = op => s = t

Checking == Apart({{"verify"}}) /\ ~failing

\* The only check in flight holds the attempts of its code; no code has been
\* compared with more wrong guesses than it counts, but for the one that check
\* goes on to count.
Counted(i) == \/ otps[i].wrong <= otps[i].attempts
              \/ \E s \in Slots : /\ req[s].op = "verify" /\ req[s].i = i
                                   /\ otps[i].wrong <= req[s].attempts

Guesses ==
    Checking =>
      /\ Alone("verify")
      /\ \A i \in DOMAIN otps : otps[i].attempts <= MaxAttempts /\ Counted(i)
      /\ \A s \in Slots : req[s].op = "verify" =>
           /\ req[s].attempts = otps[req[s].i].attempts + 1
           /\ req[s].attempts <= MaxAttempts

SameGuesses(i) == otps'[i].attempts = otps[i].attempts /\ otps'[i].wrong = otps[i].wrong

\* A step that neither begins nor ends a check.
LEMMA GuessFrame ==
    ASSUME Inv, Guesses, UNCHANGED <<apart, failing>>, DOMAIN otps \subseteq DOMAIN otps',
           \A i \in DOMAIN otps : SameGuesses(i),
           \A i \in DOMAIN otps' \ DOMAIN otps : otps'[i] = NewOtp,
           \A s \in Slots : req'[s].op = "verify" \/ req[s].op = "verify" => req'[s] = req[s]
    PROVE  Guesses'
<1> SUFFICES ASSUME Checking PROVE Guesses'
  BY DEF Guesses, Checking, Apart
<1>1. Alone("verify")'
  BY DEF Guesses, Alone
<1>2. ASSUME NEW i \in DOMAIN otps' PROVE otps'[i].attempts <= MaxAttempts /\ Counted(i)'
  <2>1. CASE i \in DOMAIN otps
    <3>1. otps'[i].attempts = otps[i].attempts /\ otps'[i].wrong = otps[i].wrong
      BY <2>1 DEF SameGuesses
    <3>2. otps[i].attempts <= MaxAttempts /\ Counted(i)
      BY <2>1 DEF Guesses
    <3> QED BY <3>1, <3>2 DEF Counted
  <2>2. CASE i \notin DOMAIN otps
    <3>1. otps'[i] = NewOtp
      BY <2>2
    <3> QED BY <3>1, CredentialsAssumption DEF Counted, NewOtp
  <2> QED BY <2>1, <2>2
<1>3. ASSUME NEW s \in Slots, req'[s].op = "verify"
      PROVE  /\ req'[s].attempts = otps'[req'[s].i].attempts + 1
             /\ req'[s].attempts <= MaxAttempts
  <2>1. req'[s] = req[s]
    BY <1>3
  <2>2. req[s].op = "verify" /\ req[s].i \in DOMAIN otps
    BY <1>3, <2>1, SoundAt DEF Sound, OnCode
  <2> QED BY <2>1, <2>2 DEF Guesses, SameGuesses
<1> QED BY <1>1, <1>2, <1>3 DEF Guesses

LEMMA SlotKept ==
    ASSUME Inv, NEW s \in Slots, NEW r, req' = [req EXCEPT ![s] = r]
    PROVE  \A t \in Slots : req'[t] = IF t = s THEN r ELSE req[t]
BY DEF Inv, InFlight

LEMMA GuessRead ==
    ASSUME Inv, Guesses, UNCHANGED <<otps, apart, failing>>, NEW s \in Slots, NEW r,
           r.op # "verify", req[s].op # "verify", req' = [req EXCEPT ![s] = r]
    PROVE  Guesses'
<1>1. \A t \in Slots : req'[t].op = "verify" \/ req[t].op = "verify" => req'[t] = req[t]
  BY SlotKept
<1> QED BY <1>1, GuessFrame DEF SameGuesses

LEMMA GuessWrite ==
    ASSUME Inv, Guesses, UNCHANGED <<apart, failing>>, NEW s \in Slots, NEW r,
           r.op # "verify", req[s].op # "verify",
           req' = [req EXCEPT ![s] = r], NEW i \in DOMAIN otps, NEW code,
           otps' = [otps EXCEPT ![i] = code],
           code.attempts = otps[i].attempts, code.wrong = otps[i].wrong
    PROVE  Guesses'
<1>1. \A t \in Slots : req'[t].op = "verify" \/ req[t].op = "verify" => req'[t] = req[t]
  BY SlotKept
<1>2. DOMAIN otps' = DOMAIN otps /\ \A k \in DOMAIN otps : SameGuesses(k)
  BY DEF SameGuesses
<1> QED BY <1>1, <1>2, GuessFrame

LEMMA InitGuesses == CredentialsInit /\ HandlersInit => Guesses
BY DEF CredentialsInit, HandlersInit, Guesses, Alone, Idle

LEMMA GuessRequest == ASSUME Inv, Guesses, NEW s \in Slots, CredentialsRequest(s) PROVE Guesses'
<1>1. UNCHANGED <<apart, failing>>
  BY DEF CredentialsRequest, SignupRead, ResetRead, ChangeRead, VerifyRead, ForgotRead, ToggleRead,
         Begin, Arrives
<1>2. ASSUME NEW r, r.op # "verify", Begin(s, r), UNCHANGED otps PROVE Guesses'
  <2>1. req[s].op # "verify"
    BY <1>2 DEF Begin, Busy, Idle
  <2> QED BY <1>1, <1>2, <2>1, GuessRead DEF Begin
<1>3. ASSUME NEW right \in BOOLEAN, VerifyRead(s, right) PROVE Guesses'
  <2> SUFFICES ASSUME Checking PROVE Guesses'
    BY <1>1 DEF Guesses, Checking, Apart
  <2>0. PICK i \in DOMAIN otps : \E r, code :
          /\ otps[i].attempts < MaxAttempts
          /\ Begin(s, r) /\ r.op = "verify" /\ r.i = i /\ r.attempts = otps[i].attempts + 1
          /\ otps' = [otps EXCEPT ![i] = code] /\ code.attempts = otps[i].attempts
          /\ code.wrong = otps[i].wrong \/ code.wrong = otps[i].wrong + 1
    BY <1>3, CheckBegins
  <2>1. PICK r, code :
          /\ otps[i].attempts < MaxAttempts
          /\ Begin(s, r) /\ r.op = "verify" /\ r.i = i /\ r.attempts = otps[i].attempts + 1
          /\ otps' = [otps EXCEPT ![i] = code] /\ code.attempts = otps[i].attempts
          /\ code.wrong = otps[i].wrong \/ code.wrong = otps[i].wrong + 1
    BY <2>0
  <2>2. req' = [req EXCEPT ![s] = r] /\ MayRun("verify")
    BY <2>1 DEF Begin, Arrives
  <2>3. \A t \in Slots : req[t].op # "verify"
    BY <2>2 DEF MayRun, Checking, Apart
  <2>4. \A t \in Slots : req'[t] = IF t = s THEN r ELSE req[t]
    BY <2>2, SlotKept
  <2>5. /\ otps[i].attempts \in Nat /\ otps[i].wrong \in Nat /\ DOMAIN otps' = DOMAIN otps
        /\ otps'[i] = code /\ \A k \in DOMAIN otps : k # i => otps'[k] = otps[k]
    BY <2>1, CodeType DEF OtpRows
  <2>6. \A k \in DOMAIN otps : otps[k].wrong <= otps[k].attempts /\ otps[k].attempts <= MaxAttempts
    BY <2>3 DEF Guesses, Counted
  <2>7. Alone("verify")'
    BY <2>3, <2>4 DEF Alone
  <2>8. ASSUME NEW k \in DOMAIN otps' PROVE otps'[k].attempts <= MaxAttempts /\ Counted(k)'
    <3>1. CASE k = i
      <4>1. otps'[i].wrong <= r.attempts
        BY <2>1, <2>5, <2>6
      <4>2. req'[s].op = "verify" /\ req'[s].i = i /\ req'[s].attempts = r.attempts
        BY <2>1, <2>4
      <4> QED BY <2>1, <2>5, <2>6, <3>1, <4>1, <4>2 DEF Counted
    <3>2. CASE k # i
      BY <2>5, <2>6, <2>8, <3>2 DEF Counted
    <3> QED BY <3>1, <3>2
  <2>9. ASSUME NEW t \in Slots, req'[t].op = "verify"
        PROVE  /\ req'[t].attempts = otps'[req'[t].i].attempts + 1
               /\ req'[t].attempts <= MaxAttempts
    <3>1. req'[t] = r
      BY <2>3, <2>4, <2>9
    <3> QED BY <2>1, <2>5, <3>1, CredentialsAssumption
  <2> QED BY <2>7, <2>8, <2>9 DEF Guesses
<1>4. CASE \E p \in Passwords \cup {None} : SignupRead(s, p)
  BY <1>2, <1>4 DEF SignupRead, credentialsData
<1>5. CASE \E p \in Passwords : ResetRead(s, p)
  BY <1>2, <1>5 DEF ResetRead, credentialsData
<1>6. CASE \E p \in Passwords : ChangeRead(s, p)
  BY <1>2, <1>6 DEF ChangeRead, credentialsData
<1>7. CASE ForgotRead(s)
  BY <1>2, <1>7 DEF ForgotRead, credentialsData
<1>8. CASE ToggleRead(s)
  BY <1>2, <1>8 DEF ToggleRead, credentialsData
<1> QED BY <1>3, <1>4, <1>5, <1>6, <1>7, <1>8 DEF CredentialsRequest

LEMMA GuessStep == ASSUME Inv, Guesses, NEW s \in Slots, CredentialsStep(s) PROVE Guesses'
<1> DEFINE r == req[s]
<1>1. Sound(r, accounts, DOMAIN otps)
  BY SoundAt
<1>2. UNCHANGED <<apart, failing>>
  BY DEF CredentialsStep, CreateAccount, UpdateUserStatus, ForgotPassword, VerifyFailed, VerifyOTP,
         ResetFind, ResetPassword, ResetUsed, ChangePassword, Finish, Goto
<1>3. Idle.op # "verify" /\ (r.pc \notin Verifying => r.op # "verify")
  BY <1>1 DEF Idle, Sound
<1>4. CASE CreateAccount(s) \/ UpdateUserStatus(s) \/ ChangePassword(s)
  <2>1. r.op # "verify"
    BY <1>3, <1>4 DEF CreateAccount, UpdateUserStatus, ChangePassword, At, Verifying
  <2> QED BY <1>2, <1>3, <1>4, <2>1, GuessRead
          DEF CreateAccount, UpdateUserStatus, ChangePassword, Finish, Goto
<1>5. CASE ForgotPassword(s)
  <2>1. /\ DOMAIN otps \subseteq DOMAIN otps'
        /\ \A i \in DOMAIN otps : otps'[i] = otps[i]
        /\ \A i \in DOMAIN otps' \ DOMAIN otps : otps'[i] = NewOtp
    BY <1>5 DEF ForgotPassword, Inv, CredentialsTypeOK
  <2>2. \A t \in Slots : req'[t].op = "verify" \/ req[t].op = "verify" => req'[t] = req[t]
    BY <1>3, <1>5, SlotKept DEF ForgotPassword, Finish, Goto, At, Verifying
  <2> QED BY <1>2, <2>1, <2>2, GuessFrame DEF SameGuesses
\* A check that ends, having counted its guess.
<1>6. ASSUME r.op = "verify", r.i \in DOMAIN otps, NEW code,
             otps' = [otps EXCEPT ![r.i] = code], req' = [req EXCEPT ![s] = Idle],
             code.attempts = r.attempts, code.wrong = otps[r.i].wrong
      PROVE  Guesses'
  <2> SUFFICES ASSUME Checking PROVE Guesses'
    BY <1>2 DEF Guesses, Checking, Apart
  <2>1. otps[r.i].attempts \in Nat /\ otps[r.i].wrong \in Nat
    BY <1>6, CodeType DEF OtpRows
  <2>2. r.attempts = otps[r.i].attempts + 1 /\ r.attempts <= MaxAttempts
    BY <1>6 DEF Guesses
  <2>3. \A t \in Slots : req[t].op = "verify" => t = s
    BY <1>6 DEF Guesses, Alone
  <2>4. \A t \in Slots : req'[t] = IF t = s THEN Idle ELSE req[t]
    BY <1>6, SlotKept
  <2>5. \A t \in Slots : req'[t].op # "verify"
    BY <1>3, <2>3, <2>4
  <2>6. ASSUME NEW k \in DOMAIN otps'
        PROVE  otps'[k].attempts <= MaxAttempts /\ otps'[k].wrong <= otps'[k].attempts
    <3>1. Counted(k) /\ otps[k].attempts <= MaxAttempts
      BY <1>6 DEF Guesses
    <3>2. CASE k = r.i
      BY <1>6, <2>1, <2>2, <2>3, <3>1, <3>2 DEF Counted
    <3>3. CASE k # r.i
      BY <1>6, <2>3, <3>1, <3>3 DEF Counted
    <3> QED BY <3>2, <3>3
  <2> QED BY <2>5, <2>6 DEF Guesses, Counted, Alone
<1>7. CASE VerifyFailed(s)
  <2> DEFINE code == [otps[r.i] EXCEPT !.attempts = r.attempts]
  <2>1. r.i \in DOMAIN otps /\ r.op = "verify"
    BY <1>1, <1>7 DEF VerifyFailed, At, Sound, Verifying, OnCode
  <2>2. code.attempts = r.attempts /\ code.wrong = otps[r.i].wrong
    BY <2>1, CodeType DEF OtpRows
  <2>3. otps' = [otps EXCEPT ![r.i] = code] /\ req' = [req EXCEPT ![s] = Idle]
    BY <1>7 DEF VerifyFailed, Finish, Goto
  <2> HIDE DEF code
  <2> QED BY <1>6, <2>1, <2>2, <2>3
<1>8. CASE VerifyOTP(s)
  <2> DEFINE code == [otps[r.i] EXCEPT !.attempts = r.attempts, !.verified = TRUE]
  <2>1. r.i \in DOMAIN otps /\ r.op = "verify"
    BY <1>1, <1>8 DEF VerifyOTP, At, Sound, Verifying, OnCode
  <2>2. code.attempts = r.attempts /\ code.wrong = otps[r.i].wrong
    BY <2>1, CodeType DEF OtpRows
  <2>3. otps' = [otps EXCEPT ![r.i] = code] /\ req' = [req EXCEPT ![s] = Idle]
    BY <1>8 DEF VerifyOTP, Finish, Goto
  <2> HIDE DEF code
  <2> QED BY <1>6, <2>1, <2>2, <2>3
<1>9. CASE ResetFind(s)
  <2>0. r.op # "verify"
    BY <1>3, <1>9 DEF ResetFind, At, Verifying
  <2>1. ASSUME NEW q, q.op = "reset", Goto(s, q), UNCHANGED otps PROVE Guesses'
    BY <1>2, <2>0, <2>1, GuessRead DEF Goto
  <2>2. CASE Finish(s)
    BY <1>2, <1>3, <1>9, <2>0, <2>2, GuessRead DEF ResetFind, Finish, Goto, credentialsData
  <2> QED BY <1>9, <2>1, <2>2 DEF ResetFind, credentialsData
<1>10. CASE ResetPassword(s)
  <2> DEFINE code == [otps[r.i] EXCEPT !.resets = @ + 1]
             q == [op |-> "reset", pc |-> "reset_used", i |-> r.i]
  <2>1. r.i \in DOMAIN otps /\ r.op # "verify"
    BY <1>1, <1>3, <1>10 DEF ResetPassword, At, Sound, OnCode, Verifying
  <2>2. code.attempts = otps[r.i].attempts /\ code.wrong = otps[r.i].wrong /\ q.op # "verify"
    BY <2>1, CodeType DEF OtpRows
  <2>3. \/ UNCHANGED otps /\ req' = [req EXCEPT ![s] = Idle]
        \/ otps' = [otps EXCEPT ![r.i] = code] /\ req' = [req EXCEPT ![s] = q]
    BY <1>10 DEF ResetPassword, Finish, Goto
  <2> HIDE DEF code, q
  <2> QED BY <1>2, <1>3, <2>1, <2>2, <2>3, GuessRead, GuessWrite
<1>11. CASE ResetUsed(s)
  <2> DEFINE code == [otps[r.i] EXCEPT !.used = TRUE]
  <2>1. r.i \in DOMAIN otps /\ r.op # "verify"
    BY <1>1, <1>3, <1>11 DEF ResetUsed, At, Sound, OnCode, Verifying
  <2>2. code.attempts = otps[r.i].attempts /\ code.wrong = otps[r.i].wrong
    BY <2>1, CodeType DEF OtpRows
  <2>3. otps' = [otps EXCEPT ![r.i] = code] /\ req' = [req EXCEPT ![s] = Idle]
    BY <1>11 DEF ResetUsed, Finish, Goto
  <2> HIDE DEF code
  <2> QED BY <1>2, <1>3, <2>1, <2>2, <2>3, GuessWrite
<1> QED BY <1>4, <1>5, <1>7, <1>8, <1>9, <1>10, <1>11 DEF CredentialsStep

LEMMA NextGuesses == Inv /\ Guesses /\ [CredentialsNext]_credentialsVars => Guesses'
<1> SUFFICES ASSUME Inv, Guesses, [CredentialsNext]_credentialsVars PROVE Guesses'
  OBVIOUS
<1>1. CASE \E s \in Slots : CredentialsRequest(s) \/ CredentialsStep(s)
  BY <1>1, GuessRequest, GuessStep
<1>2. ASSUME NEW s \in Slots, CredentialsAbandon(s) PROVE Guesses'
  BY <1>2 DEF CredentialsAbandon, Stops, Finish, Goto, Guesses, Checking
<1>3. CASE DeleteAccount \/ UNCHANGED credentialsVars
  <2>1. UNCHANGED <<otps, req, apart, failing>>
    BY <1>3 DEF DeleteAccount, AtOnce, Arrives, credentialsVars, credentialsData, handlers
  <2> QED BY <2>1, GuessFrame DEF SameGuesses
<1>4. ASSUME NEW i \in DOMAIN otps, TimePasses(i) PROVE Guesses'
  <2> DEFINE code == [otps[i] EXCEPT !.expired = TRUE, !.stale = otps[i].verified]
  <2>1. code.attempts = otps[i].attempts /\ code.wrong = otps[i].wrong
    BY CodeType DEF OtpRows
  <2>2. otps' = [otps EXCEPT ![i] = code] /\ UNCHANGED <<req, apart, failing>>
    BY <1>4 DEF TimePasses, handlers
  <2> HIDE DEF code
  <2>3. DOMAIN otps' = DOMAIN otps /\ \A k \in DOMAIN otps : SameGuesses(k)
    BY <2>1, <2>2 DEF SameGuesses
  <2> QED BY <2>2, <2>3, GuessFrame
<1> QED BY <1>1, <1>2, <1>3, <1>4 DEF CredentialsNext

\* With verifyOTP kept from overlapping itself and not stopping halfway, a code is
\* compared with at most MaxAttempts wrong guesses: the one check in flight holds
\* the attempts of its code, and what it writes back counts its own guess.
THEOREM GuessesBoundedAlways == CredentialsSpec => []GuessesBounded
<1>1. ASSUME Inv, Guesses PROVE GuessesBounded
  <2> SUFFICES ASSUME Checking, NEW i \in DOMAIN otps PROVE otps[i].wrong <= MaxAttempts
    BY DEF GuessesBounded, Checking
  <2>1. Counted(i) /\ otps[i].attempts <= MaxAttempts
    BY <1>1 DEF Guesses
  <2>2. \A s \in Slots : req[s].op = "verify" =>
           req[s].attempts <= MaxAttempts /\ req[s].attempts \in Nat
    BY <1>1, SoundAt DEF Guesses, Sound
  <2>3. otps[i].wrong \in Nat /\ otps[i].attempts \in Nat /\ MaxAttempts \in Nat
    BY <1>1, CodeType, CredentialsAssumption DEF OtpRows
  <2> QED BY <2>1, <2>2, <2>3 DEF Counted
<1> QED BY <1>1, InitInv, NextInv, InitGuesses, NextGuesses, PTL DEF CredentialsSpec

-----------------------------------------------------------------------------
(* ChangeReplacesKnown *)

Kept == Apart({{"change"}, {"change", "reset"}})

\* The only change in flight holds the password of its account, if that is still
\* there, and no reset is in flight beside it.
Known ==
    Kept =>
      /\ Alone("change")
      /\ \A s, t \in Slots : ~(req[s].op = "change" /\ req[t].op = "reset")
      /\ \A s \in Slots : req[s].op = "change" /\ account.id = req[s].id
           => account.password = req[s].known

\* A step that begins neither a change nor a reset, and writes no password.
LEMMA KnownFrame ==
    ASSUME Inv, Known, UNCHANGED apart,
           account' = account \/ account'.password = account.password
             \/ account'.id \notin 1 .. accounts,
           account'.id # account.id => account'.id \notin 1 .. accounts,
           \A s \in Slots : req'[s].op = "change" => req'[s] = req[s],
           \A s \in Slots : req'[s].op = "reset" => req[s].op = "reset"
    PROVE  Known'
<1>1. ASSUME NEW s \in Slots, Kept, req'[s].op = "change", account'.id = req'[s].id
      PROVE  account'.password = req'[s].known
  <2>1. req'[s] = req[s] /\ req[s].id \in 1 .. accounts
    BY <1>1, SoundAt DEF Sound
  <2> QED BY <1>1, <2>1 DEF Known
<1> QED BY <1>1 DEF Known, Kept, Apart, Alone

LEMMA KnownSlot ==
    ASSUME Inv, Known, UNCHANGED apart, NEW s \in Slots, NEW r, req' = [req EXCEPT ![s] = r],
           r.op # "change", r.op = "reset" => req[s].op = "reset",
           account' = account \/ account'.password = account.password
             \/ account'.id \notin 1 .. accounts,
           account'.id # account.id => account'.id \notin 1 .. accounts
    PROVE  Known'
<1>1. /\ \A t \in Slots : req'[t].op = "change" => req'[t] = req[t]
      /\ \A t \in Slots : req'[t].op = "reset" => req[t].op = "reset"
  BY SlotKept
<1> QED BY <1>1, KnownFrame

LEMMA InitKnown == CredentialsInit /\ HandlersInit => Known
BY DEF CredentialsInit, HandlersInit, Known, Alone, Idle

LEMMA KnownRequest == ASSUME Inv, Known, NEW s \in Slots, CredentialsRequest(s) PROVE Known'
<1>1. UNCHANGED <<account, accounts, apart>>
  BY DEF CredentialsRequest, SignupRead, ResetRead, ChangeRead, VerifyRead, ForgotRead, ToggleRead,
         Begin, Arrives, credentialsData
<1>2. ASSUME NEW r, r.op \notin {"change", "reset"}, Begin(s, r) PROVE Known'
  BY <1>1, <1>2, KnownSlot DEF Begin
<1>3. ASSUME NEW p \in Passwords, ResetRead(s, p) PROVE Known'
  <2> SUFFICES ASSUME Kept PROVE Known'
    BY <1>1 DEF Known, Kept, Apart
  <2> DEFINE r == [op |-> "reset", pc |-> "reset_find", password |-> p]
  <2>1. r.op = "reset" /\ req' = [req EXCEPT ![s] = r] /\ MayRun("reset")
    BY <1>3 DEF ResetRead, Begin, Arrives
  <2> HIDE DEF r
  <2>2. \A t \in Slots : req[t].op # "change"
    BY <2>1 DEF MayRun, Kept, Apart
  <2>3. \A t \in Slots : req'[t] = IF t = s THEN r ELSE req[t]
    BY <2>1, SlotKept
  <2>4. \A t \in Slots : req'[t].op # "change"
    BY <2>1, <2>2, <2>3
  <2> QED BY <2>4 DEF Known, Alone
<1>4. ASSUME NEW p \in Passwords, ChangeRead(s, p) PROVE Known'
  <2> SUFFICES ASSUME Kept PROVE Known'
    BY <1>1 DEF Known, Kept, Apart
  <2> DEFINE r == [op |-> "change", pc |-> "change_write", id |-> account.id,
                   known |-> account.password, password |-> p]
  <2>1. r.op = "change" /\ r.known = account.password /\ req' = [req EXCEPT ![s] = r]
        /\ MayRun("change")
    BY <1>4 DEF ChangeRead, Begin, Arrives
  <2> HIDE DEF r
  <2>2. \A t \in Slots : req[t].op \notin {"change", "reset"}
    BY <2>1 DEF MayRun, Kept, Apart
  <2>3. \A t \in Slots : req'[t] = IF t = s THEN r ELSE req[t]
    BY <2>1, SlotKept
  <2>4. \A t \in Slots : req'[t].op = "change" => t = s
    BY <2>2, <2>3
  <2>5. \A t \in Slots : req'[t].op # "reset"
    BY <2>1, <2>2, <2>3
  <2>6. account'.password = req'[s].known
    BY <1>1, <2>1, <2>3
  <2> QED BY <2>4, <2>5, <2>6 DEF Known, Alone
<1>5. CASE \E p \in Passwords \cup {None} : SignupRead(s, p)
  BY <1>2, <1>5 DEF SignupRead
<1>6. CASE \E right \in BOOLEAN : VerifyRead(s, right)
  <2>1. PICK r : r.op = "verify" /\ Begin(s, r)
    BY <1>6, CheckBegins
  <2> QED BY <1>2, <2>1
<1>7. CASE ForgotRead(s)
  BY <1>2, <1>7 DEF ForgotRead
<1>8. CASE ToggleRead(s)
  BY <1>2, <1>8 DEF ToggleRead
<1> QED BY <1>3, <1>4, <1>5, <1>6, <1>7, <1>8 DEF CredentialsRequest

LEMMA KnownStep == ASSUME Inv, Known, NEW s \in Slots, CredentialsStep(s) PROVE Known'
<1> DEFINE r == req[s]
<1>1. Sound(r, accounts, DOMAIN otps)
  BY SoundAt
<1>2. UNCHANGED apart
  BY DEF CredentialsStep, CreateAccount, UpdateUserStatus, ForgotPassword, VerifyFailed, VerifyOTP,
         ResetFind, ResetPassword, ResetUsed, ChangePassword, Finish, Goto
<1>3. Idle.op \notin {"change", "reset"}
  BY DEF Idle
<1>4. CASE CreateAccount(s)
  <2>1. account' = account \/ account'.id = accounts + 1
    BY <1>4 DEF CreateAccount
  <2>2. accounts + 1 \notin 1 .. accounts
    BY DEF Inv, CredentialsTypeOK
  <2> QED BY <1>2, <1>3, <1>4, <2>1, <2>2, KnownSlot DEF CreateAccount, Finish, Goto
<1>5. CASE UpdateUserStatus(s)
  <2>1. account'.password = account.password /\ account'.id = account.id
    BY <1>5 DEF UpdateUserStatus, Inv, CredentialsTypeOK, AccountRows, NoAccount
  <2> QED BY <1>2, <1>3, <1>5, <2>1, KnownSlot DEF UpdateUserStatus, Finish, Goto
<1>6. CASE ForgotPassword(s) \/ VerifyFailed(s) \/ VerifyOTP(s) \/ ResetUsed(s)
  BY <1>2, <1>3, <1>6, KnownSlot
  DEF ForgotPassword, VerifyFailed, VerifyOTP, ResetUsed, Finish, Goto
<1>7. CASE ResetFind(s)
  <2>1. r.op = "reset" /\ UNCHANGED account
    BY <1>1, <1>7 DEF ResetFind, At, Sound, Resetting, credentialsData
  <2>2. ASSUME NEW q, q.op = "reset", Goto(s, q) PROVE Known'
    BY <1>2, <2>1, <2>2, KnownSlot DEF Goto
  <2>3. CASE Finish(s)
    BY <1>2, <1>3, <2>1, <2>3, KnownSlot DEF Finish, Goto
  <2> QED BY <1>7, <2>2, <2>3 DEF ResetFind
<1>8. CASE ResetPassword(s)
  <2> SUFFICES ASSUME Kept PROVE Known'
    BY <1>2 DEF Known, Kept, Apart
  <2> DEFINE q == [op |-> "reset", pc |-> "reset_used", i |-> r.i]
  <2>1. r.op = "reset"
    BY <1>1, <1>8 DEF ResetPassword, At, Sound, Resetting
  <2>2. \A t \in Slots : req[t].op # "change"
    BY <2>1 DEF Known
  <2>3. req' = [req EXCEPT ![s] = Idle] \/ req' = [req EXCEPT ![s] = q]
    BY <1>8 DEF ResetPassword, Finish, Goto
  <2>4. q.op # "change" /\ Idle.op # "change"
    BY <1>3
  <2> HIDE DEF q
  <2>5. CASE req' = [req EXCEPT ![s] = Idle]
    <3>1. \A t \in Slots : req'[t].op # "change"
      BY <2>2, <2>4, <2>5, SlotKept
    <3> QED BY <3>1 DEF Known, Alone
  <2>6. CASE req' = [req EXCEPT ![s] = q]
    <3>1. \A t \in Slots : req'[t].op # "change"
      BY <2>2, <2>4, <2>6, SlotKept
    <3> QED BY <3>1 DEF Known, Alone
  <2> QED BY <2>3, <2>5, <2>6
<1>9. CASE ChangePassword(s)
  <2> SUFFICES ASSUME Kept PROVE Known'
    BY <1>2 DEF Known, Kept, Apart
  <2>1. r.op = "change"
    BY <1>1, <1>9 DEF ChangePassword, At, Sound
  <2>2. req' = [req EXCEPT ![s] = Idle]
    BY <1>9 DEF ChangePassword, Finish, Goto
  <2>3. \A t \in Slots : t # s => req[t].op # "change"
    BY <2>1 DEF Known, Alone
  <2>4. \A t \in Slots : req'[t] = IF t = s THEN Idle ELSE req[t]
    BY <2>2, SlotKept
  <2>5. \A t \in Slots : req'[t].op # "change"
    BY <1>3, <2>3, <2>4
  <2> QED BY <2>5 DEF Known, Alone
<1> QED BY <1>4, <1>5, <1>6, <1>7, <1>8, <1>9 DEF CredentialsStep

LEMMA NextKnown == Inv /\ Known /\ [CredentialsNext]_credentialsVars => Known'
<1> SUFFICES ASSUME Inv, Known, [CredentialsNext]_credentialsVars PROVE Known'
  OBVIOUS
<1>1. CASE \E s \in Slots : CredentialsRequest(s) \/ CredentialsStep(s)
  BY <1>1, KnownRequest, KnownStep
<1>2. ASSUME NEW s \in Slots, CredentialsAbandon(s) PROVE Known'
  <2>1. Idle.op \notin {"change", "reset"}
    BY DEF Idle
  <2> QED BY <1>2, <2>1, KnownSlot DEF CredentialsAbandon, Stops, Finish, Goto, credentialsData
<1>3. CASE DeleteAccount
  <2>1. account'.id \notin 1 .. accounts
    BY <1>3 DEF DeleteAccount, NoAccount, Inv, CredentialsTypeOK
  <2> QED BY <1>3, <2>1, KnownFrame DEF DeleteAccount, AtOnce, Arrives
<1>4. CASE (\E i \in DOMAIN otps : TimePasses(i)) \/ UNCHANGED credentialsVars
  BY <1>4, KnownFrame DEF TimePasses, credentialsVars, credentialsData, handlers
<1> QED BY <1>1, <1>2, <1>3, <1>4 DEF CredentialsNext

LEMMA KnownReplaced ==
    ASSUME Inv, Known, [CredentialsNext]_credentialsVars, NEW s \in Slots, Kept,
           At(s, "change_write"), account'.password # account.password, req'[s] = Idle
    PROVE  account.password = req[s].known /\ account.id = req[s].id
<1>1. req[s].op = "change" /\ req[s] # Idle
  BY SoundAt DEF At, Sound, Idle
<1>2. ASSUME NEW t \in Slots, NEW r, req' = [req EXCEPT ![t] = r], t # s PROVE FALSE
  BY <1>1, <1>2, SlotKept
<1>3. CASE \E t \in Slots : CredentialsRequest(t)
  BY <1>3 DEF CredentialsRequest, SignupRead, ResetRead, ChangeRead, VerifyRead, ForgotRead,
              ToggleRead, credentialsData
<1>4. ASSUME NEW t \in Slots, CredentialsStep(t)
      PROVE  account.password = req[s].known /\ account.id = req[s].id
  <2>1. ChangePassword(t) \/ CreateAccount(t) \/ UpdateUserStatus(t) \/ ResetPassword(t)
    BY <1>4 DEF CredentialsStep, ForgotPassword, VerifyFailed, VerifyOTP, ResetUsed, ResetFind,
                credentialsData
  <2>2. t = s
    BY <1>2, <2>1
    DEF ChangePassword, CreateAccount, UpdateUserStatus, ResetPassword, Finish, Goto
  <2>3. account.id = req[s].id
    BY <2>1, <2>2 DEF ChangePassword, CreateAccount, UpdateUserStatus, ResetPassword, At
  <2> QED BY <1>1, <2>3 DEF Known
<1>5. CASE \E t \in Slots : CredentialsAbandon(t)
  BY <1>5 DEF CredentialsAbandon, credentialsData
<1>6. CASE DeleteAccount
  BY <1>1, <1>6 DEF DeleteAccount, AtOnce
<1>7. CASE (\E i \in DOMAIN otps : TimePasses(i)) \/ UNCHANGED credentialsVars
  BY <1>7 DEF TimePasses, credentialsVars, credentialsData
<1> QED BY <1>3, <1>4, <1>5, <1>6, <1>7 DEF CredentialsNext

\* With changePassword kept from overlapping itself and resetPassword, it replaces
\* the password it was given and checked, of the account it was asked for.
THEOREM ChangeReplacesKnownAlways == CredentialsSpec => ChangeReplacesKnown
<1>1. Inv /\ Known /\ [CredentialsNext]_credentialsVars =>
        [\A s \in Slots :
           (Apart({{"change"}, {"change", "reset"}}) /\ At(s, "change_write")
            /\ account'.password # account.password /\ req'[s] = Idle)
              => account.password = req[s].known /\ account.id = req[s].id]_credentialsVars
  BY KnownReplaced DEF Kept
<1> QED BY <1>1, InitInv, NextInv, InitKnown, NextKnown, PTL DEF CredentialsSpec, ChangeReplacesKnown

-----------------------------------------------------------------------------
(* OneResetPerCode *)

Whole == Apart({{"reset"}}) /\ ~failing

\* A code has reset nothing yet, or reset once and is marked as used, or is about
\* to be by the one reset in flight.
Marked(i) == otps[i].used \/ \E s \in Slots : req[s].pc = "reset_used" /\ req[s].i = i

Resets ==
    Whole =>
      /\ Alone("reset")
      /\ \A i \in DOMAIN otps : otps[i].resets = 0 \/ (otps[i].resets = 1 /\ Marked(i))
      /\ \A s \in Slots : req[s].pc = "reset_write" => otps[req[s].i].resets = 0

SameResets(i) == otps'[i].resets = otps[i].resets /\ otps'[i].used = otps[i].used

\* A step of no reset.
LEMMA ResetFrame ==
    ASSUME Inv, Inv', Resets, UNCHANGED <<apart, failing>>, DOMAIN otps \subseteq DOMAIN otps',
           \A i \in DOMAIN otps : SameResets(i),
           \A i \in DOMAIN otps' \ DOMAIN otps : otps'[i] = NewOtp,
           \A s \in Slots : req'[s].op = "reset" \/ req[s].op = "reset" => req'[s] = req[s]
    PROVE  Resets'
<1> SUFFICES ASSUME Whole PROVE Resets'
  BY DEF Resets, Whole, Apart
<1>1. Alone("reset")'
  BY DEF Resets, Alone
<1>2. ASSUME NEW s \in Slots, req[s].pc = "reset_used" PROVE req'[s] = req[s]
  BY <1>2, SoundAt DEF Sound, Resetting
<1>3. ASSUME NEW s \in Slots, req'[s].pc = "reset_write"
      PROVE  req'[s] = req[s] /\ req[s].i \in DOMAIN otps
  <2>1. req'[s].op = "reset"
    BY <1>3 DEF Inv, InFlight, Sound, Resetting
  <2>2. req'[s] = req[s]
    BY <2>1
  <2> QED BY <1>3, <2>2, SoundAt DEF Sound, OnCode
<1>4. ASSUME NEW i \in DOMAIN otps' PROVE otps'[i].resets = 0 \/ (otps'[i].resets = 1 /\ Marked(i)')
  <2>1. CASE i \in DOMAIN otps
    <3>1. otps'[i].resets = otps[i].resets /\ otps'[i].used = otps[i].used
      BY <2>1 DEF SameResets
    <3>2. ASSUME Marked(i) PROVE Marked(i)'
      <4>1. CASE otps[i].used
        BY <3>1, <4>1 DEF Marked
      <4>2. CASE ~otps[i].used
        <5>1. PICK s \in Slots : req[s].pc = "reset_used" /\ req[s].i = i
          BY <3>2, <4>2 DEF Marked
        <5>2. req'[s] = req[s]
          BY <1>2, <5>1
        <5> QED BY <5>1, <5>2 DEF Marked
      <4> QED BY <4>1, <4>2
    <3>3. otps[i].resets = 0 \/ (otps[i].resets = 1 /\ Marked(i))
      BY <2>1 DEF Resets
    <3> QED BY <3>1, <3>2, <3>3
  <2>2. CASE i \notin DOMAIN otps
    BY <1>4, <2>2 DEF NewOtp
  <2> QED BY <2>1, <2>2
<1>5. ASSUME NEW s \in Slots, req'[s].pc = "reset_write" PROVE otps'[req'[s].i].resets = 0
  <2>1. req'[s] = req[s] /\ req[s].i \in DOMAIN otps
    BY <1>5, <1>3
  <2>2. otps[req[s].i].resets = 0
    BY <1>5, <2>1 DEF Resets
  <2>3. otps'[req[s].i].resets = otps[req[s].i].resets
    BY <2>1 DEF SameResets
  <2> QED BY <2>1, <2>2, <2>3
<1> QED BY <1>1, <1>4, <1>5 DEF Resets

LEMMA ResetSlot ==
    ASSUME Inv, Inv', Resets, UNCHANGED <<otps, apart, failing>>, NEW s \in Slots, NEW r,
           r.op # "reset", req[s].op # "reset", req' = [req EXCEPT ![s] = r]
    PROVE  Resets'
<1>1. \A t \in Slots : req'[t].op = "reset" \/ req[t].op = "reset" => req'[t] = req[t]
  BY SlotKept
<1> QED BY <1>1, ResetFrame DEF SameResets

LEMMA InitResets == CredentialsInit /\ HandlersInit => Resets
<1> SUFFICES ASSUME CredentialsInit, HandlersInit PROVE Resets
  OBVIOUS
<1>1. \A s \in Slots : req[s].op # "reset" /\ req[s].pc # "reset_write"
  BY DEF HandlersInit, Idle
<1>2. DOMAIN otps = {}
  BY DEF CredentialsInit
<1> QED BY <1>1, <1>2 DEF Resets, Alone

LEMMA ResetRequest == ASSUME Inv, Inv', Resets, NEW s \in Slots, CredentialsRequest(s) PROVE Resets'
<1>1. UNCHANGED <<apart, failing>>
  BY DEF CredentialsRequest, SignupRead, ResetRead, ChangeRead, VerifyRead, ForgotRead, ToggleRead,
         Begin, Arrives
<1>2. ASSUME NEW r, r.op # "reset", Begin(s, r), UNCHANGED otps PROVE Resets'
  <2>1. req[s].op # "reset"
    BY <1>2 DEF Begin, Busy, Idle
  <2> QED BY <1>1, <1>2, <2>1, ResetSlot DEF Begin
<1>3. ASSUME NEW p \in Passwords, ResetRead(s, p) PROVE Resets'
  <2> SUFFICES ASSUME Whole PROVE Resets'
    BY <1>1 DEF Resets, Whole, Apart
  <2> DEFINE r == [op |-> "reset", pc |-> "reset_find", password |-> p]
  <2>1. /\ r.op = "reset" /\ r.pc = "reset_find" /\ req' = [req EXCEPT ![s] = r]
        /\ MayRun("reset") /\ req[s] = Idle /\ UNCHANGED otps
    BY <1>3 DEF ResetRead, Begin, Arrives, Busy, credentialsData
  <2> HIDE DEF r
  <2>2. \A t \in Slots : req[t].op # "reset"
    BY <2>1 DEF MayRun, Whole, Apart
  <2>3. \A t \in Slots : req'[t] = IF t = s THEN r ELSE req[t]
    BY <2>1, SlotKept
  <2>4. \A t \in Slots : req[t].pc \notin Resetting
    BY <2>2, SoundAt DEF Sound
  <2>5. Alone("reset")'
    BY <2>2, <2>3 DEF Alone
  <2>6. \A i \in DOMAIN otps : Marked(i) <=> otps[i].used
    BY <2>4 DEF Marked, Resetting
  <2>7. \A i \in DOMAIN otps' : otps'[i].resets = 0 \/ (otps'[i].resets = 1 /\ Marked(i)')
    BY <2>1, <2>6 DEF Resets, Marked
  <2>8. \A t \in Slots : req'[t].pc # "reset_write"
    BY <2>1, <2>3, <2>4 DEF Resetting
  <2> QED BY <2>5, <2>7, <2>8 DEF Resets
<1>4. CASE \E p \in Passwords \cup {None} : SignupRead(s, p)
  BY <1>2, <1>4 DEF SignupRead, credentialsData
<1>5. CASE \E right \in BOOLEAN : VerifyRead(s, right)
  <2>0. PICK i \in DOMAIN otps : \E r, code :
          /\ r.op = "verify" /\ Begin(s, r) /\ otps' = [otps EXCEPT ![i] = code]
          /\ code.used = otps[i].used /\ code.resets = otps[i].resets
    BY <1>5, CheckBegins
  <2>1. PICK r, code :
          /\ r.op = "verify" /\ Begin(s, r) /\ otps' = [otps EXCEPT ![i] = code]
          /\ code.used = otps[i].used /\ code.resets = otps[i].resets
    BY <2>0
  <2>2. req' = [req EXCEPT ![s] = r] /\ req[s].op # "reset"
    BY <2>1 DEF Begin, Busy, Idle
  <2>3. \A t \in Slots : req'[t].op = "reset" \/ req[t].op = "reset" => req'[t] = req[t]
    BY <2>1, <2>2, SlotKept
  <2>4. DOMAIN otps' = DOMAIN otps /\ \A k \in DOMAIN otps : SameResets(k)
    BY <2>1 DEF SameResets
  <2> QED BY <1>1, <2>3, <2>4, ResetFrame
<1>6. CASE \E p \in Passwords : ChangeRead(s, p)
  BY <1>2, <1>6 DEF ChangeRead, credentialsData
<1>7. CASE ForgotRead(s)
  BY <1>2, <1>7 DEF ForgotRead, credentialsData
<1>8. CASE ToggleRead(s)
  BY <1>2, <1>8 DEF ToggleRead, credentialsData
<1> QED BY <1>3, <1>4, <1>5, <1>6, <1>7, <1>8 DEF CredentialsRequest

\* A step of the one reset in flight.
LEMMA ResetAlone ==
    ASSUME Inv, Resets, Whole, NEW s \in Slots, req[s].op = "reset", NEW r,
           req' = [req EXCEPT ![s] = r]
    PROVE  /\ \A t \in Slots : t # s => req'[t].op # "reset" /\ req[t].pc \notin Resetting
                                     /\ req'[t].pc \notin Resetting
           /\ req'[s] = r
           /\ Alone("reset")'
<1>1. \A t \in Slots : req'[t] = IF t = s THEN r ELSE req[t]
  BY SlotKept
<1>2. \A t \in Slots : t # s => req[t].op # "reset"
  BY DEF Resets, Alone
<1>3. \A t \in Slots : t # s => req[t].pc \notin Resetting
  BY <1>2, SoundAt DEF Sound
<1> QED BY <1>1, <1>2, <1>3 DEF Alone

LEMMA ResetStep == ASSUME Inv, Inv', Resets, NEW s \in Slots, CredentialsStep(s) PROVE Resets'
<1> DEFINE r == req[s]
<1>1. Sound(r, accounts, DOMAIN otps)
  BY SoundAt
<1>2. UNCHANGED <<apart, failing>>
  BY DEF CredentialsStep, CreateAccount, UpdateUserStatus, ForgotPassword, VerifyFailed, VerifyOTP,
         ResetFind, ResetPassword, ResetUsed, ChangePassword, Finish, Goto
<1>3. Idle.op # "reset" /\ Idle.pc \notin Resetting
  BY DEF Idle, Resetting
<1>4. CASE CreateAccount(s) \/ UpdateUserStatus(s) \/ ChangePassword(s)
  <2>1. r.op # "reset"
    BY <1>1, <1>4 DEF CreateAccount, UpdateUserStatus, ChangePassword, At, Sound, Resetting
  <2> QED BY <1>2, <1>3, <1>4, <2>1, ResetSlot
          DEF CreateAccount, UpdateUserStatus, ChangePassword, Finish, Goto
<1>5. CASE ForgotPassword(s)
  <2>1. /\ DOMAIN otps \subseteq DOMAIN otps'
        /\ \A i \in DOMAIN otps : otps'[i] = otps[i]
        /\ \A i \in DOMAIN otps' \ DOMAIN otps : otps'[i] = NewOtp
    BY <1>5 DEF ForgotPassword, Inv, CredentialsTypeOK
  <2>2. r.op # "reset"
    BY <1>1, <1>5 DEF ForgotPassword, At, Sound, Resetting
  <2>3. \A t \in Slots : req'[t].op = "reset" \/ req[t].op = "reset" => req'[t] = req[t]
    BY <1>3, <1>5, <2>2, SlotKept DEF ForgotPassword, Finish, Goto
  <2> QED BY <1>2, <2>1, <2>3, ResetFrame DEF SameResets
<1>6. CASE VerifyFailed(s) \/ VerifyOTP(s)
  <2>1. r.op # "reset" /\ r.i \in DOMAIN otps
    BY <1>1, <1>6 DEF VerifyFailed, VerifyOTP, At, Sound, Resetting, Verifying, OnCode
  <2>2. PICK code : /\ otps' = [otps EXCEPT ![r.i] = code]
                     /\ code.resets = otps[r.i].resets /\ code.used = otps[r.i].used
    <3> DEFINE wrong == [otps[r.i] EXCEPT !.attempts = r.attempts]
               right == [otps[r.i] EXCEPT !.attempts = r.attempts, !.verified = TRUE]
    <3>1. /\ wrong.resets = otps[r.i].resets /\ wrong.used = otps[r.i].used
          /\ right.resets = otps[r.i].resets /\ right.used = otps[r.i].used
      BY <2>1, CodeType DEF OtpRows
    <3>2. otps' = [otps EXCEPT ![r.i] = wrong] \/ otps' = [otps EXCEPT ![r.i] = right]
      <4>1. CASE VerifyFailed(s)
        BY <4>1 DEF VerifyFailed
      <4>2. CASE VerifyOTP(s)
        BY <4>2 DEF VerifyOTP
      <4> QED BY <1>6, <4>1, <4>2
    <3> HIDE DEF wrong, right
    <3> QED BY <3>1, <3>2
  <2>3. DOMAIN otps' = DOMAIN otps /\ \A i \in DOMAIN otps : SameResets(i)
    BY <2>2 DEF SameResets
  <2>4. req' = [req EXCEPT ![s] = Idle]
    BY <1>6 DEF VerifyFailed, VerifyOTP, Finish, Goto
  <2>5. \A t \in Slots : req'[t].op = "reset" \/ req[t].op = "reset" => req'[t] = req[t]
    BY <1>3, <2>1, <2>4, SlotKept
  <2> QED BY <1>2, <2>3, <2>5, ResetFrame
<1>7. CASE ResetFind(s) \/ ResetPassword(s) \/ ResetUsed(s)
  <2> SUFFICES ASSUME Whole PROVE Resets'
    BY <1>2 DEF Resets, Whole, Apart
  <2>1. r.op = "reset"
    BY <1>1, <1>7 DEF ResetFind, ResetPassword, ResetUsed, At, Sound, Resetting
  \* What is left to show: the code of r is the only one whose mark may change.
  <2>2. ASSUME NEW q, req' = [req EXCEPT ![s] = q],
               q.pc = "reset_write" => otps'[q.i].resets = 0,
               \A i \in DOMAIN otps' : otps'[i].resets = 0 \/ (otps'[i].resets = 1 /\ Marked(i)')
        PROVE  Resets'
    BY <2>1, <2>2, ResetAlone DEF Resets, Resetting
  <2>3. r.pc # "reset_used" => \A i \in DOMAIN otps : Marked(i) => otps[i].used
    <3>1. \A t \in Slots : t # s => req[t].op # "reset"
      BY <2>1 DEF Resets, Alone
    <3>2. \A t \in Slots : t # s => req[t].pc # "reset_used"
      BY <3>1, SoundAt DEF Sound, Resetting
    <3> QED BY <3>2 DEF Marked
  <2>4. \A i \in DOMAIN otps : otps[i].used => Marked(i)
    BY DEF Marked
  <2>5. ASSUME NEW q, req' = [req EXCEPT ![s] = q], q.pc = "reset_write" => otps[q.i].resets = 0,
               r.pc # "reset_used", UNCHANGED otps
        PROVE  Resets'
    <3>1. \A i \in DOMAIN otps' : otps'[i].resets = 0 \/ (otps'[i].resets = 1 /\ Marked(i)')
      BY <2>3, <2>5 DEF Resets, Marked
    <3> QED BY <2>2, <2>5, <3>1
  <2>6. CASE ResetFind(s)
    <3>1. r.pc # "reset_used" /\ UNCHANGED otps
      BY <2>6 DEF ResetFind, At, credentialsData
    <3>2. CASE Finish(s)
      BY <1>3, <2>5, <3>1, <3>2 DEF Finish, Goto, Resetting
    <3>3. ASSUME NEW i \in DOMAIN otps, Resettable(i),
                 Goto(s, [op |-> "reset", pc |-> "reset_write", i |-> i, password |-> r.password])
          PROVE  Resets'
      <4>1. ~otps[i].used
        BY <3>3 DEF Resettable
      <4>2. otps[i].resets = 0
        BY <2>3, <3>1, <4>1 DEF Resets
      <4> QED BY <2>5, <3>1, <3>3, <4>2 DEF Goto
    <3> QED BY <2>6, <3>2, <3>3 DEF ResetFind, Newest
  <2>7. CASE ResetPassword(s)
    <3> DEFINE code == [otps[r.i] EXCEPT !.resets = @ + 1]
               q == [op |-> "reset", pc |-> "reset_used", i |-> r.i]
    <3>1. r.i \in DOMAIN otps /\ r.pc = "reset_write"
      BY <1>1, <2>7 DEF ResetPassword, At, Sound, OnCode
    <3>2. otps[r.i].resets = 0
      BY <3>1 DEF Resets
    <3>3. code.resets = 1 /\ q.pc = "reset_used" /\ q.i = r.i
      BY <3>1, <3>2, CodeType DEF OtpRows
    <3>4. \/ UNCHANGED otps /\ req' = [req EXCEPT ![s] = Idle]
          \/ otps' = [otps EXCEPT ![r.i] = code] /\ req' = [req EXCEPT ![s] = q]
      BY <2>7 DEF ResetPassword, Finish, Goto
    <3> HIDE DEF code, q
    <3>5. CASE UNCHANGED otps /\ req' = [req EXCEPT ![s] = Idle]
      BY <1>3, <2>5, <3>1, <3>5 DEF Resetting
    <3>6. CASE otps' = [otps EXCEPT ![r.i] = code] /\ req' = [req EXCEPT ![s] = q]
      <4>1. req'[s] = q
        BY <2>1, <3>6, ResetAlone
      <4>2. ASSUME NEW i \in DOMAIN otps, i = r.i PROVE otps'[i].resets = 1 /\ Marked(i)'
        BY <3>1, <3>3, <3>6, <4>1, <4>2 DEF Marked
      <4>3. ASSUME NEW i \in DOMAIN otps, i # r.i
            PROVE  otps'[i].resets = 0 \/ (otps'[i].resets = 1 /\ Marked(i)')
        <5>1. otps'[i] = otps[i]
          BY <3>6, <4>3
        <5>2. otps[i].resets = 0 \/ (otps[i].resets = 1 /\ otps[i].used)
          BY <2>3, <3>1 DEF Resets
        <5> QED BY <5>1, <5>2 DEF Marked
      <4>4. DOMAIN otps' = DOMAIN otps
        BY <3>6
      <4>5. ASSUME NEW i \in DOMAIN otps'
            PROVE  otps'[i].resets = 0 \/ (otps'[i].resets = 1 /\ Marked(i)')
        <5>1. CASE i = r.i
          BY <4>2, <4>4, <4>5, <5>1
        <5>2. CASE i # r.i
          BY <4>3, <4>4, <4>5, <5>2
        <5> QED BY <5>1, <5>2
      <4> QED BY <2>2, <3>3, <3>6, <4>5
    <3> QED BY <3>4, <3>5, <3>6
  <2>8. CASE ResetUsed(s)
    <3> DEFINE code == [otps[r.i] EXCEPT !.used = TRUE]
    <3>1. r.i \in DOMAIN otps
      BY <1>1, <2>8 DEF ResetUsed, At, Sound, OnCode
    <3>2. code.resets = otps[r.i].resets /\ code.used
      BY <3>1, CodeType DEF OtpRows
    <3>3. otps' = [otps EXCEPT ![r.i] = code] /\ req' = [req EXCEPT ![s] = Idle]
      BY <2>8 DEF ResetUsed, Finish, Goto
    <3> HIDE DEF code
    <3>4. ASSUME NEW i \in DOMAIN otps
          PROVE  otps'[i].resets = 0 \/ (otps'[i].resets = 1 /\ Marked(i)')
      <4>1. CASE i = r.i
        BY <3>1, <3>2, <3>3, <4>1 DEF Resets, Marked
      <4>2. CASE i # r.i
        <5>1. otps'[i] = otps[i]
          BY <3>3, <4>2
        <5>2. Marked(i) => otps[i].used
          <6>1. \A t \in Slots : t # s => req[t].op # "reset"
            BY <2>1 DEF Resets, Alone
          <6>2. \A t \in Slots : t # s => req[t].pc # "reset_used"
            BY <6>1, SoundAt DEF Sound, Resetting
          <6> QED BY <4>2, <6>2 DEF Marked
        <5> QED BY <5>1, <5>2 DEF Resets, Marked
      <4> QED BY <4>1, <4>2
    <3> QED BY <1>3, <2>2, <3>3, <3>4 DEF Resetting
  <2> QED BY <1>7, <2>6, <2>7, <2>8
<1> QED BY <1>4, <1>5, <1>6, <1>7 DEF CredentialsStep

LEMMA NextResets == Inv /\ Resets /\ [CredentialsNext]_credentialsVars => Resets'
<1> SUFFICES ASSUME Inv, Resets, [CredentialsNext]_credentialsVars PROVE Resets'
  OBVIOUS
<1>0. Inv'
  BY NextInv
<1>1. CASE \E s \in Slots : CredentialsRequest(s) \/ CredentialsStep(s)
  BY <1>0, <1>1, ResetRequest, ResetStep
<1>2. CASE \E s \in Slots : CredentialsAbandon(s)
  BY <1>2 DEF CredentialsAbandon, Stops, Finish, Goto, Resets, Whole
<1>3. CASE DeleteAccount \/ UNCHANGED credentialsVars
  <2>1. UNCHANGED <<otps, req, apart, failing>>
    BY <1>3 DEF DeleteAccount, AtOnce, Arrives, credentialsVars, credentialsData, handlers
  <2> QED BY <1>0, <2>1, ResetFrame DEF SameResets
<1>4. ASSUME NEW i \in DOMAIN otps, TimePasses(i) PROVE Resets'
  <2> DEFINE code == [otps[i] EXCEPT !.expired = TRUE, !.stale = otps[i].verified]
  <2>1. code.resets = otps[i].resets /\ code.used = otps[i].used
    BY CodeType DEF OtpRows
  <2>2. otps' = [otps EXCEPT ![i] = code] /\ UNCHANGED <<req, apart, failing>>
    BY <1>4 DEF TimePasses, handlers
  <2> HIDE DEF code
  <2>3. DOMAIN otps' = DOMAIN otps /\ \A k \in DOMAIN otps : SameResets(k)
    BY <2>1, <2>2 DEF SameResets
  <2> QED BY <1>0, <2>2, <2>3, ResetFrame
<1> QED BY <1>1, <1>2, <1>3, <1>4 DEF CredentialsNext

\* With resetPassword kept from overlapping itself and not stopping halfway, a code
\* resets the password once: between the write of the password and the mark of the
\* code, no other reset can find the code.
THEOREM OneResetPerCodeAlways == CredentialsSpec => []OneResetPerCode
<1>1. Inv /\ Resets => OneResetPerCode
  BY DEF Resets, OneResetPerCode, Whole
<1> QED BY <1>1, InitInv, NextInv, InitResets, NextResets, PTL DEF CredentialsSpec
=============================================================================
