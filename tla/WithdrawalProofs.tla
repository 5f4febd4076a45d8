-------------------------- MODULE WithdrawalProofs --------------------------
(***************************************************************************)
(* What Withdrawal guarantees for every set of accounts, withdrawals,      *)
(* amounts and slots: type correctness, LedgerMatchesStatus and            *)
(* SettledIsFinal whatever overlaps, fails or dies; NeverOverdrawn when    *)
(* the transactions are kept apart; RefundedNotPaid without the faults;    *)
(* BalanceReconciles always; OnboardedAccountWasReady when the handlers    *)
(* of the account are kept apart.                                          *)
(*                                                                         *)
(* The handlers write without looking at the row again, so what makes this *)
(* true is ownership: a withdrawal is PENDING while the one handler that   *)
(* created it is in its try block, and no other handler writes it.  The    *)
(* balance is a sum over the withdrawals that are still debited, which a   *)
(* debit and a refund change by one each.                                  *)
(***************************************************************************)
EXTENDS Withdrawal, SumProofs, TLAPS

\* The program counters of the try block and its catch.
InTry == {"wd_transfer", "wd_complete", "wd_refund"}

\* What a handler in the try block can rely on.
FlightOK(r) ==
    r.pc \in InTry =>
        /\ r.wd \in WithdrawalIds
        /\ \/ withdrawals[r.wd].status = "PENDING"
           \/ /\ r.pc = "wd_refund" /\ "completion_unanswered" \in Faults
              /\ withdrawals[r.wd].status = "COMPLETED"
        /\ r.pc = "wd_transfer" => transfers[r.wd] = 0
        /\ r.pc = "wd_complete" => transfers[r.wd] = 1
        /\ r.pc = "wd_refund" /\ Faults \cap LateFaults = {} => transfers[r.wd] = 0

Flights == \A s \in Slots : FlightOK(req[s])

\* No two handlers work on one withdrawal.
OneOwner ==
    \A s, t \in Slots :
        req[s].pc \in InTry /\ req[t].pc \in InTry /\ req[s].wd = req[t].wd => s = t

Inv == TypeOK /\ Flights /\ OneOwner /\ LedgerMatchesStatus

-----------------------------------------------------------------------------
(* Types *)

LEMMA AmountType == Amounts \cup {0} \subseteq Nat
BY AmountsAssumption

\* A handler that begins, moves on or ends is still one of Requests.
LEMMA BeginType ==
    ASSUME TypeOK, NEW s \in Slots, NEW pc \in ProgramCounters,
           NEW amount \in Amounts \cup {0}, Begin(s, pc, amount)
    PROVE  /\ req' \in [Slots -> Requests]
           /\ req'[s].pc = pc
           /\ req'[s].amount = amount
           /\ \A t \in Slots : t # s => req'[t] = req[t]
<1>1. [pc |-> pc, amount |-> amount, account |-> wallet.account,
       done |-> wallet.onboarded, wd |-> None] \in Requests
  BY DEF TypeOK, Wallets, Requests
<1> QED BY <1>1 DEF Begin, TypeOK

LEMMA GotoType ==
    ASSUME TypeOK, NEW s \in Slots, NEW pc \in ProgramCounters, Goto(s, pc)
    PROVE  /\ req' \in [Slots -> Requests]
           /\ req'[s] = [req[s] EXCEPT !.pc = pc]
           /\ req'[s].pc = pc
           /\ req'[s].wd = req[s].wd
           /\ req'[s].amount = req[s].amount
           /\ \A t \in Slots : t # s => req'[t] = req[t]
BY DEF TypeOK, Goto, Requests

LEMMA FinishType ==
    ASSUME TypeOK, NEW s \in Slots, Finish(s)
    PROVE  /\ req' \in [Slots -> Requests]
           /\ req'[s].pc = "idle"
           /\ \A t \in Slots : t # s => req'[t] = req[t]
<1>1. Idle \in Requests /\ Idle.pc = "idle"
  BY DEF Idle, Requests, ProgramCounters
<1> QED BY <1>1 DEF Finish, TypeOK

\* The debit moves its handler into the try block, with the new withdrawal, or
\* ends it.
LEMMA DebitMoves ==
    ASSUME TypeOK, NEW s \in Slots, NEW w \in WithdrawalIds,
           \/ req' = [req EXCEPT ![s] = [@ EXCEPT !.pc = "wd_transfer", !.wd = w]]
           \/ Finish(s)
    PROVE  /\ req' \in [Slots -> Requests]
           /\ req'[s].pc \in {"wd_transfer", "idle"}
           /\ req'[s].pc = "wd_transfer" => req'[s].wd = w /\ req'[s].amount = req[s].amount
           /\ \A t \in Slots : t # s => req'[t] = req[t]
<1>1. req[s] \in Requests
  BY DEF TypeOK
<1>2. [req[s] EXCEPT !.pc = "wd_transfer", !.wd = w] \in Requests
  BY <1>1 DEF Requests, ProgramCounters
<1>3. CASE Finish(s)
  BY <1>3, FinishType
<1>4. CASE req' = [req EXCEPT ![s] = [@ EXCEPT !.pc = "wd_transfer", !.wd = w]]
  BY <1>1, <1>2, <1>4 DEF TypeOK, Requests
<1> QED BY <1>3, <1>4

\* The actions of one handler that book nothing.
Quiet(s) ==
    \/ \E amount \in Amounts : WithdrawRead(s, amount)
    \/ WithdrawRetrieve(s) \/ WithdrawMark(s) \/ WithdrawCheck(s)
    \/ Connect(s) \/ Die(s) \/ Fail(s)

\* Their handler stays out of the try block, and everything that is not the
\* Connect account is left alone.
Calm(s) ==
    /\ req' \in [Slots -> Requests]
    /\ \A t \in Slots : t # s => req'[t] = req[t]
    /\ req'[s].pc \notin InTry
    /\ req'[s].pc = "wd_debit" => WithdrawCheck(s)
    /\ wallet' \in Wallets
    /\ wallet'.available = wallet.available
    /\ stripe' \in [Accounts -> AccountStates]
    /\ UNCHANGED ledgerVars

LEMMA QuietIsCalm == ASSUME TypeOK, NEW s \in Slots, Quiet(s) PROVE Calm(s)
<1> USE DEF InTry, ProgramCounters
<1>1. wallet \in Wallets /\ req[s] \in Requests /\ stripe \in [Accounts -> AccountStates]
  BY DEF TypeOK
<1>2. ASSUME UNCHANGED <<wallet, stripe, ledgerVars>>, Finish(s) PROVE Calm(s)
  BY <1>1, <1>2, FinishType DEF Calm
<1>3. ASSUME UNCHANGED <<wallet, stripe, ledgerVars>>,
             NEW pc \in ProgramCounters \ (InTry \cup {"wd_debit"}), Goto(s, pc)
      PROVE  Calm(s)
  BY <1>1, <1>3, GotoType DEF Calm
<1>4. ASSUME UNCHANGED <<stripe, ledgerVars>>, wallet' \in Wallets,
             wallet'.available = wallet.available,
             NEW pc \in ProgramCounters \ (InTry \cup {"wd_debit"}),
             NEW amount \in Amounts \cup {0}, Begin(s, pc, amount)
      PROVE  Calm(s)
  BY <1>1, <1>4, BeginType DEF Calm
<1>5. ASSUME NEW amount \in Amounts, WithdrawRead(s, amount) PROVE Calm(s)
  BY <1>1, <1>4, <1>5 DEF WithdrawRead
<1>6. CASE WithdrawRetrieve(s)
  BY <1>3, <1>6 DEF WithdrawRetrieve
<1>7. CASE WithdrawMark(s)
  <2>1. wallet' \in Wallets /\ wallet'.available = wallet.available
    BY <1>1, <1>7 DEF WithdrawMark, Wallets
  <2> QED BY <1>1, <1>7, <2>1, GotoType DEF WithdrawMark, Calm
<1>8. CASE WithdrawCheck(s)
  <2>1. Goto(s, "wd_debit") /\ UNCHANGED <<wallet, stripe, ledgerVars>>
    BY <1>8 DEF WithdrawCheck
  <2> QED BY <1>1, <1>8, <2>1, GotoType DEF Calm
<1>9. CASE ClearAccount(s)
  <2>1. wallet' \in Wallets /\ wallet'.available = wallet.available
    BY <1>1, <1>9 DEF ClearAccount, Wallets
  <2>2. Finish(s) \/ Goto(s, "connect_read")
    BY <1>9 DEF ClearAccount
  <2> QED BY <1>1, <1>9, <2>1, <2>2, GotoType, FinishType DEF ClearAccount, Calm
<1>10. CASE SyncRead(s)
  BY <1>1, <1>4, <1>10 DEF SyncRead
<1>11. CASE SyncRetrieve(s)
  <2>1. CASE Goto(s, "clear")
    BY <1>3, <1>11, <2>1 DEF SyncRetrieve
  <2>2. CASE req' = [req EXCEPT ![s] = [@ EXCEPT !.pc = "mark", !.done = Ready(req[s].account)]]
    <3>1. Ready(req[s].account) \in BOOLEAN
      BY DEF Ready
    <3>2. [req[s] EXCEPT !.pc = "mark", !.done = Ready(req[s].account)] \in Requests
      BY <1>1, <3>1 DEF Requests
    <3>3. req' \in [Slots -> Requests] /\ req'[s].pc = "mark"
          /\ \A t \in Slots : t # s => req'[t] = req[t]
      BY <1>1, <2>2, <3>2 DEF TypeOK, Requests
    <3> QED BY <1>1, <1>11, <3>3 DEF SyncRetrieve, Calm
  <2> QED BY <1>11, <2>1, <2>2 DEF SyncRetrieve
<1>12. CASE SyncMark(s)
  <2>1. wallet' \in Wallets /\ wallet'.available = wallet.available
    BY <1>1, <1>12 DEF SyncMark, Wallets, Requests
  <2> QED BY <1>1, <1>12, <2>1, FinishType DEF SyncMark, Calm
<1>13. CASE ConnectEnsure(s)
  <2>1. wallet' \in Wallets /\ wallet'.available = wallet.available
    BY <1>1, <1>13 DEF ConnectEnsure, Wallets
  <2>2. CASE Begin(s, "connect_retrieve", 0)
    BY <1>4, <1>13, <2>1, <2>2 DEF ConnectEnsure
  <2>3. CASE req' = [req EXCEPT ![s] = [@ EXCEPT !.pc = "connect_retrieve",
                                                 !.account = wallet.account]]
    <3>1. [req[s] EXCEPT !.pc = "connect_retrieve", !.account = wallet.account] \in Requests
      BY <1>1 DEF Requests, Wallets
    <3>2. req' \in [Slots -> Requests] /\ req'[s].pc = "connect_retrieve"
          /\ \A t \in Slots : t # s => req'[t] = req[t]
      BY <1>1, <2>3, <3>1 DEF TypeOK, Requests
    <3> QED BY <1>1, <1>13, <2>1, <3>2 DEF ConnectEnsure, Calm
  <2> QED BY <1>13, <2>2, <2>3 DEF ConnectEnsure
<1>14. CASE ConnectRetrieve(s)
  BY <1>3, <1>14 DEF ConnectRetrieve
<1>15. CASE ConnectCreate(s)
  <2>1. PICK a \in Accounts :
          /\ stripe' = [stripe EXCEPT ![a] = "created"]
          /\ req' = [req EXCEPT ![s] = [@ EXCEPT !.pc = "connect_write", !.account = a]]
    BY <1>15 DEF ConnectCreate
  <2>2. [req[s] EXCEPT !.pc = "connect_write", !.account = a] \in Requests
    BY <1>1 DEF Requests
  <2>3. req' \in [Slots -> Requests] /\ req'[s].pc = "connect_write"
        /\ \A t \in Slots : t # s => req'[t] = req[t]
    BY <1>1, <2>1, <2>2 DEF TypeOK, Requests
  <2>4. stripe' \in [Accounts -> AccountStates]
    BY <1>1, <2>1 DEF AccountStates
  <2> QED BY <1>1, <1>15, <2>3, <2>4 DEF ConnectCreate, Calm
<1>16. CASE ConnectWrite(s)
  <2>1. wallet' \in Wallets /\ wallet'.available = wallet.available
    BY <1>1, <1>16 DEF ConnectWrite, Wallets, Requests
  <2> QED BY <1>1, <1>16, <2>1, FinishType DEF ConnectWrite, Calm
<1>17. CASE LoginRead(s)
  BY <1>1, <1>4, <1>17 DEF LoginRead
<1>18. CASE LoginRetrieve(s)
  BY <1>3, <1>18 DEF LoginRetrieve
<1>19. CASE Die(s)
  BY <1>2, <1>19 DEF Die
<1>20. CASE Fail(s)
  BY <1>2, <1>20 DEF Fail
<1> QED BY <1>5, <1>6, <1>7, <1>8, <1>9, <1>10, <1>11, <1>12, <1>13, <1>14, <1>15,
           <1>16, <1>17, <1>18, <1>19, <1>20 DEF Quiet, Connect

-----------------------------------------------------------------------------
(* The invariant *)

\* What LedgerMatchesStatus says of one withdrawal.
LedgerOK(w) ==
    LET st == withdrawals[w].status
    IN  /\ debitRows[w]  = IF st = "NONE" THEN 0 ELSE 1
        /\ refundRows[w] = IF st = "FAILED" THEN 1 ELSE 0
        /\ st = "COMPLETED" => transfers[w] = 1
        /\ transfers[w] <= IF st = "NONE" THEN 0 ELSE 1

LEMMA LedgerIsOK == LedgerMatchesStatus <=> \A w \in WithdrawalIds : LedgerOK(w)
BY DEF LedgerMatchesStatus, LedgerOK

\* A step that books nothing keeps the invariant.
LEMMA CalmStep == ASSUME Inv, NEW s \in Slots, Calm(s) PROVE Inv'
<1>1. TypeOK'
  BY DEF Inv, TypeOK, Calm, ledgerVars
<1>2. Flights'
  BY DEF Inv, Flights, FlightOK, Calm, ledgerVars
<1>3. OneOwner'
  BY DEF Inv, OneOwner, Calm
<1>4. LedgerMatchesStatus'
  BY DEF Inv, LedgerMatchesStatus, Calm, ledgerVars
<1> QED BY <1>1, <1>2, <1>3, <1>4 DEF Inv

\* Stripe, its webhooks and the earnings.
Outside ==
    \/ \E a \in Accounts : \/ FinishOnboarding(a) \/ DeleteAccount(a)
                           \/ WebhookReady(a) \/ WebhookDeleted(a)
    \/ \E amount \in Amounts : Earn(amount)

LEMMA OutsideType == ASSUME TypeOK, Outside PROVE TypeOK'
<1>1. wallet \in Wallets /\ stripe \in [Accounts -> AccountStates]
  BY DEF TypeOK
<1>2. ASSUME NEW a \in Accounts, FinishOnboarding(a) PROVE TypeOK'
  BY <1>2 DEF FinishOnboarding, TypeOK, AccountStates, ledgerVars
<1>3. ASSUME NEW a \in Accounts, DeleteAccount(a) PROVE TypeOK'
  BY <1>3 DEF DeleteAccount, TypeOK, AccountStates, ledgerVars
<1>4. ASSUME NEW a \in Accounts, WebhookReady(a) PROVE TypeOK'
  <2>1. wallet' \in Wallets
    BY <1>1, <1>4 DEF WebhookReady, Wallets
  <2> QED BY <1>4, <2>1 DEF WebhookReady, TypeOK, ledgerVars
<1>5. ASSUME NEW a \in Accounts, WebhookDeleted(a) PROVE TypeOK'
  <2>1. wallet' \in Wallets
    BY <1>1, <1>5 DEF WebhookDeleted, Wallets
  <2> QED BY <1>5, <2>1 DEF WebhookDeleted, TypeOK, ledgerVars
<1>6. ASSUME NEW amount \in Amounts, Earn(amount) PROVE TypeOK'
  <2>1. amount \in Nat
    BY AmountsAssumption
  <2>2. wallet.available \in Int /\ wallet.available + amount \in Int
    BY <1>1, <2>1 DEF Wallets
  <2>3. wallet' = [wallet EXCEPT !.exists = TRUE, !.available = wallet.available + amount]
    BY <1>6 DEF Earn
  <2>4. wallet' \in Wallets
    BY <1>1, <2>2, <2>3 DEF Wallets
  <2>5. earned' \in Nat
    BY <1>6, <2>1 DEF Earn, TypeOK
  <2> QED BY <1>6, <2>4, <2>5 DEF Earn, TypeOK
<1> QED BY <1>2, <1>3, <1>4, <1>5, <1>6 DEF Outside

LEMMA OutsideStep == ASSUME Inv, Outside PROVE Inv'
<1>1. TypeOK'
  BY OutsideType DEF Inv
<1>2. UNCHANGED <<withdrawals, debitRows, refundRows, transfers, req>>
  BY DEF Outside, FinishOnboarding, DeleteAccount, WebhookReady, WebhookDeleted, Earn,
         ledgerVars
<1>3. Flights' /\ OneOwner' /\ LedgerMatchesStatus'
  BY <1>2 DEF Inv, Flights, FlightOK, OneOwner, LedgerMatchesStatus
<1> QED BY <1>1, <1>3 DEF Inv

\* A step of slot s that books on withdrawal w, which no other handler owns,
\* keeps the invariant when it leaves s and w in order.
LEMMA OwnerStep ==
    ASSUME Inv, TypeOK', NEW s \in Slots, NEW w \in WithdrawalIds,
           \A t \in Slots : t # s => req'[t] = req[t],
           \A t \in Slots : t # s /\ req[t].pc \in InTry => req[t].wd # w,
           req'[s].pc \in InTry => req'[s].wd = w,
           \A v \in WithdrawalIds : v # w => /\ withdrawals'[v] = withdrawals[v]
                                             /\ debitRows'[v] = debitRows[v]
                                             /\ refundRows'[v] = refundRows[v]
                                             /\ transfers'[v] = transfers[v],
           FlightOK(req[s])', LedgerOK(w)'
    PROVE  Inv'
<1>1. Flights'
  <2> SUFFICES ASSUME NEW t \in Slots PROVE FlightOK(req[t])'
    BY DEF Flights
  <2>1. CASE t = s
    BY <2>1
  <2>2. CASE t # s
    BY <2>2 DEF Inv, Flights, FlightOK
  <2> QED BY <2>1, <2>2
<1>2. OneOwner'
  BY DEF Inv, OneOwner
<1>3. LedgerMatchesStatus'
  <2>1. ASSUME NEW v \in WithdrawalIds, v # w PROVE LedgerOK(v)'
    <3>1. LedgerOK(v)
      BY LedgerIsOK DEF Inv
    <3> QED BY <2>1, <3>1 DEF LedgerOK
  <2>2. \A v \in WithdrawalIds : LedgerOK(v)'
    BY <2>1
  <2> QED BY <2>2 DEF LedgerMatchesStatus, LedgerOK
<1> QED BY <1>1, <1>2, <1>3 DEF Inv

\* The handler in the try block owns its withdrawal.
LEMMA OwnerFacts ==
    ASSUME Inv, NEW s \in Slots, req[s].pc \in InTry
    PROVE  /\ req[s].wd \in WithdrawalIds
           /\ \/ withdrawals[req[s].wd].status = "PENDING"
              \/ /\ req[s].pc = "wd_refund" /\ "completion_unanswered" \in Faults
                 /\ withdrawals[req[s].wd].status = "COMPLETED"
           /\ \A t \in Slots : t # s /\ req[t].pc \in InTry => req[t].wd # req[s].wd
           /\ LedgerOK(req[s].wd)
<1>1. FlightOK(req[s])
  BY DEF Inv, Flights
<1>2. /\ req[s].wd \in WithdrawalIds
      /\ \/ withdrawals[req[s].wd].status = "PENDING"
         \/ /\ req[s].pc = "wd_refund" /\ "completion_unanswered" \in Faults
            /\ withdrawals[req[s].wd].status = "COMPLETED"
  BY <1>1 DEF FlightOK
<1>3. \A t \in Slots : t # s /\ req[t].pc \in InTry => req[t].wd # req[s].wd
  BY DEF Inv, OneOwner
<1>4. LedgerOK(req[s].wd)
  BY <1>2, LedgerIsOK DEF Inv
<1> QED BY <1>2, <1>3, <1>4

LEMMA DebitStep == ASSUME Inv, NEW s \in Slots, WithdrawDebit(s) PROVE Inv'
<1> USE DEF InTry
<1>1. PICK w \in WithdrawalIds :
        /\ withdrawals[w].status = "NONE"
        /\ withdrawals' = [withdrawals EXCEPT ![w] =
                             [status |-> "PENDING", amount |-> req[s].amount]]
        /\ debitRows' = [debitRows EXCEPT ![w] = @ + 1]
        /\ \/ req' = [req EXCEPT ![s] = [@ EXCEPT !.pc = "wd_transfer", !.wd = w]]
           \/ Finish(s)
  BY DEF WithdrawDebit
<1>2. wallet \in Wallets /\ req[s] \in Requests
  BY DEF Inv, TypeOK
<1>4. /\ req' \in [Slots -> Requests]
      /\ req'[s].pc \in {"wd_transfer", "idle"}
      /\ req'[s].pc = "wd_transfer" => req'[s].wd = w
      /\ \A t \in Slots : t # s => req'[t] = req[t]
  BY <1>1, DebitMoves DEF Inv
<1>5. wallet' \in Wallets
  <2>1. req[s].amount \in Int
    BY <1>2, AmountType DEF Requests
  <2> QED BY <1>2, <2>1 DEF WithdrawDebit, Wallets
<1>6. withdrawals' \in [WithdrawalIds -> Withdrawals]
  BY <1>1, <1>2 DEF Inv, TypeOK, Requests, Withdrawals, Statuses
<1>7. TypeOK'
  BY <1>1, <1>4, <1>5, <1>6 DEF Inv, TypeOK, WithdrawDebit
<1>8. LedgerOK(w)
  BY LedgerIsOK DEF Inv
<1>9. withdrawals'[w].status = "PENDING" /\ debitRows'[w] = debitRows[w] + 1
      /\ refundRows'[w] = refundRows[w] /\ transfers'[w] = transfers[w]
  BY <1>1 DEF Inv, TypeOK, WithdrawDebit
<1>10. debitRows[w] = 0 /\ refundRows[w] = 0 /\ transfers[w] = 0
  BY <1>1, <1>8 DEF LedgerOK, Inv, TypeOK
<1>11. LedgerOK(w)'
  BY <1>9, <1>10 DEF LedgerOK
<1>12. FlightOK(req[s])'
  BY <1>4, <1>9, <1>10 DEF FlightOK
<1>13. \A t \in Slots : t # s /\ req[t].pc \in InTry => req[t].wd # w
  BY <1>1 DEF Inv, Flights, FlightOK
<1>14. \A v \in WithdrawalIds : v # w => /\ withdrawals'[v] = withdrawals[v]
                                         /\ debitRows'[v] = debitRows[v]
                                         /\ refundRows'[v] = refundRows[v]
                                         /\ transfers'[v] = transfers[v]
  BY <1>1 DEF Inv, TypeOK, WithdrawDebit
<1> QED BY <1>4, <1>7, <1>11, <1>12, <1>13, <1>14, OwnerStep

LEMMA TransferStep == ASSUME Inv, NEW s \in Slots, WithdrawTransfer(s) PROVE Inv'
<1> USE DEF InTry
<1>1. req[s].pc = "wd_transfer" /\ wallet \in Wallets
  BY DEF WithdrawTransfer, At, Inv, TypeOK
<1>2. PICK w \in WithdrawalIds :
      /\ w = req[s].wd /\ withdrawals[w].status = "PENDING"
      /\ \A t \in Slots : t # s /\ req[t].pc \in InTry => req[t].wd # w
      /\ LedgerOK(w)
  BY <1>1, OwnerFacts
<1>3. transfers[w] = 0
  BY <1>1, <1>2 DEF Inv, Flights, FlightOK
<1>4. PICK pc \in {"wd_complete", "wd_refund"} :
        /\ Goto(s, pc)
        /\ \/ /\ transfers' = [transfers EXCEPT ![w] = @ + 1]
              /\ pc = "wd_refund" => Faults \cap LateFaults # {}
           \/ pc = "wd_refund" /\ UNCHANGED transfers
  BY <1>2 DEF WithdrawTransfer, LateFaults
<1>5. /\ req' \in [Slots -> Requests]
      /\ req'[s].pc = pc /\ req'[s].wd = w
      /\ \A t \in Slots : t # s => req'[t] = req[t]
  BY <1>2, <1>4, GotoType DEF Inv, ProgramCounters
<1>6. UNCHANGED <<wallet, stripe, earned, withdrawals, debitRows, refundRows>>
  BY DEF WithdrawTransfer
<1>7. /\ transfers' \in [WithdrawalIds -> Nat]
      /\ \A v \in WithdrawalIds : v # w => transfers'[v] = transfers[v]
      /\ transfers'[w] \in {0, 1}
      /\ pc = "wd_complete" => transfers'[w] = 1
      /\ pc = "wd_refund" /\ Faults \cap LateFaults = {} => transfers'[w] = 0
  BY <1>2, <1>3, <1>4 DEF Inv, TypeOK
<1>8. TypeOK'
  BY <1>5, <1>6, <1>7 DEF Inv, TypeOK
<1>9. LedgerOK(w)'
  BY <1>2, <1>6, <1>7 DEF LedgerOK
<1>10. FlightOK(req[s])'
  BY <1>2, <1>5, <1>6, <1>7 DEF FlightOK
<1> QED BY <1>2, <1>5, <1>6, <1>7, <1>8, <1>9, <1>10, OwnerStep

LEMMA CompleteStep == ASSUME Inv, NEW s \in Slots, WithdrawComplete(s) PROVE Inv'
<1> USE DEF InTry
<1>1. req[s].pc = "wd_complete"
  BY DEF WithdrawComplete, At
<1>2. PICK w \in WithdrawalIds :
      /\ w = req[s].wd /\ withdrawals[w].status = "PENDING"
      /\ \A t \in Slots : t # s /\ req[t].pc \in InTry => req[t].wd # w
      /\ LedgerOK(w)
  BY <1>1, OwnerFacts
<1>3. transfers[w] = 1
  BY <1>1, <1>2 DEF Inv, Flights, FlightOK
<1>4. UNCHANGED <<wallet, stripe, earned, debitRows, refundRows, transfers>>
  BY DEF WithdrawComplete
<1>5. CASE /\ withdrawals' = [withdrawals EXCEPT ![w].status = "COMPLETED"]
           /\ Finish(s) \/ ("completion_unanswered" \in Faults /\ Goto(s, "wd_refund"))
  <2>1. /\ withdrawals' \in [WithdrawalIds -> Withdrawals]
        /\ withdrawals'[w].status = "COMPLETED"
        /\ \A v \in WithdrawalIds : v # w => withdrawals'[v] = withdrawals[v]
    BY <1>2, <1>5 DEF Inv, TypeOK, Withdrawals, Statuses
  <2>2. /\ req' \in [Slots -> Requests]
        /\ \/ req'[s].pc = "idle"
           \/ /\ req'[s].pc = "wd_refund" /\ req'[s].wd = w
              /\ "completion_unanswered" \in Faults
        /\ \A t \in Slots : t # s => req'[t] = req[t]
    BY <1>2, <1>5, FinishType, GotoType DEF Inv, ProgramCounters
  <2>3. TypeOK'
    BY <1>4, <2>1, <2>2 DEF Inv, TypeOK
  <2>4. LedgerOK(w)'
    BY <1>2, <1>3, <1>4, <2>1 DEF LedgerOK
  <2>5. FlightOK(req[s])'
    BY <1>2, <2>1, <2>2 DEF FlightOK, LateFaults
  <2> QED BY <1>2, <1>4, <2>1, <2>2, <2>3, <2>4, <2>5, OwnerStep
<1>6. CASE "completion_fails" \in Faults /\ Goto(s, "wd_refund") /\ UNCHANGED withdrawals
  <2>1. /\ req' \in [Slots -> Requests]
        /\ req'[s].pc = "wd_refund" /\ req'[s].wd = w
        /\ \A t \in Slots : t # s => req'[t] = req[t]
    BY <1>2, <1>6, GotoType DEF Inv, ProgramCounters
  <2>2. TypeOK'
    BY <1>4, <1>6, <2>1 DEF Inv, TypeOK
  <2>3. LedgerOK(w)'
    BY <1>2, <1>4, <1>6 DEF LedgerOK
  <2>4. FlightOK(req[s])'
    BY <1>2, <1>4, <1>6, <2>1 DEF FlightOK, LateFaults
  <2> QED BY <1>2, <1>4, <1>6, <2>1, <2>2, <2>3, <2>4, OwnerStep
<1> QED BY <1>2, <1>5, <1>6 DEF WithdrawComplete

LEMMA RefundStep == ASSUME Inv, NEW s \in Slots, WithdrawRefund(s) PROVE Inv'
<1> USE DEF InTry
<1>1. req[s].pc = "wd_refund" /\ wallet \in Wallets /\ req[s] \in Requests
  BY DEF WithdrawRefund, At, Inv, TypeOK
<1>2. PICK w \in WithdrawalIds :
      /\ w = req[s].wd /\ withdrawals[w].status \in {"PENDING", "COMPLETED"}
      /\ \A t \in Slots : t # s /\ req[t].pc \in InTry => req[t].wd # w
      /\ LedgerOK(w)
  BY <1>1, OwnerFacts
<1>3. UNCHANGED <<stripe, earned, debitRows, transfers>>
  BY DEF WithdrawRefund
<1>4. /\ withdrawals' \in [WithdrawalIds -> Withdrawals]
      /\ withdrawals'[w].status = "FAILED"
      /\ \A v \in WithdrawalIds : v # w => withdrawals'[v] = withdrawals[v]
  BY <1>2 DEF WithdrawRefund, Inv, TypeOK, Withdrawals, Statuses
<1>5. /\ refundRows' \in [WithdrawalIds -> Nat]
      /\ refundRows'[w] = refundRows[w] + 1
      /\ \A v \in WithdrawalIds : v # w => refundRows'[v] = refundRows[v]
  BY <1>2 DEF WithdrawRefund, Inv, TypeOK
<1>6. wallet' \in Wallets
  <2>1. wallet.available \in Int /\ req[s].amount \in Int
    BY <1>1, AmountType DEF Requests, Wallets
  <2> QED BY <1>1, <2>1 DEF WithdrawRefund, Wallets
<1>7. /\ req' \in [Slots -> Requests]
      /\ req'[s].pc = "idle"
      /\ \A t \in Slots : t # s => req'[t] = req[t]
  BY FinishType DEF WithdrawRefund, Inv
<1>8. TypeOK'
  BY <1>3, <1>4, <1>5, <1>6, <1>7 DEF Inv, TypeOK
<1>9. LedgerOK(w)'
  BY <1>2, <1>3, <1>4, <1>5 DEF LedgerOK
<1>10. FlightOK(req[s])'
  BY <1>7 DEF FlightOK
<1> QED BY <1>2, <1>3, <1>4, <1>5, <1>7, <1>8, <1>9, <1>10, OwnerStep

\* Which steps there are: those that book nothing, the four that do, and those
\* from outside.
LEMMA StepSplit ==
    ASSUME Next
    PROVE  \/ \E s \in Slots : \/ Quiet(s)
                               \/ WithdrawDebit(s) \/ WithdrawTransfer(s)
                               \/ WithdrawComplete(s) \/ WithdrawRefund(s)
           \/ Outside
BY DEF Next, Withdraw, Quiet, Outside

LEMMA InvStep == Inv /\ [Next]_vars => Inv'
<1> SUFFICES ASSUME Inv, [Next]_vars PROVE Inv'
  OBVIOUS
<1>1. CASE UNCHANGED vars
  BY <1>1 DEF Inv, TypeOK, Flights, FlightOK, OneOwner, LedgerMatchesStatus, vars
<1>2. ASSUME NEW s \in Slots, Quiet(s) PROVE Inv'
  BY <1>2, QuietIsCalm, CalmStep DEF Inv
<1>3. CASE Outside
  BY <1>3, OutsideStep
<1> QED BY <1>1, <1>2, <1>3, StepSplit, DebitStep, TransferStep, CompleteStep, RefundStep

LEMMA InvInit == Init => Inv
<1> SUFFICES ASSUME Init PROVE Inv
  OBVIOUS
<1>1. TypeOK
  BY DEF Init, TypeOK, Wallets, AccountStates, Withdrawals, Statuses, Requests, Idle,
         ProgramCounters
<1>2. Flights /\ OneOwner
  BY DEF Init, Flights, FlightOK, OneOwner, Idle, InTry
<1>3. LedgerMatchesStatus
  BY DEF Init, LedgerMatchesStatus
<1> QED BY <1>1, <1>2, <1>3 DEF Inv

-----------------------------------------------------------------------------
(* Theorems *)

\* Every handler in the try block owns a withdrawal, whatever happens: PENDING, or
\* COMPLETED if the answer to that was lost and the catch block is about to strike it.
THEOREM InvAlways == Spec => []Inv
BY InvInit, InvStep, PTL DEF Spec

\* The wallet, its account, withdrawals and handlers keep their types.
THEOREM TypeCorrect == Spec => []TypeOK
BY InvAlways, PTL DEF Inv

\* A withdrawal's debit, refund and transfer agree with its status, for any
\* number of withdrawals however they overlap, fail or are cut short.
THEOREM LedgerMatchesStatusAlways == Spec => []LedgerMatchesStatus
BY InvAlways, PTL DEF Inv

-----------------------------------------------------------------------------
(* Consequences of the invariant *)

\* Only the four booking steps touch the rows, each those of a withdrawal that
\* is not settled.
LEMMA RowsOnlyByOwner ==
    ASSUME Inv, [Next]_vars, UNCHANGED <<withdrawals, refundRows, transfers>> => FALSE
    PROVE  \E s \in Slots : \/ WithdrawDebit(s)
                            \/ req[s].pc \in InTry /\ \/ WithdrawTransfer(s)
                                                      \/ WithdrawComplete(s)
                                                      \/ WithdrawRefund(s)
<1>1. ~UNCHANGED vars
  BY DEF vars
<1>2. ASSUME NEW s \in Slots, Quiet(s) PROVE FALSE
  BY <1>2, QuietIsCalm DEF Inv, Calm, ledgerVars
<1>3. ~Outside
  BY DEF Outside, FinishOnboarding, DeleteAccount, WebhookReady, WebhookDeleted, Earn,
         ledgerVars
<1>4. Next
  BY <1>1
<1> QED BY <1>2, <1>3, <1>4, StepSplit
        DEF InTry, WithdrawTransfer, WithdrawComplete, WithdrawRefund, At

\* When no call fails after the money left, nothing is paid and refunded.
THEOREM RefundedNotPaidAlways ==
    ASSUME Faults \cap LateFaults = {} PROVE Spec => []RefundedNotPaid
<1>1. Init => RefundedNotPaid
  BY DEF Init, RefundedNotPaid
<1>2. ASSUME Inv, RefundedNotPaid, [Next]_vars PROVE RefundedNotPaid'
  <2> SUFFICES ASSUME ~UNCHANGED <<withdrawals, refundRows, transfers>>
               PROVE  RefundedNotPaid'
    BY <1>2 DEF RefundedNotPaid
  <2>1. PICK s \in Slots : \/ WithdrawDebit(s)
                           \/ req[s].pc \in InTry /\ \/ WithdrawTransfer(s)
                                                     \/ WithdrawComplete(s)
                                                     \/ WithdrawRefund(s)
    BY <1>2, RowsOnlyByOwner
  <2>2. CASE WithdrawDebit(s) \/ WithdrawComplete(s)
    BY <1>2, <2>2 DEF WithdrawDebit, WithdrawComplete, RefundedNotPaid
  <2>3. CASE req[s].pc \in InTry /\ WithdrawTransfer(s)
    <3>1. PICK w \in WithdrawalIds : w = req[s].wd /\ withdrawals[w].status = "PENDING"
      BY <1>2, <2>3, OwnerFacts DEF WithdrawTransfer, At
    <3>2. refundRows[w] = 0
      BY <1>2, <3>1 DEF Inv, LedgerMatchesStatus
    <3>3. /\ UNCHANGED refundRows
          /\ \A v \in WithdrawalIds : v # w => transfers'[v] = transfers[v]
      BY <1>2, <2>3, <3>1 DEF WithdrawTransfer, Inv, TypeOK
    <3> QED BY <1>2, <3>2, <3>3 DEF RefundedNotPaid
  <2>4. CASE req[s].pc \in InTry /\ WithdrawRefund(s)
    <3>1. PICK w \in WithdrawalIds : w = req[s].wd
      BY <1>2, <2>4, OwnerFacts
    <3>2. transfers[w] = 0
      BY <1>2, <2>4, <3>1 DEF WithdrawRefund, At, Inv, Flights, FlightOK
    <3>3. /\ UNCHANGED transfers
          /\ \A v \in WithdrawalIds : v # w => refundRows'[v] = refundRows[v]
      BY <1>2, <2>4, <3>1 DEF WithdrawRefund, Inv, TypeOK
    <3> QED BY <1>2, <3>2, <3>3 DEF RefundedNotPaid
  <2> QED BY <2>1, <2>2, <2>3, <2>4
<1> QED BY <1>1, <1>2, InvAlways, PTL DEF Spec

-----------------------------------------------------------------------------
(* The balance *)

\* With the transactions kept apart, the one that has read the balance can
\* still pay from it.
Covered ==
    /\ NeverOverdrawn
    /\ \A s \in Slots : At(s, "wd_debit") => req[s].amount <= wallet.available
    /\ \A s, t \in Slots : At(s, "wd_debit") /\ At(t, "wd_debit") => s = t

LEMMA CoveredQuiet ==
    ASSUME "debit" \in Serialised, Inv, Covered, NEW s \in Slots, Quiet(s)
    PROVE  Covered'
<1>1. Calm(s)
  BY QuietIsCalm DEF Inv
<1>2. CASE req'[s].pc # "wd_debit"
  BY <1>1, <1>2 DEF Covered, NeverOverdrawn, Calm, At
<1>3. CASE req'[s].pc = "wd_debit"
  <2>1. WithdrawCheck(s)
    BY <1>1, <1>3 DEF Calm
  <2>2. \A t \in Slots : ~At(t, "wd_debit")
    BY <2>1 DEF WithdrawCheck, MayReadBalance
  <2>3. req'[s].amount = req[s].amount
    BY <2>1, GotoType DEF WithdrawCheck, Inv, ProgramCounters
  <2>4. req[s].amount <= wallet.available
    <3>1. wallet.available \in Int /\ req[s].amount \in Int
      BY AmountType DEF Inv, TypeOK, Wallets, Requests
    <3> QED BY <2>1, <3>1 DEF WithdrawCheck
  <2> QED BY <1>1, <2>2, <2>3, <2>4 DEF Covered, NeverOverdrawn, Calm, At
<1> QED BY <1>2, <1>3

LEMMA CoveredDebit ==
    ASSUME Inv, Covered, NEW s \in Slots, WithdrawDebit(s) PROVE Covered'
<1>1. At(s, "wd_debit") /\ req[s].amount <= wallet.available
  BY DEF WithdrawDebit, Covered
<1>2. wallet.available \in Int /\ req[s].amount \in Int
  BY AmountType DEF Inv, TypeOK, Wallets, Requests
<1>3. wallet'.available = wallet.available - req[s].amount
  BY DEF WithdrawDebit, Inv, TypeOK, Wallets
<1>4. wallet'.available >= 0
  BY <1>1, <1>2, <1>3
<1>5. req'[s].pc # "wd_debit" /\ \A t \in Slots : t # s => req'[t] = req[t]
  BY DebitMoves DEF WithdrawDebit, Inv
<1>6. \A t \in Slots : ~At(t, "wd_debit")'
  BY <1>1, <1>5 DEF Covered, At
<1> QED BY <1>4, <1>6 DEF Covered, NeverOverdrawn

\* The other steps leave the balance as it is or raise it, and bring nobody to
\* the debit.
LEMMA CoveredOther ==
    ASSUME Inv, Covered,
           wallet'.available \in Int, wallet'.available >= wallet.available,
           \A t \in Slots : req'[t] = req[t] \/ req'[t].pc # "wd_debit"
    PROVE  Covered'
<1>1. wallet.available \in Int /\ \A t \in Slots : req[t].amount \in Int
  BY AmountType DEF Inv, TypeOK, Wallets, Requests
<1>2. \A t \in Slots : At(t, "wd_debit")' => At(t, "wd_debit") /\ req'[t] = req[t]
  BY DEF At
<1>3. wallet'.available >= 0
  BY <1>1 DEF Covered, NeverOverdrawn
<1>4. ASSUME NEW t \in Slots, At(t, "wd_debit")' PROVE req'[t].amount <= wallet'.available
  BY <1>1, <1>2, <1>4 DEF Covered
<1> QED BY <1>2, <1>3, <1>4 DEF Covered, NeverOverdrawn

LEMMA CoveredStep ==
    ASSUME "debit" \in Serialised, Inv, Covered, [Next]_vars PROVE Covered'
<1>1. wallet.available \in Int /\ wallet \in Wallets
  BY DEF Inv, TypeOK, Wallets
<1>2. CASE UNCHANGED vars
  BY <1>2 DEF vars, Covered, NeverOverdrawn, At
<1>3. CASE Outside
  <2>1. UNCHANGED req
    BY <1>3 DEF Outside, FinishOnboarding, DeleteAccount, WebhookReady, WebhookDeleted, Earn
  <2>2. ASSUME NEW amount \in Amounts, Earn(amount)
        PROVE  wallet'.available \in Int /\ wallet'.available >= wallet.available
    <3>1. amount \in Nat
      BY AmountType
    <3>2. wallet'.available = wallet.available + amount
      BY <1>1, <2>2 DEF Earn, Wallets
    <3> QED BY <1>1, <3>1, <3>2
  <2>3. ASSUME NEW a \in Accounts, \/ FinishOnboarding(a) \/ DeleteAccount(a)
                                  \/ WebhookReady(a) \/ WebhookDeleted(a)
        PROVE  wallet'.available = wallet.available
    BY <1>1, <2>3 DEF FinishOnboarding, DeleteAccount, WebhookReady, WebhookDeleted, Wallets
  <2> QED BY <1>1, <1>3, <2>1, <2>2, <2>3, CoveredOther DEF Outside
<1>4. ASSUME NEW s \in Slots, WithdrawTransfer(s) \/ WithdrawComplete(s) PROVE Covered'
  <2>1. UNCHANGED wallet
    BY <1>4 DEF WithdrawTransfer, WithdrawComplete
  <2>2. \/ Goto(s, "wd_complete") \/ Goto(s, "wd_refund") \/ Finish(s)
    BY <1>4 DEF WithdrawTransfer, WithdrawComplete
  <2>3. req'[s].pc # "wd_debit" /\ \A t \in Slots : t # s => req'[t] = req[t]
    BY <2>2, GotoType, FinishType DEF Inv, ProgramCounters
  <2> QED BY <1>1, <2>1, <2>3, CoveredOther
<1>5. ASSUME NEW s \in Slots, WithdrawRefund(s) PROVE Covered'
  <2>1. req[s].amount \in Nat
    BY AmountType DEF Inv, TypeOK, Requests
  <2>2. wallet'.available = wallet.available + req[s].amount
    BY <1>1, <1>5 DEF WithdrawRefund, Wallets
  <2>3. req'[s].pc # "wd_debit" /\ \A t \in Slots : t # s => req'[t] = req[t]
    BY <1>5, FinishType DEF WithdrawRefund, Inv
  <2> QED BY <1>1, <2>1, <2>2, <2>3, CoveredOther
<1> QED BY <1>2, <1>3, <1>4, <1>5, StepSplit, CoveredQuiet, CoveredDebit

\* With the withdrawal transactions kept apart the balance never goes below
\* zero, for any number of handlers.
THEOREM NeverOverdrawnAlways ==
    ASSUME "debit" \in Serialised PROVE Spec => []NeverOverdrawn
<1>1. Init => Covered
  BY DEF Init, Covered, NeverOverdrawn, At, Idle
<1>2. ASSUME Inv, Covered, [Next]_vars PROVE Covered'
  BY <1>2, CoveredStep
<1>3. Covered => NeverOverdrawn
  BY DEF Covered
<1> QED BY <1>1, <1>2, <1>3, InvAlways, PTL DEF Spec
-----------------------------------------------------------------------------
(* The books.  The balance is a sum over the booked withdrawals; the step   *)
(* that takes the money and the one that gives it back each move one        *)
(* withdrawal in or out of them, and the handler that gives back knows the  *)
(* amount that was taken.                                                   *)

AmountOf == [w \in WithdrawalIds |-> withdrawals[w].amount]

\* A handler in the try block would give back what it took.
Owed == \A s \in Slots : req[s].pc \in InTry => withdrawals[req[s].wd].amount = req[s].amount

Reconciled ==
    /\ IsFiniteSet(Booked)
    /\ wallet.available = earned - Total(AmountOf, Booked)

Books == Owed /\ Reconciled

\* The sum the property is stated with is the total of the amounts.
LEMMA BookedSum ==
    ASSUME NEW S \in SUBSET WithdrawalIds, IsFiniteSet(S)
    PROVE  MapThenSumSet(LAMBDA w : withdrawals[w].amount, S) = Total(AmountOf, S)
<1> DEFINE AddsUp(g) ==
      g = [s \in SUBSET S |->
             IF s = {} THEN 0 ELSE withdrawals[Pick(s)].amount + g[s \ {Pick(s)}]]
<1>1. MapThenSumSet(LAMBDA w : withdrawals[w].amount, S) = (CHOOSE g : AddsUp(g))[S]
  BY DEF MapThenSumSet, MapThenFoldSet, Pick
<1>2. \A s \in SUBSET S : s # {} => AmountOf[Pick(s)] = withdrawals[Pick(s)].amount
  BY DEF AmountOf, Pick
<1>3. ASSUME NEW g PROVE AddsUp(g) <=> Adds(g, AmountOf, S)
  <2>1. [s \in SUBSET S |->
           IF s = {} THEN 0 ELSE withdrawals[Pick(s)].amount + g[s \ {Pick(s)}]]
        = [s \in SUBSET S |-> IF s = {} THEN 0 ELSE AmountOf[Pick(s)] + g[s \ {Pick(s)}]]
    BY <1>2
  <2> QED BY <2>1 DEF Adds
<1>4. PICK h : h = CHOOSE g : AddsUp(g)
  OBVIOUS
<1>5. Adds(h, AmountOf, S)
  <2>1. \E g : AddsUp(g)
    BY <1>3, AddsExists
  <2>2. AddsUp(h)
    <3> HIDE DEF AddsUp
    <3> QED BY <1>4, <2>1
  <2> HIDE DEF AddsUp
  <2> QED BY <1>3, <2>2
<1> HIDE DEF AddsUp
<1> QED BY <1>1, <1>4, <1>5, AddsTotal

LEMMA AmountOfType == ASSUME TypeOK PROVE \A w \in WithdrawalIds : AmountOf[w] \in Int
BY AmountType DEF AmountOf, TypeOK, Withdrawals

\* A step that leaves the rows' amounts and the set of booked ones alone keeps
\* the books when balance and earnings move together.
LEMMA ReconciledStable ==
    ASSUME TypeOK, Reconciled, NEW d \in Int,
           \A w \in WithdrawalIds : withdrawals'[w].amount = withdrawals[w].amount,
           Booked' = Booked,
           wallet'.available = wallet.available + d, earned' = earned + d
    PROVE  Reconciled'
<1>1. Total(AmountOf, Booked) \in Int
  BY AmountOfType, TotalType DEF Reconciled, Booked
<1>2. AmountOf' = AmountOf
  BY DEF AmountOf
<1>3. earned \in Int /\ wallet.available = earned - Total(AmountOf, Booked)
  BY DEF TypeOK, Reconciled
<1>4. \A b \in Int : (earned - b) + d = (earned + d) - b
  BY <1>3
<1> QED BY <1>1, <1>2, <1>3, <1>4 DEF Reconciled

LEMMA BooksDebit ==
    ASSUME Inv, Books, NEW s \in Slots, WithdrawDebit(s) PROVE Books'
<1> USE DEF InTry
<1>1. PICK w \in WithdrawalIds :
        /\ withdrawals[w].status = "NONE"
        /\ withdrawals' = [withdrawals EXCEPT ![w] =
                             [status |-> "PENDING", amount |-> req[s].amount]]
        /\ debitRows' = [debitRows EXCEPT ![w] = @ + 1]
        /\ \/ req' = [req EXCEPT ![s] = [@ EXCEPT !.pc = "wd_transfer", !.wd = w]]
           \/ Finish(s)
  BY DEF WithdrawDebit
<1>2. /\ wallet \in Wallets /\ req[s] \in Requests /\ TypeOK
      /\ withdrawals \in [WithdrawalIds -> Withdrawals]
  BY DEF Inv, TypeOK
<1>3. /\ req'[s].pc \in InTry => req'[s].wd = w /\ req'[s].amount = req[s].amount
      /\ \A t \in Slots : t # s => req'[t] = req[t]
  BY <1>1, <1>2, DebitMoves DEF InTry
<1>4. /\ withdrawals'[w].status = "PENDING" /\ withdrawals'[w].amount = req[s].amount
      /\ \A v \in WithdrawalIds : v # w => withdrawals'[v] = withdrawals[v]
  BY <1>1, <1>2
<1>5. Owed'
  <2>1. \A t \in Slots : req[t].pc \in InTry => req[t].wd \in WithdrawalIds /\ req[t].wd # w
    BY <1>1, OwnerFacts
  <2> QED BY <1>3, <1>4, <2>1 DEF Books, Owed
<1>6. w \notin Booked /\ Booked' = Booked \cup {w}
  BY <1>1, <1>4 DEF Booked
<1>7. IsFiniteSet(Booked) /\ IsFiniteSet(Booked')
  BY <1>6, FS_AddElement DEF Books, Reconciled
<1>8. \A v \in Booked : AmountOf'[v] = AmountOf[v]
  BY <1>4, <1>6 DEF AmountOf, Booked
<1>9. AmountOf'[w] = req[s].amount /\ req[s].amount \in Int
  BY <1>2, <1>4, AmountType DEF AmountOf, Requests
<1>10. \A v \in Booked \cup {w} : AmountOf'[v] \in Int
  BY <1>2, <1>8, <1>9, AmountOfType DEF Booked
<1>11. Total(AmountOf', Booked') = req[s].amount + Total(AmountOf', Booked)
  <2>1. Total(AmountOf', Booked \cup {w}) = AmountOf'[w] + Total(AmountOf', Booked)
    BY <1>6, <1>7, <1>10, TotalAdd
  <2> QED BY <1>6, <1>9, <2>1
<1>12. Total(AmountOf', Booked) = Total(AmountOf, Booked)
  BY <1>7, <1>8, TotalSame
<1>13. PICK b \in Int : b = Total(AmountOf, Booked)
  <2>1. \A v \in Booked : AmountOf[v] \in Int
    BY <1>2, AmountOfType DEF Booked
  <2> QED BY <1>7, <2>1, TotalType
<1>14. /\ wallet'.available = wallet.available - req[s].amount /\ earned' = earned
       /\ earned \in Int /\ wallet.available = earned - b
  BY <1>2, <1>13 DEF WithdrawDebit, Wallets, TypeOK, Books, Reconciled
<1>15. wallet'.available = earned' - Total(AmountOf', Booked')
  BY <1>9, <1>11, <1>12, <1>13, <1>14
<1> QED BY <1>5, <1>7, <1>15 DEF Books, Reconciled

LEMMA BooksRefund ==
    ASSUME Inv, Books, NEW s \in Slots, WithdrawRefund(s) PROVE Books'
<1> USE DEF InTry
<1>1. req[s].pc = "wd_refund" /\ wallet \in Wallets /\ req[s] \in Requests /\ TypeOK
  BY DEF WithdrawRefund, At, Inv, TypeOK
<1>2. PICK w \in WithdrawalIds :
      /\ w = req[s].wd /\ withdrawals[w].status \in {"PENDING", "COMPLETED"}
      /\ withdrawals[w].amount = req[s].amount
      /\ \A t \in Slots : t # s /\ req[t].pc \in InTry => req[t].wd # w
  BY <1>1, OwnerFacts DEF Books, Owed
<1>3. /\ withdrawals'[w].status = "FAILED"
      /\ \A v \in WithdrawalIds : /\ withdrawals'[v].amount = withdrawals[v].amount
                                  /\ v # w => withdrawals'[v] = withdrawals[v]
  BY <1>2 DEF WithdrawRefund, Inv, TypeOK, Withdrawals, Statuses
<1>4. req'[s].pc = "idle" /\ \A t \in Slots : t # s => req'[t] = req[t]
  BY FinishType DEF WithdrawRefund, Inv
<1>5. Owed'
  BY <1>3, <1>4, OwnerFacts DEF Books, Owed
<1>6. w \in Booked /\ Booked' = Booked \ {w}
  BY <1>2, <1>3 DEF Booked
<1>7. IsFiniteSet(Booked) /\ IsFiniteSet(Booked')
  BY <1>6, FS_RemoveElement DEF Books, Reconciled
<1>8. AmountOf' = AmountOf /\ AmountOf[w] = req[s].amount
  BY <1>2, <1>3 DEF AmountOf
<1>9. Total(AmountOf, Booked) = req[s].amount + Total(AmountOf, Booked \ {w})
  <2>1. \A v \in Booked : AmountOf[v] \in Int
    BY <1>1, AmountOfType DEF Booked
  <2>2. Total(AmountOf, Booked) = AmountOf[w] + Total(AmountOf, Booked \ {w})
    BY <1>6, <1>7, <2>1, TotalRemove
  <2> QED BY <1>8, <2>2
<1>10. PICK b \in Int : b = Total(AmountOf', Booked')
  <2>1. \A v \in Booked' : AmountOf'[v] \in Int
    BY <1>1, <1>6, <1>8, AmountOfType DEF Booked
  <2> QED BY <1>7, <2>1, TotalType
<1>11. PICK a \in Int : a = req[s].amount
  BY <1>1, AmountType DEF Requests
<1>12. /\ wallet'.available = wallet.available + a /\ earned' = earned
       /\ earned \in Int /\ wallet.available = earned - (a + b)
  BY <1>1, <1>6, <1>8, <1>9, <1>10, <1>11
     DEF WithdrawRefund, Wallets, TypeOK, Books, Reconciled
<1>13. wallet'.available = earned' - b
  BY <1>12
<1> QED BY <1>5, <1>7, <1>10, <1>13 DEF Books, Reconciled

LEMMA BooksStep == ASSUME Inv, Inv', Books, [Next]_vars PROVE Books'
<1>0. TypeOK /\ Owed /\ Reconciled /\ wallet \in Wallets /\ earned \in Int
  BY DEF Inv, Books, TypeOK
<1>1. ASSUME UNCHANGED <<withdrawals, earned>>, wallet'.available = wallet.available
      PROVE  Reconciled'
  <2>1. Booked' = Booked /\ wallet'.available = wallet.available + 0 /\ earned' = earned + 0
    BY <1>0, <1>1 DEF Booked, Wallets
  <2> QED BY <1>0, <1>1, <2>1, ReconciledStable
<1>2. CASE UNCHANGED vars
  BY <1>0, <1>1, <1>2 DEF vars, Books, Owed
<1>3. ASSUME NEW s \in Slots, Quiet(s) PROVE Books'
  <2>1. Calm(s)
    BY <1>0, <1>3, QuietIsCalm
  <2>2. UNCHANGED <<withdrawals, earned>> /\ wallet'.available = wallet.available
    BY <2>1 DEF Calm, ledgerVars
  <2>3. Owed'
    BY <1>0, <2>1, <2>2 DEF Calm, Owed
  <2> QED BY <1>1, <2>2, <2>3 DEF Books
<1>4. CASE Outside
  <2>1. UNCHANGED <<withdrawals, req>>
    BY <1>4 DEF Outside, FinishOnboarding, DeleteAccount, WebhookReady, WebhookDeleted,
                Earn, ledgerVars
  <2>2. ASSUME NEW amount \in Amounts, Earn(amount) PROVE Reconciled'
    <3>1. amount \in Int
      BY AmountType
    <3>2. wallet'.available = wallet.available + amount /\ earned' = earned + amount
      BY <1>0, <2>2 DEF Earn, Wallets
    <3>3. Booked' = Booked
      BY <2>1 DEF Booked
    <3> QED BY <1>0, <2>1, <3>1, <3>2, <3>3, ReconciledStable
  <2>3. ASSUME NEW a \in Accounts, \/ FinishOnboarding(a) \/ DeleteAccount(a)
                                  \/ WebhookReady(a) \/ WebhookDeleted(a)
        PROVE  Reconciled'
    <3>1. wallet'.available = wallet.available /\ UNCHANGED earned
      BY <1>0, <2>3 DEF FinishOnboarding, DeleteAccount, WebhookReady, WebhookDeleted,
                        Wallets, ledgerVars
    <3> QED BY <1>1, <2>1, <3>1
  <2> QED BY <1>0, <1>4, <2>1, <2>2, <2>3 DEF Outside, Books, Owed
<1>5. ASSUME NEW s \in Slots, WithdrawTransfer(s) PROVE Books'
  <2>1. UNCHANGED <<wallet, earned, withdrawals>>
    BY <1>5 DEF WithdrawTransfer
  <2>2. PICK pc \in {"wd_complete", "wd_refund"} : Goto(s, pc)
    BY <1>5 DEF WithdrawTransfer
  <2>3. /\ req'[s].wd = req[s].wd /\ req'[s].amount = req[s].amount
        /\ \A t \in Slots : t # s => req'[t] = req[t]
    BY <1>0, <2>2, GotoType DEF ProgramCounters
  <2>4. req[s].pc \in InTry
    BY <1>5 DEF WithdrawTransfer, At, InTry
  <2> QED BY <1>0, <1>1, <2>1, <2>3, <2>4 DEF Books, Owed
<1>6. ASSUME NEW s \in Slots, WithdrawComplete(s) PROVE Books'
  <2>1. UNCHANGED <<wallet, earned>> /\ req[s].pc \in InTry
    BY <1>6 DEF WithdrawComplete, At, InTry
  <2>2. PICK w \in WithdrawalIds : w = req[s].wd /\ withdrawals[w].status = "PENDING"
    BY <1>6, <2>1, OwnerFacts DEF WithdrawComplete, At
  <2>3. /\ \A v \in WithdrawalIds : withdrawals'[v].amount = withdrawals[v].amount
        /\ Booked' = Booked
    <3>1. CASE withdrawals' = [withdrawals EXCEPT ![w].status = "COMPLETED"]
      <4>1. /\ withdrawals'[w].status = "COMPLETED"
            /\ \A v \in WithdrawalIds : /\ withdrawals'[v].amount = withdrawals[v].amount
                                        /\ v # w => withdrawals'[v] = withdrawals[v]
        BY <1>0, <2>2, <3>1 DEF TypeOK, Withdrawals, Statuses
      <4> QED BY <2>2, <4>1 DEF Booked
    <3>2. CASE UNCHANGED withdrawals
      BY <3>2 DEF Booked
    <3> QED BY <1>6, <2>2, <3>1, <3>2 DEF WithdrawComplete
  <2>4. /\ req'[s].pc \in InTry => req'[s].wd = req[s].wd /\ req'[s].amount = req[s].amount
        /\ \A t \in Slots : t # s => req'[t] = req[t]
    <3>1. Finish(s) \/ Goto(s, "wd_refund")
      BY <1>6 DEF WithdrawComplete
    <3> QED BY <1>0, <3>1, FinishType, GotoType DEF ProgramCounters, InTry
  <2>5. Owed'
    BY <1>0, <2>1, <2>3, <2>4, OwnerFacts DEF Owed
  <2>6. wallet'.available = wallet.available + 0 /\ earned' = earned + 0
    BY <1>0, <2>1 DEF Wallets
  <2> QED BY <1>0, <2>3, <2>5, <2>6, ReconciledStable DEF Books
<1> QED BY <1>2, <1>3, <1>4, <1>5, <1>6, StepSplit, BooksDebit, BooksRefund

LEMMA BooksAlways == Spec => []Books
<1>1. Init => Books
  <2> SUFFICES ASSUME Init PROVE Books
    OBVIOUS
  <2>1. Owed
    BY DEF Init, Owed, Idle, InTry
  <2>2. Booked = {}
    BY DEF Init, Booked
  <2>3. wallet.available = 0 /\ earned = 0
    BY DEF Init
  <2> QED BY <2>1, <2>2, <2>3, TotalEmpty, FS_EmptySet DEF Books, Reconciled
<1>2. Inv /\ Inv' /\ Books /\ [Next]_vars => Books'
  BY BooksStep
<1> QED BY <1>1, <1>2, InvAlways, PTL DEF Spec

\* Nothing is created or lost on the books: whatever overlaps, fails, dies or
\* is answered wrongly, the balance is what was earned less the withdrawals
\* that were not refunded (requestWithdrawal's debit and its catch block).
THEOREM BalanceReconcilesAlways == Spec => []BalanceReconciles
<1>1. Books => BalanceReconciles
  <2>1. Booked \in SUBSET WithdrawalIds
    BY DEF Booked
  <2> QED BY <2>1, BookedSum DEF Books, Reconciled, BalanceReconciles
<1> QED BY <1>1, BooksAlways, PTL

\* The refund of a settled withdrawal: only its own handler can be about to make
\* it, and only after a COMPLETED whose answer was lost.
LEMMA RefundStrikes ==
    ASSUME Inv, Books, NEW s \in Slots, WithdrawRefund(s), NEW w \in Settled,
           withdrawals'[w] # withdrawals[w]
    PROVE  Struck(w)
<1>1. req[s].pc = "wd_refund" /\ req[s].pc \in InTry
  BY DEF WithdrawRefund, At, InTry
<1>2. w \in WithdrawalIds /\ withdrawals[w].status \in {"COMPLETED", "FAILED"}
  BY DEF Settled
<1>3. w = req[s].wd
  BY <1>2 DEF WithdrawRefund, Inv, TypeOK
<1>4. "completion_unanswered" \in Faults /\ withdrawals[w].status = "COMPLETED"
  BY <1>1, <1>2, <1>3, OwnerFacts
<1>5. withdrawals[w].amount = req[s].amount
  BY <1>1, <1>3 DEF Books, Owed
<1>6. withdrawals'[w] = [withdrawals[w] EXCEPT !.status = "FAILED"]
  BY <1>2, <1>3 DEF WithdrawRefund, Inv, TypeOK
<1>7. wallet'.available = wallet.available + req[s].amount
  BY DEF WithdrawRefund, Inv, TypeOK, Wallets
<1> QED BY <1>4, <1>5, <1>6, <1>7 DEF Struck

\* A withdrawal that was reported as failed stays so, and one reported as paid
\* does too, unless the COMPLETED update took effect without an answer: then the
\* catch block's refund strikes it and gives the same amount back in one step
\* (requestWithdrawal's try block, whatever overlaps, fails or dies).
THEOREM SettledIsFinalAlways == Spec => SettledIsFinal
<1>1. ASSUME Inv, Books, [Next]_vars
      PROVE  [\A w \in Settled : withdrawals'[w] = withdrawals[w] \/ Struck(w)]_vars
  <2> SUFFICES ASSUME NEW w \in Settled, withdrawals'[w] # withdrawals[w] PROVE Struck(w)
    OBVIOUS
  <2>1. w \in WithdrawalIds /\ withdrawals[w].status \in {"COMPLETED", "FAILED"}
    BY DEF Settled
  <2>2. PICK s \in Slots : \/ WithdrawDebit(s)
                           \/ req[s].pc \in InTry /\ \/ WithdrawTransfer(s)
                                                     \/ WithdrawComplete(s)
                                                     \/ WithdrawRefund(s)
    BY <1>1, RowsOnlyByOwner
  <2>3. CASE WithdrawDebit(s)
    BY <1>1, <2>1, <2>3 DEF WithdrawDebit, Inv, TypeOK
  <2>4. CASE WithdrawTransfer(s)
    BY <2>4 DEF WithdrawTransfer
  <2>5. CASE req[s].pc \in InTry /\ WithdrawComplete(s)
    <3>1. req[s].wd # w
      BY <1>1, <2>1, <2>5, OwnerFacts DEF WithdrawComplete, At
    <3> QED BY <1>1, <2>1, <2>5, <3>1 DEF WithdrawComplete, Inv, TypeOK
  <2>6. CASE WithdrawRefund(s)
    BY <1>1, <2>6, RefundStrikes
  <2> QED BY <2>2, <2>3, <2>4, <2>5, <2>6
<1> QED BY <1>1, InvAlways, BooksAlways, PTL DEF Spec, SettledIsFinal
-----------------------------------------------------------------------------
(* The Connect account.  With the handlers that look it up kept apart, the  *)
(* wallet can lose its account under a handler's hands (a webhook clears    *)
(* it) but not get another one, so what the handler found out about the     *)
(* account it read is true of the one it marks.                             *)

Was(a) == a \in Accounts /\ stripe[a] \in {"ready", "deleted"}

Looking == {"wd_retrieve", "wd_mark", "sync_retrieve", "confirm_retrieve", "mark"}

\* What a handler that asked Stripe about its account can rely on.
LookOK(r) ==
    /\ r.pc \in Looking => r.account \in Accounts /\ wallet.account \in {r.account, None}
    /\ r.pc = "wd_mark" \/ (r.pc = "mark" /\ r.done) => Was(r.account)

Looks == \A s \in Slots : LookOK(req[s])

OneAccountHandler ==
    \A s, t \in Slots : req[s].pc \in AccountCounters /\ req[t].pc \in AccountCounters => s = t

AccountInv == OneAccountHandler /\ Looks /\ OnboardedAccountWasReady

LEMMA LookingIsAccount == Looking \subseteq AccountCounters
BY DEF Looking, AccountCounters, ProgramCounters

\* The step of slot s keeps the invariant when it is the only handler of the
\* account, or changes the wallet's account to None at most.
LEMMA AccountKept ==
    ASSUME AccountInv, NEW s \in Slots,
           \A t \in Slots : t # s => req'[t] = req[t],
           \A a : Was(a) => Was(a)',
           req'[s].pc \in AccountCounters
               => \A t \in Slots : t # s => req[t].pc \notin AccountCounters,
           \/ wallet'.account \in {wallet.account, None}
           \/ \A t \in Slots : t # s => req[t].pc \notin AccountCounters,
           LookOK(req[s])', OnboardedAccountWasReady'
    PROVE  AccountInv'
<1>1. OneAccountHandler'
  BY DEF AccountInv, OneAccountHandler
<1>2. ASSUME NEW t \in Slots, t # s PROVE LookOK(req[t])'
  <2>1. LookOK(req[t]) /\ req'[t] = req[t]
    BY <1>2 DEF AccountInv, Looks
  <2>2. req[t].pc \in Looking => req[t].account \in Accounts /\ wallet'.account \in {req[t].account, None}
    BY <1>2, <2>1, LookingIsAccount DEF LookOK
  <2> QED BY <2>1, <2>2 DEF LookOK
<1> QED BY <1>1, <1>2 DEF AccountInv, Looks

\* A handler that begins has read the wallet, and nobody else looks at it.
LEMMA AccountBegins ==
    ASSUME "account" \in Serialised, Inv, AccountInv, NEW s \in Slots, UNCHANGED stripe,
           NEW pc \in ProgramCounters \ {"wd_mark", "mark"}, NEW amount \in Amounts \cup {0},
           Begin(s, pc, amount), pc \in Looking => wallet.account # None,
           wallet'.account = wallet.account, wallet'.onboarded = wallet.onboarded
    PROVE  AccountInv'
<1>1. \A t \in Slots : req[t].pc \notin AccountCounters
  BY DEF Begin
<1>2. /\ req'[s].pc = pc /\ req'[s].account = wallet.account
      /\ \A t \in Slots : t # s => req'[t] = req[t]
  BY DEF Begin, Inv, TypeOK
<1>3. LookOK(req[s])'
  BY <1>2 DEF LookOK, Inv, TypeOK, Wallets
<1>4. OnboardedAccountWasReady' /\ \A a : Was(a) => Was(a)'
  BY DEF AccountInv, OnboardedAccountWasReady, Was
<1> QED BY <1>1, <1>2, <1>3, <1>4, AccountKept

\* A handler of the account that goes on or ends is still the only one.
LEMMA AccountGoesOn ==
    ASSUME AccountInv, NEW s \in Slots,
           req[s].pc \in AccountCounters \/ req'[s].pc \notin AccountCounters,
           \A t \in Slots : t # s => req'[t] = req[t],
           \A a : Was(a) => Was(a)',
           req[s].pc \in AccountCounters \/ wallet'.account \in {wallet.account, None},
           LookOK(req[s])', OnboardedAccountWasReady'
    PROVE  AccountInv'
<1>1. req[s].pc \in AccountCounters
         => \A t \in Slots : t # s => req[t].pc \notin AccountCounters
  BY DEF AccountInv, OneAccountHandler
<1> QED BY <1>1, AccountKept

\* Stripe's side: an account that was ready is never again a new one.
LEMMA StripeMoves == ASSUME TypeOK, [Next]_vars PROVE \A a : Was(a) => Was(a)'
<1>1. \/ UNCHANGED stripe
      \/ \E s \in Slots : ConnectCreate(s)
      \/ \E a \in Accounts : FinishOnboarding(a) \/ DeleteAccount(a)
  BY DEF Next, vars, Withdraw, Connect, Die, Fail, WithdrawRead, WebhookReady,
         WebhookDeleted, Earn, WithdrawRetrieve, WithdrawMark, WithdrawCheck, WithdrawDebit,
         WithdrawTransfer, WithdrawComplete, WithdrawRefund, ClearAccount, SyncRead,
         SyncRetrieve, SyncMark, ConnectEnsure, ConnectRetrieve, ConnectWrite, LoginRead,
         LoginRetrieve
<1>2. stripe \in [Accounts -> AccountStates]
  BY DEF TypeOK
<1> QED BY <1>1, <1>2 DEF ConnectCreate, FinishOnboarding, DeleteAccount, Was

LEMMA AccountQuiet ==
    ASSUME "account" \in Serialised, Inv, AccountInv, [Next]_vars, NEW s \in Slots, Quiet(s)
    PROVE  AccountInv'
<1> USE DEF AccountCounters, ProgramCounters, Looking
<1>0. /\ \A a : Was(a) => Was(a)'
      /\ \A t \in Slots : t # s => req'[t] = req[t]
      /\ wallet \in Wallets /\ req[s] \in Requests /\ TypeOK
      /\ LookOK(req[s]) /\ OnboardedAccountWasReady
  BY StripeMoves, QuietIsCalm DEF Inv, TypeOK, Calm, AccountInv, Looks
<1>1. ASSUME Finish(s), wallet' = wallet PROVE AccountInv'
  <2>1. LookOK(req[s])' /\ req'[s].pc = "idle"
    BY <1>0, <1>1, FinishType DEF LookOK
  <2>2. OnboardedAccountWasReady'
    BY <1>0, <1>1 DEF OnboardedAccountWasReady, Was, Wallets
  <2> QED BY <1>0, <1>1, <2>1, <2>2, AccountGoesOn
<1>2. ASSUME UNCHANGED <<wallet, stripe>>, req'[s].pc \in ProgramCounters,
             req[s].pc \in AccountCounters, LookOK(req[s])'
      PROVE  AccountInv'
  <2>1. OnboardedAccountWasReady'
    BY <1>0, <1>2 DEF OnboardedAccountWasReady
  <2> QED BY <1>0, <1>2, <2>1, AccountGoesOn
<1>3. ASSUME NEW amount \in Amounts, WithdrawRead(s, amount) PROVE AccountInv'
  BY <1>3, AccountBegins DEF WithdrawRead
<1>4. CASE WithdrawRetrieve(s)
  <2>1. UNCHANGED <<wallet, stripe>> /\ req[s].pc = "wd_retrieve"
    BY <1>4 DEF WithdrawRetrieve, At
  <2>2. PICK pc \in {"clear", "wd_mark", "wd_check"} :
             Goto(s, pc) /\ (pc = "wd_mark" => Ready(req[s].account))
    BY <1>4 DEF WithdrawRetrieve
  <2>3. req'[s].pc = pc /\ req'[s].account = req[s].account
    <3>1. req'[s] = [req[s] EXCEPT !.pc = pc]
      BY <1>0, <2>2 DEF Goto, TypeOK
    <3> QED BY <1>0, <3>1 DEF Requests
  <2>4. LookOK(req[s])'
    BY <1>0, <2>1, <2>2, <2>3 DEF LookOK, Ready, Was
  <2> QED BY <1>2, <2>1, <2>3, <2>4
<1>5. CASE WithdrawMark(s)
  <2>1. /\ wallet'.account = wallet.account /\ UNCHANGED stripe /\ req[s].pc = "wd_mark"
        /\ Goto(s, "wd_check")
    BY <1>0, <1>5 DEF WithdrawMark, At, Wallets
  <2>2. req'[s].pc = "wd_check"
    BY <1>0, <2>1, GotoType
  <2>3. Was(req[s].account) /\ wallet.account \in {req[s].account, None}
    BY <1>0, <2>1 DEF LookOK
  <2>4. OnboardedAccountWasReady'
    BY <2>1, <2>3 DEF OnboardedAccountWasReady, Was
  <2> QED BY <1>0, <2>1, <2>2, <2>4, AccountGoesOn DEF LookOK
<1>6. CASE WithdrawCheck(s)
  <2>1. UNCHANGED <<wallet, stripe>> /\ Goto(s, "wd_debit")
    BY <1>6 DEF WithdrawCheck
  <2>2. req'[s].pc = "wd_debit"
    BY <1>0, <2>1, GotoType
  <2>3. OnboardedAccountWasReady'
    BY <1>0, <2>1 DEF OnboardedAccountWasReady
  <2> QED BY <1>0, <2>1, <2>2, <2>3, AccountGoesOn DEF LookOK
<1>7. CASE ClearAccount(s)
  <2>1. wallet'.account = None /\ req[s].pc \in {"clear", "clear_connect"}
    BY <1>0, <1>7 DEF ClearAccount, Wallets
  <2>2. Finish(s) \/ Goto(s, "connect_read")
    BY <1>7 DEF ClearAccount
  <2>3. req'[s].pc \in {"idle", "connect_read"}
    BY <1>0, <2>2, FinishType, GotoType
  <2> QED BY <1>0, <2>1, <2>3, AccountGoesOn DEF LookOK, OnboardedAccountWasReady
<1>8. CASE SyncRead(s)
  BY <1>8, AccountBegins DEF SyncRead
<1>9. CASE SyncRetrieve(s)
  <2>1. UNCHANGED <<wallet, stripe>> /\ req[s].pc \in {"sync_retrieve", "confirm_retrieve"}
    BY <1>9 DEF SyncRetrieve
  <2>2. CASE Goto(s, "clear")
    <3>1. req'[s].pc = "clear"
      BY <1>0, <2>2, GotoType
    <3> QED BY <1>2, <2>1, <3>1 DEF LookOK
  <2>3. CASE req' = [req EXCEPT ![s] = [@ EXCEPT !.pc = "mark", !.done = Ready(req[s].account)]]
    <3>1. /\ req'[s].pc = "mark" /\ req'[s].done = Ready(req[s].account)
          /\ req'[s].account = req[s].account
      BY <1>0, <2>3 DEF TypeOK, Requests
    <3>2. LookOK(req[s])'
      BY <1>0, <2>1, <3>1 DEF LookOK, Ready, Was
    <3> QED BY <1>2, <2>1, <3>1, <3>2
  <2> QED BY <1>9, <2>2, <2>3 DEF SyncRetrieve
<1>10. CASE SyncMark(s)
  <2>1. /\ wallet'.account = wallet.account /\ wallet'.onboarded = req[s].done
        /\ UNCHANGED stripe /\ req[s].pc = "mark" /\ Finish(s)
    BY <1>0, <1>10 DEF SyncMark, At, Wallets
  <2>2. req'[s].pc = "idle"
    BY <1>0, <2>1, FinishType
  <2>3. OnboardedAccountWasReady'
    BY <1>0, <2>1 DEF OnboardedAccountWasReady, LookOK, Was
  <2> QED BY <1>0, <2>1, <2>2, <2>3, AccountGoesOn DEF LookOK
<1>11. CASE ConnectEnsure(s)
  <2>1. /\ wallet'.account = wallet.account /\ wallet'.onboarded = wallet.onboarded
        /\ UNCHANGED stripe
    BY <1>0, <1>11 DEF ConnectEnsure, Wallets
  <2>2. CASE Begin(s, "connect_retrieve", 0)
    BY <2>1, <2>2, AccountBegins
  <2>3. CASE /\ req[s].pc = "connect_read"
             /\ req' = [req EXCEPT ![s] = [@ EXCEPT !.pc = "connect_retrieve",
                                                    !.account = wallet.account]]
    <3>1. req'[s].pc = "connect_retrieve"
      BY <1>0, <2>3 DEF TypeOK, Requests
    <3>2. OnboardedAccountWasReady'
      BY <1>0, <2>1 DEF OnboardedAccountWasReady
    <3> QED BY <1>0, <2>3, <3>1, <3>2, AccountGoesOn DEF LookOK
  <2> QED BY <1>11, <2>2, <2>3 DEF ConnectEnsure, At
<1>12. CASE ConnectRetrieve(s)
  <2>1. UNCHANGED <<wallet, stripe>> /\ req[s].pc = "connect_retrieve" /\ Goto(s, "connect_create")
    BY <1>12 DEF ConnectRetrieve, At
  <2>2. req'[s].pc = "connect_create"
    BY <1>0, <2>1, GotoType
  <2> QED BY <1>2, <2>1, <2>2 DEF LookOK
<1>13. CASE ConnectCreate(s)
  <2>1. wallet' = wallet /\ req[s].pc = "connect_create"
    BY <1>13 DEF ConnectCreate, At
  <2>2. req'[s].pc = "connect_write"
    BY <1>0, <1>13 DEF ConnectCreate, TypeOK, Requests
  <2>3. OnboardedAccountWasReady'
    BY <1>0, <2>1 DEF OnboardedAccountWasReady, Was, Wallets
  <2> QED BY <1>0, <2>1, <2>2, <2>3, AccountGoesOn DEF LookOK
<1>14. CASE ConnectWrite(s)
  <2>1. wallet'.onboarded = FALSE /\ req[s].pc = "connect_write"
    BY <1>0, <1>14 DEF ConnectWrite, At, Wallets
  <2>2. req'[s].pc = "idle"
    BY <1>0, <1>14, FinishType DEF ConnectWrite
  <2> QED BY <1>0, <2>1, <2>2, AccountGoesOn DEF LookOK, OnboardedAccountWasReady
<1>15. CASE LoginRead(s)
  BY <1>15, AccountBegins DEF LoginRead
<1>16. CASE LoginRetrieve(s)
  <2>1. UNCHANGED <<wallet, stripe>> /\ req[s].pc = "login_retrieve" /\ Goto(s, "clear_connect")
    BY <1>16 DEF LoginRetrieve, At
  <2>2. req'[s].pc = "clear_connect"
    BY <1>0, <2>1, GotoType
  <2> QED BY <1>2, <2>1, <2>2 DEF LookOK
<1>17. CASE Die(s) \/ Fail(s)
  BY <1>1, <1>17 DEF Die, Fail
<1> QED BY <1>3, <1>4, <1>5, <1>6, <1>7, <1>8, <1>9, <1>10, <1>11, <1>12, <1>13, <1>14,
           <1>15, <1>16, <1>17 DEF Quiet, Connect

LEMMA AccountStep ==
    ASSUME "account" \in Serialised, Inv, AccountInv, [Next]_vars PROVE AccountInv'
<1>0. TypeOK /\ wallet \in Wallets /\ \A a : Was(a) => Was(a)'
  BY StripeMoves DEF Inv, TypeOK
<1>1. CASE UNCHANGED vars
  BY <1>1 DEF vars, AccountInv, OneAccountHandler, Looks, LookOK, Was, OnboardedAccountWasReady
<1>2. ASSUME NEW s \in Slots, \/ WithdrawDebit(s) \/ WithdrawTransfer(s)
                              \/ WithdrawComplete(s) \/ WithdrawRefund(s)
      PROVE  AccountInv'
  <2>1. /\ wallet'.account = wallet.account /\ wallet'.onboarded = wallet.onboarded
        /\ UNCHANGED stripe
    BY <1>0, <1>2 DEF WithdrawDebit, WithdrawTransfer, WithdrawComplete, WithdrawRefund, Wallets
  <2>2. req'[s].pc \in InTry \cup {"idle"} /\ \A t \in Slots : t # s => req'[t] = req[t]
    <3>1. CASE WithdrawDebit(s)
      BY <1>0, <3>1, DebitMoves DEF WithdrawDebit, InTry
    <3>2. CASE WithdrawTransfer(s) \/ WithdrawComplete(s) \/ WithdrawRefund(s)
      <4>1. Goto(s, "wd_complete") \/ Goto(s, "wd_refund") \/ Finish(s)
        BY <3>2 DEF WithdrawTransfer, WithdrawComplete, WithdrawRefund
      <4> QED BY <1>0, <4>1, GotoType, FinishType DEF InTry, ProgramCounters
    <3> QED BY <1>2, <3>1, <3>2
  <2>3. req'[s].pc \notin AccountCounters /\ LookOK(req[s])'
    BY <2>2 DEF InTry, AccountCounters, LookOK, Looking
  <2>4. OnboardedAccountWasReady'
    BY <2>1 DEF AccountInv, OnboardedAccountWasReady
  <2> QED BY <1>0, <2>1, <2>2, <2>3, <2>4, AccountGoesOn
<1>3. CASE Outside
  <2>1. UNCHANGED req
    BY <1>3 DEF Outside, FinishOnboarding, DeleteAccount, WebhookReady, WebhookDeleted, Earn
  <2>2. wallet'.account \in {wallet.account, None}
    BY <1>0, <1>3 DEF Outside, FinishOnboarding, DeleteAccount, WebhookReady, WebhookDeleted,
                      Earn, Wallets
  <2>3. OnboardedAccountWasReady'
    <3>1. \/ wallet'.account = wallet.account /\ wallet'.onboarded = wallet.onboarded
          \/ wallet'.account = None
          \/ \E a \in Accounts : stripe'[a] = "ready" /\ wallet'.account = a
      BY <1>0, <1>3 DEF Outside, FinishOnboarding, DeleteAccount, WebhookReady,
                        WebhookDeleted, Earn, Wallets, Ready
    <3> QED BY <1>0, <3>1 DEF AccountInv, OnboardedAccountWasReady, Was, Wallets
  <2>4. \A t \in Slots : LookOK(req[t])'
    BY <1>0, <2>1, <2>2 DEF AccountInv, Looks, LookOK
  <2> QED BY <2>1, <2>3, <2>4 DEF AccountInv, Looks, OneAccountHandler
<1> QED BY <1>1, <1>2, <1>3, AccountQuiet, StepSplit

\* With the account handlers kept apart a wallet is marked as onboarded only
\* for an account whose owner did finish onboarding, whatever webhooks run in
\* between (requestWithdrawal, getMyWallet, confirmConnectOnboarding,
\* createConnectAccount against account.updated and deauthorized).
THEOREM OnboardedAccountWasReadyAlways ==
    ASSUME "account" \in Serialised PROVE Spec => []OnboardedAccountWasReady
<1>1. Init => AccountInv
  BY DEF Init, AccountInv, OneAccountHandler, Looks, LookOK, Looking, Idle, AccountCounters,
         OnboardedAccountWasReady
<1>2. Inv /\ AccountInv /\ [Next]_vars => AccountInv'
  BY AccountStep
<1>3. AccountInv => OnboardedAccountWasReady
  BY DEF AccountInv
<1> QED BY <1>1, <1>2, <1>3, InvAlways, PTL DEF Spec
=============================================================================
