----------------------------- MODULE Withdrawal -----------------------------
(***************************************************************************)
(* One helper's wallet: withdrawals to Stripe and the Stripe Connect       *)
(* account they go to.  It models                                          *)
(*   Wallet/wallet.services.ts     requestWithdrawal, getMyWallet,         *)
(*                                 createConnectAccount,                   *)
(*                                 createConnectLoginLink,                 *)
(*                                 confirmConnectOnboarding                *)
(*   Payment/payment.services.ts   the account webhooks                    *)
(* (under src/src/app/modules).  Wallets share nothing, so one is enough.  *)
(*                                                                         *)
(* As in Escrow, a handler in flight occupies a slot and interleaves with  *)
(* the others at its awaits.  The transaction of requestWithdrawal is two  *)
(* steps: it reads the balance with a plain SELECT and then decrements it, *)
(* and Postgres' READ COMMITTED lets another one commit in between.  An    *)
(* answer of Stripe that an account is missing is treated like "deleted".  *)
(***************************************************************************)
EXTENDS Integers, FiniteSets, FiniteSetsExt

CONSTANTS
    WithdrawalIds,  \* rows of the withdrawals table (bounds their number)
    Accounts,       \* Stripe Connect accounts that can be created
    Amounts,        \* amounts a helper asks for (validated positive)
    MaxEarned,      \* bound of what releaseEscrow credits in all
    Slots,          \* handlers in flight at once (a bound of the instance)
    Serialised,     \* what is kept apart, see below; nothing in the code does
    Faults,         \* how the calls after the debit may fail, see below
    MayDie,         \* TRUE: the process may die with handlers in flight
    None

\* "Unanswered": the call took effect, the handler sees an error.  The three
\* late ones let the catch block run although the money left.
LateFaults == {"transfer_unanswered", "completion_unanswered",
               "completion_fails"}    \* writing COMPLETED throws, not written
FaultKinds == LateFaults \cup
              {"debit_unanswered",
               "refund_fails"}        \* the catch block's transaction throws

\* "debit": no transaction of requestWithdrawal runs inside another one, as
\* with SELECT ... FOR UPDATE.  "account": no two handlers look up or write the
\* wallet's Stripe account at a time (webhooks do).
Exclusions == {"debit", "account"}

ASSUME NoneAssumption == None \notin Accounts \cup WithdrawalIds
ASSUME AmountsAssumption == Amounts \subseteq Nat \ {0}
ASSUME MaxEarnedAssumption == MaxEarned \in Nat
ASSUME SwitchAssumption == /\ MayDie \in BOOLEAN
                           /\ Faults \subseteq FaultKinds
                           /\ Serialised \subseteq Exclusions

VARIABLES
    wallet,         \* the row: exists, available, account, onboarded
    earned,         \* sum of the wallet's JOB_EARNING rows
    stripe,         \* the state of each account at Stripe
    withdrawals,    \* the rows: status, amount
    debitRows,      \* WITHDRAWAL rows per reference_id
    refundRows,     \* REFUND rows per reference_id
    transfers,      \* transfers Stripe really made per withdrawal
    req             \* the handlers in flight

ledgerVars == <<earned, withdrawals, debitRows, refundRows, transfers>>
vars == <<wallet, earned, stripe, withdrawals, debitRows, refundRows, transfers, req>>

-----------------------------------------------------------------------------
(* Data *)

Wallets == [exists: BOOLEAN, available: Int, account: Accounts \cup {None},
            onboarded: BOOLEAN]
AccountStates == {"unused", "created", "ready", "deleted"}
Statuses == {"NONE", "PENDING", "COMPLETED", "FAILED"}
Withdrawals == [status: Statuses, amount: Amounts \cup {0}]

ProgramCounters ==
    {"idle", "wd_retrieve", "wd_mark", "wd_check", "wd_debit", "wd_transfer",
     "wd_complete", "wd_refund", "clear", "clear_connect", "sync_retrieve",
     "confirm_retrieve", "mark", "connect_read", "connect_retrieve",
     "connect_create", "connect_write", "login_retrieve"}

Idle == [pc |-> "idle", amount |-> 0, account |-> None, done |-> FALSE, wd |-> None]
Requests == [pc: ProgramCounters, amount: Amounts \cup {0},
             account: Accounts \cup {None}, done: BOOLEAN,
             wd: WithdrawalIds \cup {None}]

-----------------------------------------------------------------------------
(* Handlers in flight *)

AccountCounters == ProgramCounters \ {"idle", "wd_check", "wd_debit", "wd_transfer",
                                      "wd_complete", "wd_refund"}

\* A handler starts having read the wallet.
Begin(s, pc, amount) ==
    /\ req[s].pc = "idle"
    /\ "account" \in Serialised => \A t \in Slots : req[t].pc \notin AccountCounters
    /\ req' = [req EXCEPT ![s] = [pc |-> pc, amount |-> amount, account |-> wallet.account,
                                  done |-> wallet.onboarded, wd |-> None]]

At(s, pc) == req[s].pc = pc
Goto(s, pc) == req' = [req EXCEPT ![s].pc = pc]
Finish(s) == req' = [req EXCEPT ![s] = Idle]

\* The process dies at the handler's await.
Die(s) ==
    /\ MayDie
    /\ req[s].pc # "idle"
    /\ Finish(s)
    /\ UNCHANGED <<wallet, stripe, ledgerVars>>

\* An error ends the handler, except in the withdrawal's try block; one of the
\* catch block's transaction, which is in no try block itself, does too.
Fail(s) ==
    /\ req[s].pc \notin {"idle", "wd_transfer", "wd_complete"}
    /\ At(s, "wd_refund") => "refund_fails" \in Faults
    /\ Finish(s)
    /\ UNCHANGED <<wallet, stripe, ledgerVars>>

Ready(a)   == stripe[a] = "ready"
Deleted(a) == stripe[a] = "deleted"

-----------------------------------------------------------------------------
(* requestWithdrawal *)

\* The first check reads the balance; without an account it is refused.
WithdrawRead(s, amount) ==
    /\ wallet.exists
    /\ amount <= wallet.available
    /\ wallet.account # None
    /\ Begin(s, "wd_retrieve", amount)
    /\ UNCHANGED <<wallet, stripe, ledgerVars>>

\* stripe.accounts.retrieve: a deleted account is cleared and refused; a ready
\* one is marked; otherwise, and whenever the call fails, the wallet's flag
\* decides (refusal is Fail).
WithdrawRetrieve(s) ==
    /\ At(s, "wd_retrieve")
    /\ LET a == req[s].account
       IN  \/ Deleted(a) /\ Goto(s, "clear")
           \/ Ready(a) /\ ~req[s].done /\ Goto(s, "wd_mark")
           \/ req[s].done /\ Goto(s, "wd_check")
    /\ UNCHANGED <<wallet, stripe, ledgerVars>>

WithdrawMark(s) ==
    /\ At(s, "wd_mark")
    /\ wallet' = [wallet EXCEPT !.onboarded = TRUE]
    /\ Goto(s, "wd_check")
    /\ UNCHANGED <<stripe, ledgerVars>>

MayReadBalance == "debit" \in Serialised => \A t \in Slots : ~At(t, "wd_debit")

\* The transaction reads the balance again ...
WithdrawCheck_Unchecked(s) ==
    /\ At(s, "wd_check")
    /\ MayReadBalance
    /\ Goto(s, "wd_debit")
    /\ UNCHANGED <<wallet, stripe, ledgerVars>>

WithdrawCheck(s) ==
    /\ At(s, "wd_check")
    /\ MayReadBalance
    /\ wallet.available >= req[s].amount
    /\ Goto(s, "wd_debit")
    /\ UNCHANGED <<wallet, stripe, ledgerVars>>

\* ... and commits: the debit, the PENDING withdrawal and its ledger row.  When
\* the answer is lost the handler ends, before its try block.
WithdrawDebit(s) ==
    /\ At(s, "wd_debit")
    /\ \E w \in WithdrawalIds :
         /\ withdrawals[w].status = "NONE"
         /\ withdrawals' = [withdrawals EXCEPT ![w] =
                              [status |-> "PENDING", amount |-> req[s].amount]]
         /\ debitRows' = [debitRows EXCEPT ![w] = @ + 1]
         /\ \/ req' = [req EXCEPT ![s] = [@ EXCEPT !.pc = "wd_transfer", !.wd = w]]
            \/ "debit_unanswered" \in Faults /\ Finish(s)
    /\ wallet' = [wallet EXCEPT !.available = @ - req[s].amount]
    /\ UNCHANGED <<stripe, earned, refundRows, transfers>>

WithdrawTransfer_Retry(s) ==
    /\ At(s, "wd_transfer")
    /\ \/ /\ Ready(req[s].account)
          /\ transfers' = [transfers EXCEPT ![req[s].wd] = @ + 1]
          /\ Goto(s, "wd_complete") \/ UNCHANGED req
       \/ UNCHANGED transfers /\ Goto(s, "wd_refund")
    /\ UNCHANGED <<wallet, stripe, earned, withdrawals, debitRows, refundRows>>

WithdrawTransfer_NoCatch(s) ==
    /\ At(s, "wd_transfer")
    /\ \/ /\ Ready(req[s].account)
          /\ transfers' = [transfers EXCEPT ![req[s].wd] = @ + 1]
          /\ Goto(s, "wd_complete")
       \/ UNCHANGED transfers /\ Finish(s)
    /\ UNCHANGED <<wallet, stripe, earned, withdrawals, debitRows, refundRows>>

\* stripe.transfers.create: it goes through (to an account that can receive),
\* it fails, or it goes through and the answer is lost.
WithdrawTransfer(s) ==
    /\ At(s, "wd_transfer")
    /\ \/ /\ Ready(req[s].account)
          /\ transfers' = [transfers EXCEPT ![req[s].wd] = @ + 1]
          /\ \/ Goto(s, "wd_complete")
             \/ "transfer_unanswered" \in Faults /\ Goto(s, "wd_refund")
       \/ UNCHANGED transfers /\ Goto(s, "wd_refund")
    /\ UNCHANGED <<wallet, stripe, earned, withdrawals, debitRows, refundRows>>

WithdrawComplete_Again(s) ==
    /\ At(s, "wd_complete")
    /\ withdrawals' = [withdrawals EXCEPT ![req[s].wd].status = "COMPLETED"]
    /\ Goto(s, "wd_refund")
    /\ UNCHANGED <<wallet, stripe, earned, debitRows, refundRows, transfers>>

\* The COMPLETED update; the catch block refunds when it throws, whether it was
\* written or not.  The notification after it is in the try block too, but is
\* only queued.
WithdrawComplete(s) ==
    /\ At(s, "wd_complete")
    /\ \/ /\ withdrawals' = [withdrawals EXCEPT ![req[s].wd].status = "COMPLETED"]
          /\ \/ Finish(s)
             \/ "completion_unanswered" \in Faults /\ Goto(s, "wd_refund")
       \/ /\ "completion_fails" \in Faults
          /\ Goto(s, "wd_refund")
          /\ UNCHANGED withdrawals
    /\ UNCHANGED <<wallet, stripe, earned, debitRows, refundRows, transfers>>

WithdrawRefund_StatusOnly(s) ==
    /\ At(s, "wd_refund")
    /\ withdrawals' = [withdrawals EXCEPT ![req[s].wd].status = "FAILED"]
    /\ refundRows' = [refundRows EXCEPT ![req[s].wd] = @ + 1]
    /\ Finish(s)
    /\ UNCHANGED <<wallet, stripe, earned, debitRows, transfers>>

\* The catch block's transaction: FAILED, whatever the status is by now, the
\* balance back, a REFUND row.
WithdrawRefund(s) ==
    /\ At(s, "wd_refund")
    /\ withdrawals' = [withdrawals EXCEPT ![req[s].wd].status = "FAILED"]
    /\ wallet' = [wallet EXCEPT !.available = @ + req[s].amount]
    /\ refundRows' = [refundRows EXCEPT ![req[s].wd] = @ + 1]
    /\ Finish(s)
    /\ UNCHANGED <<stripe, earned, debitRows, transfers>>

-----------------------------------------------------------------------------
(* The Connect account *)

\* Resetting the wallet's account, whichever account it has by now; the login
\* link goes on to create a new one.
ClearAccount(s) ==
    /\ req[s].pc \in {"clear", "clear_connect"}
    /\ wallet' = [wallet EXCEPT !.account = None, !.onboarded = FALSE]
    /\ IF At(s, "clear") THEN Finish(s) ELSE Goto(s, "connect_read")
    /\ UNCHANGED <<stripe, ledgerVars>>

\* getMyWallet and confirmConnectOnboarding look the account up at Stripe.
SyncRead(s) ==
    /\ wallet.account # None
    /\ Begin(s, "sync_retrieve", 0) \/ Begin(s, "confirm_retrieve", 0)
    /\ UNCHANGED <<wallet, stripe, ledgerVars>>

\* getMyWallet copies Stripe's answer both ways, confirm only towards TRUE; no
\* difference, or no answer, changes nothing (Fail).
SyncRetrieve(s) ==
    /\ req[s].pc \in {"sync_retrieve", "confirm_retrieve"}
    /\ LET a == req[s].account
       IN  \/ Deleted(a) /\ Goto(s, "clear")
           \/ /\ ~Deleted(a)
              /\ Ready(a) # req[s].done
              /\ At(s, "confirm_retrieve") => Ready(a)
              /\ req' = [req EXCEPT ![s] = [@ EXCEPT !.pc = "mark", !.done = Ready(a)]]
    /\ UNCHANGED <<wallet, stripe, ledgerVars>>

SyncMark_Truthy(s) ==
    /\ At(s, "mark")
    /\ wallet' = [wallet EXCEPT !.onboarded = req[s].account]
    /\ Finish(s)
    /\ UNCHANGED <<stripe, ledgerVars>>

\* The flag is written for the account the wallet has by now.
SyncMark(s) ==
    /\ At(s, "mark")
    /\ wallet' = [wallet EXCEPT !.onboarded = req[s].done]
    /\ Finish(s)
    /\ UNCHANGED <<stripe, ledgerVars>>

\* createConnectAccount starts with ensureWallet's upsert, from the route or
\* from the login link.
ConnectEnsure(s) ==
    /\ \/ Begin(s, "connect_retrieve", 0)
       \/ /\ At(s, "connect_read")
          /\ req' = [req EXCEPT ![s] = [@ EXCEPT !.pc = "connect_retrieve",
                                                 !.account = wallet.account]]
    /\ wallet' = [wallet EXCEPT !.exists = TRUE]
    /\ UNCHANGED <<stripe, ledgerVars>>

\* A live account only needs a link, which changes nothing (Fail).
ConnectRetrieve(s) ==
    /\ At(s, "connect_retrieve")
    /\ req[s].account # None => Deleted(req[s].account)
    /\ Goto(s, "connect_create")
    /\ UNCHANGED <<wallet, stripe, ledgerVars>>

ConnectCreate(s) ==
    /\ At(s, "connect_create")
    /\ \E a \in Accounts :
         /\ stripe[a] = "unused"
         /\ stripe' = [stripe EXCEPT ![a] = "created"]
         /\ req' = [req EXCEPT ![s] = [@ EXCEPT !.pc = "connect_write", !.account = a]]
    /\ UNCHANGED <<wallet, ledgerVars>>

ConnectWrite_KeepFlag(s) ==
    /\ At(s, "connect_write")
    /\ wallet' = [wallet EXCEPT !.account = req[s].account]
    /\ Finish(s)
    /\ UNCHANGED <<stripe, ledgerVars>>

ConnectWrite(s) ==
    /\ At(s, "connect_write")
    /\ wallet' = [wallet EXCEPT !.account = req[s].account, !.onboarded = FALSE]
    /\ Finish(s)
    /\ UNCHANGED <<stripe, ledgerVars>>

LoginRead(s) ==
    /\ wallet.account # None
    /\ Begin(s, "login_retrieve", 0)
    /\ UNCHANGED <<wallet, stripe, ledgerVars>>

\* Any failed look-up, a deleted account or Stripe not answering, clears the
\* account; a live one gets its link (Fail).
LoginRetrieve(s) ==
    /\ At(s, "login_retrieve")
    /\ Goto(s, "clear_connect")
    /\ UNCHANGED <<wallet, stripe, ledgerVars>>

-----------------------------------------------------------------------------
(* Stripe's side, and its account webhooks (one updateMany each, sent again *)
(* and again while their reason lasts)                                      *)

FinishOnboarding(a) ==
    /\ stripe[a] = "created"
    /\ stripe' = [stripe EXCEPT ![a] = "ready"]
    /\ UNCHANGED <<wallet, ledgerVars, req>>

DeleteAccount(a) ==
    /\ stripe[a] \in {"created", "ready"}
    /\ stripe' = [stripe EXCEPT ![a] = "deleted"]
    /\ UNCHANGED <<wallet, ledgerVars, req>>

\* account.updated of a complete account: the wallet that holds it is marked.
WebhookReady(a) ==
    /\ Ready(a)
    /\ wallet.account = a /\ ~wallet.onboarded
    /\ wallet' = [wallet EXCEPT !.onboarded = TRUE]
    /\ UNCHANGED <<stripe, ledgerVars, req>>

\* account.updated of a deleted account, account.application.deauthorized.
WebhookDeleted(a) ==
    /\ Deleted(a)
    /\ wallet.account = a
    /\ wallet' = [wallet EXCEPT !.account = None, !.onboarded = FALSE]
    /\ UNCHANGED <<stripe, ledgerVars, req>>

\* releaseEscrow credits the wallet (its side is modelled in Escrow).
Earn(amount) ==
    /\ earned + amount <= MaxEarned
    /\ earned' = earned + amount
    /\ wallet' = [wallet EXCEPT !.exists = TRUE, !.available = @ + amount]
    /\ UNCHANGED <<stripe, withdrawals, debitRows, refundRows, transfers, req>>

-----------------------------------------------------------------------------
(* Specification *)

Init ==
    /\ wallet = [exists |-> FALSE, available |-> 0, account |-> None, onboarded |-> FALSE]
    /\ earned = 0
    /\ stripe = [a \in Accounts |-> "unused"]
    /\ withdrawals = [w \in WithdrawalIds |-> [status |-> "NONE", amount |-> 0]]
    /\ debitRows = [w \in WithdrawalIds |-> 0]
    /\ refundRows = [w \in WithdrawalIds |-> 0]
    /\ transfers = [w \in WithdrawalIds |-> 0]
    /\ req = [s \in Slots |-> Idle]

Withdraw(s) ==
    \/ WithdrawRetrieve(s) \/ WithdrawMark(s) \/ WithdrawCheck(s) \/ WithdrawDebit(s)
    \/ WithdrawTransfer(s) \/ WithdrawComplete(s) \/ WithdrawRefund(s)

Connect(s) ==
    \/ ClearAccount(s) \/ SyncRead(s) \/ SyncRetrieve(s) \/ SyncMark(s)
    \/ ConnectEnsure(s) \/ ConnectRetrieve(s) \/ ConnectCreate(s) \/ ConnectWrite(s)
    \/ LoginRead(s) \/ LoginRetrieve(s)

Next ==
    \/ \E s \in Slots : Withdraw(s) \/ Connect(s) \/ Die(s) \/ Fail(s)
    \/ \E s \in Slots, amount \in Amounts : WithdrawRead(s, amount)
    \/ \E a \in Accounts : \/ FinishOnboarding(a) \/ DeleteAccount(a)
                           \/ WebhookReady(a) \/ WebhookDeleted(a)
    \/ \E amount \in Amounts : Earn(amount)

Spec == Init /\ [][Next]_vars

\* Fairness: a withdrawal in its try block makes its next call; nothing else
\* is owed, clients come and go.
FairSpec == Spec /\ \A s \in Slots : WF_vars(Withdraw(s))

-----------------------------------------------------------------------------
(* Properties *)

TypeOK ==
    /\ wallet \in Wallets
    /\ earned \in Nat
    /\ stripe \in [Accounts -> AccountStates]
    /\ withdrawals \in [WithdrawalIds -> Withdrawals]
    /\ debitRows \in [WithdrawalIds -> Nat]
    /\ refundRows \in [WithdrawalIds -> Nat]
    /\ transfers \in [WithdrawalIds -> Nat]
    /\ req \in [Slots -> Requests]

\* However requests overlap, fail or die, nothing is created or lost on the
\* books: the balance is what was earned less the withdrawals not refunded.
Booked == {w \in WithdrawalIds : withdrawals[w].status \in {"PENDING", "COMPLETED"}}
BalanceReconciles ==
    wallet.available = earned - MapThenSumSet(LAMBDA w : withdrawals[w].amount, Booked)

\* A withdrawal's ledger rows say what its status says: debited once, refunded
\* once if FAILED; it is COMPLETED only after Stripe sent the money, and Stripe
\* never sends it twice.
LedgerMatchesStatus ==
    \A w \in WithdrawalIds :
        LET st == withdrawals[w].status
        IN  /\ debitRows[w]  = IF st = "NONE" THEN 0 ELSE 1
            /\ refundRows[w] = IF st = "FAILED" THEN 1 ELSE 0
            /\ st = "COMPLETED" => transfers[w] = 1
            /\ transfers[w] <= IF st = "NONE" THEN 0 ELSE 1

\* COMPLETED and FAILED are final: the rollback never strikes a withdrawal
\* that was reported as paid.  The one exception is a COMPLETED that was written
\* without an answer: the catch block may overwrite it with FAILED, and then the
\* same step gives the amount back to the balance.
Settled == {w \in WithdrawalIds : withdrawals[w].status \in {"COMPLETED", "FAILED"}}
Struck(w) == /\ "completion_unanswered" \in Faults
             /\ withdrawals[w].status = "COMPLETED"
             /\ withdrawals'[w] = [withdrawals[w] EXCEPT !.status = "FAILED"]
             /\ wallet'.available = wallet.available + withdrawals[w].amount
SettledIsFinal == [][\A w \in Settled : withdrawals'[w] = withdrawals[w] \/ Struck(w)]_vars

\* With the transactions kept apart ("debit") the balance never goes below
\* zero, however the rest of the handlers overlaps.
NeverOverdrawn == wallet.available >= 0

\* With the account handlers kept apart ("account") a wallet is marked as
\* onboarded only for an account whose owner did finish onboarding, whatever
\* webhooks run in between.
OnboardedAccountWasReady ==
    wallet.onboarded /\ wallet.account # None
        => stripe[wallet.account] \in {"ready", "deleted"}

\* Unless a call fails after the money left, a refunded withdrawal was never
\* paid out.
RefundedNotPaid == \A w \in WithdrawalIds : refundRows[w] > 0 => transfers[w] = 0

\* While the process lives, and neither the debit goes unanswered nor the refund
\* throws, no withdrawal stays PENDING with the money locked.
PendingIsSettled ==
    \A w \in WithdrawalIds : withdrawals[w].status = "PENDING" ~> w \in Settled
=============================================================================
