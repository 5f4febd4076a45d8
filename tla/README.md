# A TLA+ verification of the Zelper backend

Zelper is a marketplace for household help: customers post jobs, helpers apply,
the two agree on a price, the customer pays through Stripe into escrow, the
helper works, the customer approves, the escrow is released to the helper's
wallet, and the helper withdraws it to a Stripe Connect account.  The backend is
one Node.js process (Express and Socket.IO) over Postgres (Prisma).  Paths below
are relative to the repository, services are under `src/app/modules/`.

The project models what the backend decides: how a job finds its helper and its
price, the money from the checkout to the withdrawal, the work and its review,
what reaches whom (messages, notifications, pushes), and the accounts with their
passwords and verification.  `PROJECT.json` lists components, runs, mutants, the source lines behind each
definition, findings, hazards and theorems.

## Inventory

| Component | State | Operations | Hard behaviour | What makes it correct |
|---|---|---|---|---|
| Payment and escrow (`Payment/`) | `payments`, Stripe Checkout sessions, `wallets.pending_balance`, COMMISSION and JOB_EARNING rows | createCheckoutSession, handleWebhookEvent, fulfillPayment, releaseEscrow | webhooks repeated, late or racing a checkout; check, await, unconditional write | each payment credited once, released once; wallets equal the payments behind them; a paying customer is served |
| Job life cycle (`Job/`) | `job_posts.status`, `selected_application_id`, submissions | createJob, updateJob, deleteJob, selectHelper, startJob, completeJob, requestRevision, approveJob | every handler checks the status it read, uploads, then writes blindly; approve is three separate writes | no work without payment; statuses move along the life cycle |
| Applications (`Job/`) | `job_applications.status`, unique per job and helper | applyToJob, withdrawApplication, acceptApplication, rejectApplication | selection trusted after an await; withdrawal looks at no status | the selected application is a live one |
| Negotiation (`Negotiation/`, `socket/negotiation.handler.ts`) | `negotiation_offers`, `negotiation_status`, final amount | saveOffer, acceptLatestOffer, rejectNegotiation | latest offer read before the transaction; no job status checked | the agreed price is an offer of the other side, fixed once paid |
| Wallet (`Wallet/`) | `wallets`, `wallet_transactions`, `withdrawals`, Stripe accounts | requestWithdrawal, createConnectAccount, createConnectLoginLink, getMyWallet, confirmConnectOnboarding, account webhooks | balance read then decremented; transfer outside the transaction with a compensating refund; account replaced under a handler | books balance; no overdraft; paid or refunded, never both; nothing locked for ever |
| Reviews (`Review/`) | `reviews` (unique per job), helper statistics | createReview | look-up then insert; statistics from a snapshot | one review; statistics equal the reviews |
| Chat (`Chat/`, `socket/chat.handler.ts`) | `conversations`, `messages` | getOrCreateConversationByJobId, sendMessage, mark read or delivered | find-then-create; presence read before the write | payer and payee can talk; nothing undelivered to one who is online |
| Notifications (`Notification/`, `helpers/fcmPush.ts`) | in-memory queue and flag, `notifications`, device tokens | add, processQueue, executeJob, addFcmToken | one consumer behind a flag; queue lost on restart | FIFO, each job processed once while the process lives |
| Authentication (`Auth/`) | `users`, `otps` | createAccount, socialLogin, forgotPassword, verifyOTP, resetPassword | attempts and `is_used` read, awaited, written | at most three guesses; an OTP used once |
| Users (`User/`) | profile, verification documents and status | updateProfile, requestHelperVerification, updateHelperStatus, deleteAccount | documents counted, then the status written | status agrees with the documents reviewed |
| Presence (`socket/socketHandler.ts`) | `onlineUsers` | connect, disconnect | delivery sweep against sends | online exactly while a socket is open |
| File upload (`upload/`) | files at S3 | uploadSingle, deleteSingle | file and row change in separate calls | a row's file exists |
| Live location, dashboard, HTTP plumbing, seeding | none of their own | relays, reads, I/O | | not modelled |

How they interact: controllers call services; services share Postgres rows and
call each other in process (approveJob calls releaseEscrow, everything enqueues
notifications); Stripe calls back through webhooks; clients also act through
sockets.  Nothing in the code locks a row, compares versions or raises the
isolation level above Postgres' READ COMMITTED; transactions are used for
all-or-nothing writes only.

## Modules

| Module | Models |
|---|---|
| `Escrow` | the money path of a job: checkout, Stripe session, webhook, fulfilment, work, approval, release, and the other handlers that write the same rows |
| `JobLifecycle` | the abstract promise: order of statuses, paid before work, paid out at most once and only after completion |
| `EscrowProofs` | proofs about `Escrow` |
| `SumProofs` | lemmas on sums over finite sets, for the balances of the two modules around it |
| `Withdrawal` | one helper's wallet: withdrawals and the Stripe Connect account |
| `WithdrawalProofs` | proofs about `Withdrawal` |
| `Handlers` | the handlers in flight, for the five modules below; extended by each |
| `Hiring` | one job: applications, selection, negotiation, the price of a checkout, assignment |
| `HiringProofs` | proofs about `Hiring` |
| `JobWork` | one helper's jobs: submissions, revision, approval with its escrow, review and statistics |
| `JobWorkProofs` | proofs about `JobWork` |
| `Delivery` | presence, messages and offers of a pair, their marks, the pair's conversation |
| `NotificationQueue` | the in-memory queue with its consumer, pushes, device tokens |
| `Mailbox` | the abstract promise of the queue |
| `MessagingProofs` | proofs about `Delivery` and `NotificationQueue`, and the safety of the refinement |
| `Credentials` | one e-mail address: account, password, one-time codes |
| `CredentialsProofs` | proofs about `Credentials` |
| `Verification` | a helper's documents, their files, the badge and the avatar |
| `VerificationProofs` | proofs about `Verification` |
| `MCEscrow`, `MCWithdrawal`, `MCJobBoard`, `MCMessaging`, `MCAccounts` | the instances for TLC |

**A handler in flight.**  In a Node process handlers interleave exactly at their
awaits.  The modules model that directly: a handler occupies a slot of `req`,
its `pc` names the call it makes next and its fields are the values it has read.
A Prisma call outside `$transaction` is one step.  A `$transaction` is one step
when its reads do not decide its writes (all but requestWithdrawal's, which is
split into its SELECT and its commit because READ COMMITTED lets another commit
in between).  `XRead` actions are a handler's look-up with its checks and
early returns; the action named after the function is the write.

**Escrow.**  `status`, `selected` are `job_posts`; `payStatus` is
`payments.status`, `"NONE"` when there is no row; `session` is the Stripe
Checkout session with its metadata, which repeats the payment's job, helper and
amount and outlives a deleted row; `pending`, `available` are the wallet's
balances from escrow; `commissionRows`, `earningRows` count
`wallet_transactions` per payment.  `PaySession`, `ExpireSession` are Stripe's
and the customer's steps.  A paid session's webhook can be delivered any number
of times.  `Abandon` is a handler that stops at its await: an exception, or the
process dying.  Prices are whole cents and `PlatformFee` is the
fee to the cent, half a cent rounded up; the code's `toFixed(2)` works on floats and
may round an exact half down, which changes the fee by a cent and, as the helper's
amount is computed from it once, nothing else; which price a checkout resolves is left open (any
of `Amounts`), since the budget and the negotiation may change at any time.

`Serialised` says which pairs of operations never overlap on one job.  The code
keeps none apart, so `{}` is the program.  A non-empty value asks: which locks
would be enough for this property?  The runs answer it, and the two violation
runs show what happens without (double release) and what locks cannot repair
(the paid helper).

**Withdrawal.**  `wallet` is the row; `earned` what escrow credited; `stripe` the
accounts; `withdrawals`, `debitRows`, `refundRows` the ledger; `transfers` what
Stripe really sent, which the database does not know.  The steps of
requestWithdrawal follow its awaits; `WithdrawTransfer` may succeed, fail, or
succeed with its answer lost; `WithdrawComplete` may throw, whether its COMPLETED was
written or not, and the `catch` block refunds; that block's transaction may throw
too (`Fail`), and so may the answer to the debit be lost, before the `try` begins.
Failing at the other calls changes nothing and is always possible.  `Faults` and `MayDie`
switch the rest on and off; `LateFaults` are those that can strike after the money left.  The branch for account
names containing "mock" or "seed" (no call to Stripe) behaves like a
transfer that succeeds, and is not distinguished.

**Handlers and regimes.**  The newer modules share `Handlers`: `req` holds the
handlers in flight, `Begin`, `Goto`, `Finish` move one on, `AtOnce` is a handler
whose other awaits decide nothing.  `MaxRequests` bounds requests in all.  Two
variables are chosen in the initial state and never change: `apart`, the pairs of
operations that never overlap, and `failing`, whether a handler may stop at an
await (a call throws, the process dies there).  The program is `apart = {}` with
`failing`; it is among the regimes of every run.  A property that needs a lock
says so in its own text (`Apart({{"reset"}})`) and must hold in *every* regime
with at least that lock, so one run answers, and one theorem states, what a
property holds under.  The code takes no locks: such a property says
which one would be enough.  Without the lock each of them is violated by two
handlers that overlap, even when none fails.

**Hiring.**  `job` is the job_posts row as far as hiring reads it, `apps` the
applications by helper (`"NONE"` for no row), `latest` the newest offer of each,
`payments` the payments rows; `consented` remembers the amounts the customer
posted, offered or accepted.  `UpdateRead` keeps what updateJob keeps across its
uploads: the selected application and the price to open a negotiation at.
`SelectFind` computes the row selectHelper will write from the job and
application it read; `before` is the selection it will undo.  acceptLatestOffer
selects without undoing.  A checkout reads the price in one or two further
look-ups (resolveAgreedAmount).  `Or` is the code's `||` and `??`: prices are
positive.  Deleting the job and the Stripe session are left to `Escrow`.

**JobWork.**  `submissions` are rows in the order of creation, apart from their
number, since the number is a count taken earlier.  `approveJob` is its
look-up and six steps, two of them releaseEscrow's.  `profile` keeps the set
of reviews behind the stored average and total: two writes that agree on the set
agree on both.  createReview's transaction is split where it computes the
statistics, as READ COMMITTED lets another commit in between.

**Delivery.**  `sockets` is `onlineUsers` (a user without sockets has no entry);
`items` are messages and offers, with `notice` for the messages completeJob and
requestRevision write.  A connection's sweep runs in the background and marks
messages, then offers.  A send looks at presence in one step and stores what it
saw in a later one.

**NotificationQueue.**  `add` runs processQueue synchronously to its first await,
and a job's end runs on to the next job's first await, so the flag and the queue
change in one step with the consumer; that atomicity is Node's, and it is what the
code relies on.  `PushSend` lets any sends fail; those whose token Firebase
dropped fail for that reason.  `Restart` empties the memory.
The refinement maps `waiting` to the job being stored and the queue behind it.

**Credentials.**  Codes belong to the address and outlive the account, as in the
schema.  `wrong` and `resets` count, beside the row, what a code was really used
for.  `TimePasses` is the ten minutes that expire an unverified code and, once
it is verified, forbid a reset with it.

**Verification.**  URLs and document ids come from one counter, so a URL names one
upload.  Deleting and replacing take the file first and the row second, as the
code does; `decidedOn` remembers the documents an admin's decision was made on.
The avatar has two writers: updateProfile, which deletes the file it replaced, and
socialLogin, which writes back the avatar it read or the provider's `Picture`, a URL
that is no file of ours.

## Runs

| Run | Instance | Question and answer |
|---|---|---|
| `escrow_overlap` | 1 job, 2 helpers, 2 payments, 2 handlers, nothing serialised | *Program as it is.* TypeOK, PaidBeforeWork, MoneyTrail, FundedOpensChat hold. |
| `escrow_locks` | the same with two prices and `MoneyLocks` | With fulfil/fulfil, approve/approve, checkout/checkout and checkout/fulfil kept apart, OneCreditPerPayment, OnePaymentPerJob and EscrowExact hold, deletions and reselections included. |
| `escrow_lifecycle` | 1 job, 1 helper, 2 payments, 2 handlers, `StatusLocks`, fairness | Escrow implements JobLifecycle; PaidIsFulfilled. |
| `escrow_double_release` | as escrow_overlap | *Violated.* Two overlapping approvals release twice. |
| `escrow_paid_helper` | `StatusLocks` | *Violated* although no two writers overlap: select, checkout, reject the application, pay, fulfil. |
| `withdrawal_overlap` | 2 accounts, 2 withdrawals, amounts 1 and 2, 2 earned, 2 handlers, all faults, process may die | *Program as it is.* TypeOK, BalanceReconciles, LedgerMatchesStatus, SettledIsFinal hold. |
| `withdrawal_settles` | the same with amount 1, `"debit"` and `"account"` serialised; the transfer may go unanswered, COMPLETED may throw; the process lives; fairness | NeverOverdrawn, OnboardedAccountWasReady, PendingIsSettled hold, and SettledIsFinal without its exception. |
| `withdrawal_race` | nothing serialised | *Violated.* Two transactions read the balance before either debits it. |
| `withdrawal_paid_and_refunded` | serialised, COMPLETED may throw | *Violated.* Paid and refunded. |
| `job_board` | Hiring: 2 helpers, 1 budget, 1 offer, 2 payments; JobWork: 2 jobs; 2 handlers, 7 requests, and 12 for the work under its locks; regimes: the program, the program with completeJob serialised, all locks without failures | CustomerAgreedPrice holds of the program; NumbersDistinct with completeJob serialised; RejectedNotHired, NoneLeftPending, WaitingHasOnePending, CompletedIsSettled, StatsAgree with their locks. |
| `messaging` | Delivery: a pair, 2 sockets each, 2 items; NotificationQueue: 3 notifications, 2 receivers, 1 device; 2 handlers, 7 requests; the program, and locks without failures; fairness | The program: ImplementsMailbox (safety and liveness), LiveTokenKept. With their locks: OnlineHasAll, OneConversation. |
| `accounts` | Credentials: 3 passwords, 2 attempts; Verification: any documents; 2 handlers, 5 requests; the program, the program with profile updates and social logins kept apart, and locks without failures | With the avatar's lock alone: AvatarHasFile. Without failures: DocumentsHaveFiles, BadgeOnDecidedDocuments. With their locks: GuessesBounded, OneResetPerCode, ChangeReplacesKnown. |

The runs of `MCJobBoard`, `MCMessaging` and `MCAccounts` hold two components each, *side by side*: `focus` is chosen at
the start and a behaviour moves one of the two, as they write no common row.
The states are the sum of the two, not their product, and nothing either could do
is lost.  It is not a composition and claims nothing about one.

Why the bounds are enough to be interesting: the bugs of this code are races of
two handlers over one row, so two slots show every pair of them in every order,
and one job or one wallet suffices because jobs share only a helper's balance
increments and wallets share nothing.  Two payments give a stale
and a fresh checkout; two helpers give a reselection.  Two withdrawals of
amounts 1 and 2 against 2 earned give a success, a refusal and a race.  The
prices 33.33 and 10.00 make the 10 % fee round once and divide once.  Seven
requests let a job be applied for, selected, negotiated, accepted, paid and still
raced by another; or be started, submitted, revised, resubmitted, approved and
reviewed with one to spare.  Two reviews of one helper, the case StatsAgree is
about, take eight requests at least, so the work under its locks has twelve
(`WithinBound`): both jobs can be revised and resubmitted too.  Two attempts instead of the code's three already
separate the last guess from the others.  Three passwords are the old one and two
that a change and a reset can disagree on.  Three notifications put one in the
consumer's hands and two behind it.  The theorems below remove the bounds for the properties they state.

Symmetry (helpers, payments, jobs, slots; accounts, withdrawals; passwords) is
used only in runs without liveness.  Escrow runs do not check deadlock: once its only job
is deleted and its handlers are gone, nothing is left to do.  Withdrawal runs
check it, since a helper can always open the wallet page.  The runs of the last three instances do
not: a behaviour stops when `MaxRequests` are used up.

**Fairness.**  `Escrow!FairSpec`: a handler in flight makes its next call or
stops (an await settles); Stripe repeats a webhook until it gets a 200, and
`payment.controller.ts` answers 200 only after fulfillPayment returned, so
delivery and its transaction are strongly fair: they may be kept waiting or fail any
number of times, not for ever.  A slot is a bound of the instance, never a resource of the
program, hence strong fairness on getting one.  Clients owe nothing.
`Withdrawal!FairSpec`: a withdrawal under way makes its next call; nothing
repeats it when the process dies, so that run has `MayDie = FALSE`.  `Fail` may always
come first: `PendingIsSettled` says something of what follows the debit, where an error
leads to the `catch` block.
`NotificationQueue!NotificationFairSpec` (and the same in `MessagingSpec`): the
database and Firebase answer or throw, so a consumer makes its next step; weak
fairness is enough, as nothing takes the step away but a restart.  Nobody owes
the queue a notification.  Mailbox's fairness, that what waits is
delivered or lost, then follows, and TLC checks it.

## Properties

*Program as it is.*  `PaidBeforeWork`: whatever overlaps, a job past OPEN has a
session really paid and credited.  `MoneyTrail`: earnings follow escrow, escrow
follows payment.  `FundedOpensChat`: a payment in or out of escrow has its
conversation.  `BalanceReconciles`, `LedgerMatchesStatus`:
the wallet's books, per withdrawal and in sum, in every interleaving and crash.
`SettledIsFinal`: COMPLETED and FAILED are not touched again, with the one exception the
code has: a COMPLETED whose answer was lost makes the `try` block throw, and the `catch`
block strikes it (`Struck`), and must then give the same amount back in the same step.

*With some overlaps excluded.*  `OneCreditPerPayment`, `OnePaymentPerJob`,
`EscrowExact` (to the cent, with the money of deleted jobs accounted for),
`ImplementsLifecycle`, `PaidIsFulfilled`, `NeverOverdrawn`,
`OnboardedAccountWasReady`.

*With some faults excluded.*  `RefundedNotPaid`: nothing fails after the money left; TLC
shows it violated when something does, and the theorem that this is all it needs.
`PendingIsSettled`: the process lives, the debit's answer arrives and the refund's
transaction does not throw; the transfer may fail or go unanswered and its COMPLETED
may throw.

*Hiring.*  `CustomerAgreedPrice` (program): no interleaving of edits, offers,
acceptances and selections charges a price the customer did not post, offer or
accept.  `RejectedNotHired`, `NoneLeftPending`: what the stale selection of
rejectApplication and the stale checks of applyToJob and selectHelper can break,
and which operations must be kept apart for it not to.

*Work.*  `NumbersDistinct`: the count-plus-one numbers.  `WaitingHasOnePending`,
`CompletedIsSettled`: status, submissions and escrow, written in separate calls,
agree whenever nobody is at work on the job.  `StatsAgree`: the profile, written
from two places out of snapshots, agrees with the reviews and the jobs done.

*Delivery.*  `OnlineHasAll`: once nothing is under way, one who is online has
everything delivered, except notices.  `OneConversation`.

*Notifications.*  `ImplementsMailbox` (program): one consumer, order, no loss
without a failure, nothing left behind the flag.  `LiveTokenKept` (program):
the late clean-up of dead tokens takes no live device from its user; it rests on
Firebase never reviving a token it has reported dead.

*Accounts.*  `GuessesBounded`, `OneResetPerCode`, `ChangeReplacesKnown`: codes and
passwords under overlap.  A guess counts from the comparison, so one whose update
throws is compared and not counted: the bound needs that nothing fails.
`AvatarHasFile`, `DocumentsHaveFiles`: files
are deleted by URLs read earlier; the avatar's needs that no social login writes back
the avatar an update is replacing (`AvatarLock`), and nothing else.  `BadgeOnDecidedDocuments`: a decision does not
outlive the documents it was made on.

Each property comes with a bug that breaks it: an operator with an underscore in
its name, such as `StartRead_AnyOpen`, put in the place of the definition after it.

## Proofs

Every invariant and action property the runs check is also a theorem, for
arbitrary constants that satisfy the named assumptions.  Most assumptions only
keep the data apart (`None` is not an id) or give it its kind (prices are
naturals, the fee is a percentage).  Two say more: `DeliveryAssumption`, that a
user has a peer (the module is about a pair), and `JobWorkAssumption`, that a
helper's jobs are finitely many, without which counting them means nothing.
What is under locks is proved for every set of locks that contains them, and for
any number of handlers.

None of the invariants is inductive as stated: a handler carries what it checked
into a later write, so each proof says first what a handler in flight still has
right, and then why no step of another takes it away.

**`EscrowProofs`**, in four layers.  `Inv` (`TypeCorrect`, `PaidBeforeWorkAlways`,
`MoneyTrailAlways`; every `Serialised`, the empty set included): a handler about to
write a status past OPEN has a paid job, one about to fulfil a paid session, one
about to release a credited payment (`Flights`); a FUNDED payment was credited and
an unused id has no row (`Rows`); the payment id a checkout draws is its own until
the row exists (`OneDraft`), or its `payment.create` could turn another's row back
to PENDING.  Sessions stay paid, keep their job, and ledger rows only grow
(`Monotone`), which makes these stable.

`Inv2` adds, still without a lock, what a credited payment leaves behind: the job
past OPEN and the conversation, unless the job was deleted (`Traces`), hence
`FundedOpensChatAlways`.  It also turns `Serialised` into mutual exclusion of the
handlers in flight (`Exclusion`), on which the locked layers rest.

`LockInv` (`MoneyLocks \subseteq Serialised`) gives `OneCreditPerPaymentAlways` and
`OnePaymentPerJobAlways`: a handler that found a payment PENDING or FUNDED is alone
with it, and when it writes the row is still so or gone (`Alone`).  `EscrowExactAlways` adds
that the balances are sums over the payments; a fulfilment or a release changes one
summand, and a deletion none, as what a deleted job had earned stays in the wallet.

`LifeInv` (`StatusLocks`) says that the status a handler checked is still its job's
when it writes (`Placed`), and gives `ImplementsLifecycleHolds`, the refinement of
`JobLifecycle`: the initial state maps to its initial state, and every step of
every handler to a step of one job's life cycle or to none.

**`SumProofs`.**  `MapThenSumSet` is a recursive function over subsets; the balances
need what one element more or less does to it.  An induction theorem would take the
claim as an operator, which the provers cannot instantiate, so the induction is
written out: among the subsets that violate a claim there is a minimal one, since
the strict subset ordering of a finite set is well-founded; without one
element it satisfies the claim, and then so does it.

**`WithdrawalProofs`**: `TypeCorrect`, `LedgerMatchesStatusAlways`,
`SettledIsFinalAlways`, `BalanceReconcilesAlways` for every overlap, fault and
death; `RefundedNotPaidAlways` when `Faults` holds no late one; `NeverOverdrawnAlways` when
`"debit" \in Serialised`, `OnboardedAccountWasReadyAlways` when `"account"` is.
The idea is ownership: `Flights` says a handler in the try block has a withdrawal
whose transfer was made or not as its `pc` says, PENDING or, in the `catch` block with
the answer to COMPLETED lost, COMPLETED; `OneOwner` says that no other
handler has the same one.  Only four actions book anything; each needs one lemma,
and everything else is shown to be calm.  `Books` adds that the balance is what was
earned less the withdrawals still debited, a finite set that a debit and a refund
change by one.  `Covered`: the transaction that has read the balance can still pay
from it, and is alone.  `AccountInv`: the one handler of the account is looking at
the wallet's account, unless a webhook took that away meanwhile, and marks it
only once it was ready.

**`HiringProofs`**: `TypeCorrect` and `CustomerAgreedPriceAlways` for every overlap
and failure, `RejectedNotHiredAlways` and `NoneLeftPendingAlways` for every
regime with their locks.  `Sound(r, c, a)` says what a handler `r` still has
right, given the consented amounts `c` and the applications `a`; since both only
grow (`Growing`), no other handler's step takes it away (`SoundStable`), and each
action has only its own handler to answer for.  For the two locked properties
the steps are sorted by what they do to `req` (`Moving`) and whether they touch the
selection or the statuses; the locks then give mutual exclusion as an invariant
(`RejectAlone`, `AssignedAlone`), and that gives the property.

**`JobWorkProofs`**, in three layers.  `Inv` gives `NumbersDistinctAlways` from the
lock of completeJob alone: submission i bears number i, the one handler that counted
will add the next (`CompletesAlone`), and, with no lock, a job that waits has a
submission (`WaitingHasOne`): requestRevision, which adds one numbered 1 when it
finds none, always finds one.  `TypeInv` gives `TypeCorrect`; that numbers are
bounded by the requests needs the handlers still to add a submission counted
(`Counted`).  `WorkInv`, under `WorkLocks` and without failures, gives
`WaitingHasOnePendingAlways`, `CompletedIsSettledAlways`, `StatsAgreeAlways`: what
each handler knows of its job by where it stands (`Knows`); that a job none is in
the middle of changing has its status, submissions and escrow in agreement
(`Rests`); and that a count about to be written is still the count (`StatsRight`).  No two
handlers are ever on one job (`AloneOnJob`), although a review may overlap work: it
is of a job that is done, and the other work is on jobs that are not.

**`MessagingProofs`**, two sections.  Delivery: `OneConversationAlways` for abandoned
handlers too, since under its locks one handler at a time is between the look-up and
the create, and one at the create saw no conversation; `DeliveryTypeCorrect`, where each
conversation is counted against a request of its own; `OnlineHasAllAlways` under the
locks of sending and without failures: a send that saw its receiver offline is
right about that when it stores (`SeenTruly`), and what one who is online lacks is in
a table that a connection's sweep has yet to reach (`LacksSwept`).  The
queue: `NotificationTypeCorrect`, `LiveTokenKeptAlways` and `ImplementsMailSafety`, the
safety half of the refinement, restarts included.  The invariant (`OneConsumer`) is
that the flag is a lock: set exactly while one handler consumes, and a queue nobody
consumes is empty.  It makes the mapping's CHOOSE unambiguous, and each step of the
queue a step of Mailbox or none.

**`CredentialsProofs`**: `TypeCorrect` for the program, `GuessesBoundedAlways`,
`OneResetPerCodeAlways`, `ChangeReplacesKnownAlways` for every regime with their
locks.  Each has its own strengthening: the one check in flight holds the
attempts its code has now; a code already used to reset is marked, or its reset
is the one in flight; the password the one change was shown is the account's.

**`VerificationProofs`**: `TypeCorrect` for every overlap and failure and
`AvatarHasFileAlways` for those in which no social login overlaps a profile update,
from `None \notin Nat`.  The invariant is freshness: no two handlers hold
the same new URL (`HeldOnce`); the one a profile is about to show is no document's
and in no handler's memory (`NextAvatar`); the avatar is no document's (`AvatarSpared`); and, under
`AvatarLock`, not what a profile update is about to delete, while what a social login is
about to write back is the avatar (`Locked`).  Without failures,
`DocumentsHaveFilesAlways`: a document whose file is gone is one some handler in
flight is about to delete or replace (`Settled`); and
`BadgeOnDecidedDocumentsAlways`: while a decision stands over other documents than it
was made on, a handler is on its way to write the badge, whatever the others do
(`BadgeInv`).

*Only model-checked*: liveness and the fairness behind it, which are beyond the
prover: PaidIsFulfilled, PendingIsSettled and the liveness half of ImplementsMailbox.
The four runs that expect a violation are TLC's as well.

## Findings

1. **Double release** (`escrow_double_release`).  approveJob and releaseEscrow
   check first and write unconditionally later.  A conditional update
   (`updateMany where status = FUNDED`, checking the count) would close it.
2. **Paid helper not selected** (`escrow_paid_helper`).  fulfillPayment does not
   set `selected_application_id`; the paid helper cannot start the job.
3. **Overdraft** (`withdrawal_race`).  The check whose error message names the
   race does not prevent it under READ COMMITTED.
4. **Paid and refunded** (`withdrawal_paid_and_refunded`).  The database update
   shares the transfer's `try` block.

Observations without a run.

*Money.*  A second checkout deletes the PENDING payment while
the first Stripe session stays payable, and paying it is then ignored
(PaidIsFulfilled exempts deleted rows for this reason).  A crash between
COMPLETED and the release leaves the escrow unreleasable, as approving again is
refused.  deleteJob leaves the helper's pending balance behind.  A withdrawal stays
PENDING for ever, its money locked, when the process dies after the debit, when the answer
to the debit is lost, or when the refund throws: that transaction runs in the `catch`
block and in no `try` of its own, and nothing looks for the withdrawal again
(TLC finds PendingIsSettled violated with `"refund_fails"` in `Faults`).  A withdrawal of a
fraction of a cent is debited exactly and transferred rounded.

*Hiring.*  acceptLatestOffer looks at no job status, leaves the helper selected
before SELECTED, and selects WITHDRAWN or REJECTED applications, which
selectHelper refuses.  acceptApplication puts a negotiation that was ACCEPTED back
to PENDING, and updateJob changes the budget after it, where the workflow document
(phase 8) says "Once accepted Price becomes locked".
withdrawApplication looks at no job status, so a paid helper's application can be
WITHDRAWN; a rejected helper may withdraw and then apply again.  With a job that is
not negotiable the price is the budget, so a budget negotiated with one helper is
what the next one is hired at.

*Work and chat.*  Chat opens on selection, although the workflow document says
"only after successful payment"; a revision sets REVISION_REQUESTED where it
says IN_PROGRESS.  Notices of completeJob and requestRevision are stored as
undelivered for online receivers and emitted to the room `conversation:<id>`,
while clients join `chat:<id>`.

*Accounts.*  socialLogin writes back the avatar it read; when updateProfile has
replaced it in between and deletes the old file, the profile shows a file that is gone
(TLC finds AvatarShown violated without `AvatarLock`); writing it only when the row has
none would close it.  Codes outlive the account: a new account of the same address can
be reset with a code of the old one.  updateHelperStatus looks at neither the
status nor the documents.  The URLs stored for avatars and documents are presigned
for seven days, and nothing renews them: the files stay (AvatarHasFile,
DocumentsHaveFiles), the links do not.

## Not modelled

Dashboard and the paginated look-ups (they write nothing), live location (relays
positions, keeps nothing), titles, places and images of a job and the other
profile columns (single writes nothing else depends on), updateProfile's change of the
e-mail address (`Credentials` is about one address and accounts that keep it; a reset in flight for an
account that moves away meanwhile ends like one whose account is deleted), marking notifications as
read, loginUser and refreshToken (tokens are a library's; the device they register
is `AddFcmToken`), what deleteAccount cascades to, e-mail, hashing, HTTP plumbing,
seeding and start-up.

## What is left

1. A composition of `Hiring` and `Escrow` over the shared selection and
   applications; its state space is the obstacle.
2. deleteAccount's cascade over jobs, payments and wallets.
3. What the locked theorems still ask of the handlers on one job could be asked of
   less: `WorkLocks` keeps the work on different jobs of a helper apart too, which
   only the statistics need.
