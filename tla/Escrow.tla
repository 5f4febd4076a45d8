------------------------------- MODULE Escrow -------------------------------
(***************************************************************************)
(* The money path of one job: checkout, Stripe webhook, escrow, the        *)
(* helper's work, approval and release.  It models                         *)
(*   Payment/payment.services.ts   createCheckoutSession, the webhook,     *)
(*                                 fulfillPayment, releaseEscrow           *)
(*   Job/job.services.ts           selectHelper, rejectApplication,        *)
(*                                 startJob, completeJob, requestRevision, *)
(*                                 approveJob, deleteJob                   *)
(*   Negotiation, Chat, Review     the steps that write the same rows      *)
(* (all under src/src/app/modules).                                        *)
(*                                                                         *)
(* The backend is one Node process, so handlers interleave exactly at      *)
(* their awaits.  A handler in flight occupies a slot: its program counter *)
(* names the database or Stripe call it makes next and its fields are what *)
(* it has read so far.  A prisma call outside $transaction is one step; a  *)
(* $transaction whose reads do not decide its writes is one step.  An      *)
(* update of a row that no longer exists throws, which is Abandon.         *)
(*                                                                         *)
(* The module is the projection of those handlers on the job's status and  *)
(* selected helper, payments, wallets, wallet transactions, conversations  *)
(* and reviews.  Applications, submissions and user statistics are left    *)
(* out: accepting an offer selects a helper whatever his application says, *)
(* so here every helper can be selected at any time anyway.                *)
(***************************************************************************)
EXTENDS Integers, FiniteSets, FiniteSetsExt

CONSTANTS
    Jobs,         \* job posts, all owned by customers outside Helpers
    Helpers,      \* helper accounts; each has applied to every job
    PaymentIds,   \* the UUIDs checkout requests draw (bounds their number)
    Amounts,      \* prices a checkout may resolve, in cents
    FeePercent,   \* config.stripe.PLATFORM_FEE_PERCENT
    Slots,        \* handlers in flight at once (a bound of the instance)
    Serialised,   \* pairs of operations that never overlap on one job
    None

Ops == {"checkout", "fulfil", "select", "reject", "accept", "start",
        "complete", "revise", "approve", "review"}

ASSUME NoneAssumption == None \notin Jobs \cup Helpers \cup PaymentIds
ASSUME AmountsAssumption == Amounts \subseteq Nat
ASSUME FeeAssumption == FeePercent \in 0 .. 100
ASSUME SerialisedAssumption == Serialised \subseteq SUBSET Ops

VARIABLES
    status,         \* job_posts.status, "DELETED" once the row is gone
    selected,       \* helper of job_posts.selected_application, or None
    payStatus,      \* payments.status, "NONE" when there is no such row
    session,        \* the Stripe checkout session with its metadata
    pending,        \* wallets.pending_balance
    available,      \* wallets.available_balance earned from escrow
    commissionRows, \* wallet_transactions COMMISSION rows per reference_id
    earningRows,    \* wallet_transactions JOB_EARNING rows per reference_id
    convs,          \* <<job, helper>> pairs with a conversation
    reviewed,       \* jobs with a review (reviews.job_id is unique)
    req             \* the handlers in flight

jobVars    == <<status, selected>>
walletVars == <<pending, available, commissionRows, earningRows>>
vars == <<status, selected, payStatus, session, pending, available,
          commissionRows, earningRows, convs, reviewed, req>>

-----------------------------------------------------------------------------
(* Data *)

JobStatuses == {"OPEN", "ASSIGNED", "IN_PROGRESS", "WAITING_FOR_APPROVAL",
                "REVISION_REQUESTED", "COMPLETED", "CLOSED", "DELETED"}
PayStatuses == {"NONE", "PENDING", "FAILED", "FUNDED", "RELEASED"}
SessionStates == {"unused", "created", "open", "paid", "expired"}

NoSession == [state |-> "unused", job |-> None, helper |-> None, amount |-> 0]
Sessions  == [state: SessionStates, job: Jobs \cup {None},
              helper: Helpers \cup {None}, amount: Amounts \cup {0}]

\* The operation each program counter belongs to.
OpOf == [checkout_find |-> "checkout", checkout_delete |-> "checkout",
         checkout_session |-> "checkout", checkout_create |-> "checkout",
         fulfil_tx |-> "fulfil", select_tx |-> "select",
         reject_tx |-> "reject", accept_tx |-> "accept",
         start_write |-> "start", complete_write |-> "complete",
         revise_write |-> "revise", approve_write |-> "approve",
         release_find |-> "approve", release_tx |-> "approve",
         review_tx |-> "review"]

Idle == [pc |-> "idle", job |-> None, helper |-> None, pay |-> None]
Requests == [pc: DOMAIN OpOf \cup {"idle"}, job: Jobs \cup {None},
             helper: Helpers \cup {None}, pay: PaymentIds \cup {None}]

\* toFixed(2) of a price in dollars: the fee to the nearest cent.
PlatformFee(amount)  == (amount * FeePercent + 50) \div 100
HelperAmount(amount) == amount - PlatformFee(amount)

\* What the payment row holds besides its status; the session's metadata
\* repeats it, and outlives the row.
Payee(p)  == session[p].helper
Payout(p) == HelperAmount(session[p].amount)

PaymentsOf(j) == {p \in PaymentIds : session[p].job = j}
RowsOf(j)     == {p \in PaymentsOf(j) : payStatus[p] # "NONE"}
Exists(j)     == status[j] # "DELETED"

-----------------------------------------------------------------------------
(* The conditions the handlers check on payments.  A name with an           *)
(* underscore here and below is a bug a maintainer could make: the checks   *)
(* put it in the place of the definition after it, to see it caught.        *)

\* createCheckoutSession looks for PENDING and FUNDED payments of the job.
LivePayments_FundedOnly(j) == {p \in RowsOf(j) : payStatus[p] = "FUNDED"}
LivePayments(j) == {p \in RowsOf(j) : payStatus[p] \in {"PENDING", "FUNDED"}}

\* checkout.session.completed is for a paid session, and fulfillPayment returns
\* at once unless the payment is PENDING.
Fulfillable_AnyStatus(p)  == session[p].state = "paid" /\ payStatus[p] # "NONE"
Fulfillable_AnyEvent(p)   == session[p].state # "unused" /\ payStatus[p] = "PENDING"
Fulfillable_IfSelected(p) == /\ session[p].state = "paid" /\ payStatus[p] = "PENDING"
                             /\ selected[session[p].job] = session[p].helper
Fulfillable(p) == session[p].state = "paid" /\ payStatus[p] = "PENDING"

\* releaseEscrow looks for a FUNDED payment of the job.
Releasable_AnyStatus(p) == payStatus[p] # "NONE"
Releasable(p) == payStatus[p] = "FUNDED"

-----------------------------------------------------------------------------
(* Handlers in flight *)

MayOverlap(j, op) ==
    \A t \in Slots : (req[t].pc # "idle" /\ req[t].job = j)
                        => {OpOf[req[t].pc], op} \notin Serialised

\* The handler in slot s starts on job j: its first read has succeeded and
\* its checks have passed.
Begin(s, pc, j, h, p) ==
    /\ req[s].pc = "idle"
    /\ MayOverlap(j, OpOf[pc])
    /\ req' = [req EXCEPT ![s] = [pc |-> pc, job |-> j, helper |-> h, pay |-> p]]

At(s, pc)     == req[s].pc = pc
Advance(s, r) == req' = [req EXCEPT ![s] = r]
Finish(s)     == req' = [req EXCEPT ![s] = Idle]

\* The handler stops at its await: the call throws (a vanished row, Stripe or
\* an upload failing, a price not yet agreed) or the process dies there.
Abandon(s) ==
    /\ req[s].pc # "idle"
    /\ Finish(s)
    /\ UNCHANGED <<jobVars, walletVars, payStatus, session, convs, reviewed>>

-----------------------------------------------------------------------------
(* createCheckoutSession *)

CheckoutRead(s, j) ==
    /\ status[j] = "OPEN"
    /\ selected[j] # None
    /\ Begin(s, "checkout_find", j, selected[j], None)
    /\ UNCHANGED <<jobVars, walletVars, payStatus, session, convs, reviewed>>

\* findFirst over the job's PENDING and FUNDED payments: FUNDED answers 409,
\* PENDING is taken for an abandoned checkout.
CheckoutFind(s) ==
    /\ At(s, "checkout_find")
    /\ LET live == LivePayments(req[s].job)
       IN  \/ /\ live = {}
              /\ Advance(s, [req[s] EXCEPT !.pc = "checkout_session"])
           \/ \E p \in live :
                IF payStatus[p] = "FUNDED"
                THEN Finish(s)
                ELSE Advance(s, [req[s] EXCEPT !.pc = "checkout_delete", !.pay = p])
    /\ UNCHANGED <<jobVars, walletVars, payStatus, session, convs, reviewed>>

\* payment.delete by id, whatever the row's status is by now.
CheckoutDelete(s) ==
    /\ At(s, "checkout_delete")
    /\ payStatus[req[s].pay] # "NONE"
    /\ payStatus' = [payStatus EXCEPT ![req[s].pay] = "NONE"]
    /\ Advance(s, [req[s] EXCEPT !.pc = "checkout_session", !.pay = None])
    /\ UNCHANGED <<jobVars, walletVars, session, convs, reviewed>>

\* resolveAgreedAmount, then stripe.checkout.sessions.create under a fresh
\* payment id.  Which price is resolved is the negotiation's business.
CheckoutCreateSession(s) ==
    /\ At(s, "checkout_session")
    /\ Exists(req[s].job)
    /\ \E p \in PaymentIds, a \in Amounts :
         /\ session[p].state = "unused"
         /\ session' = [session EXCEPT ![p] =
                          [state |-> "created", job |-> req[s].job,
                           helper |-> req[s].helper, amount |-> a]]
         /\ Advance(s, [req[s] EXCEPT !.pc = "checkout_create", !.pay = p])
    /\ UNCHANGED <<jobVars, walletVars, payStatus, convs, reviewed>>

\* payment.create; the customer gets the session's URL from the response.
CheckoutCreatePayment(s) ==
    /\ At(s, "checkout_create")
    /\ Exists(req[s].job)
    /\ payStatus' = [payStatus EXCEPT ![req[s].pay] = "PENDING"]
    /\ session' = [session EXCEPT ![req[s].pay].state = "open"]
    /\ Finish(s)
    /\ UNCHANGED <<jobVars, walletVars, convs, reviewed>>

-----------------------------------------------------------------------------
(* Stripe: the customer pays or lets the session expire.  Stripe delivers   *)
(* checkout.session.completed at least once: any number of times, at any    *)
(* time after the payment.                                                  *)

PaySession(p) ==
    /\ session[p].state = "open"
    /\ session' = [session EXCEPT ![p].state = "paid"]
    /\ UNCHANGED <<jobVars, walletVars, payStatus, convs, reviewed, req>>

ExpireSession(p) ==
    /\ session[p].state = "open"
    /\ session' = [session EXCEPT ![p].state = "expired"]
    /\ UNCHANGED <<jobVars, walletVars, payStatus, convs, reviewed, req>>

\* checkout.session.expired: one updateMany on the PENDING row.
WebhookExpired(p) ==
    /\ session[p].state = "expired"
    /\ payStatus[p] = "PENDING"
    /\ payStatus' = [payStatus EXCEPT ![p] = "FAILED"]
    /\ UNCHANGED <<jobVars, walletVars, session, convs, reviewed, req>>

\* checkout.session.completed: the payment is found by session id or by the
\* metadata's payment_id, and read again by fulfillPayment, which returns at
\* once unless it is PENDING.
WebhookCompleted(s, p) ==
    /\ Fulfillable(p)
    /\ Begin(s, "fulfil_tx", session[p].job, session[p].helper, p)
    /\ UNCHANGED <<jobVars, walletVars, payStatus, session, convs, reviewed>>

\* The transaction of fulfillPayment.  Its updates are unconditional.
FulfillPayment(s) ==
    /\ At(s, "fulfil_tx")
    /\ LET p == req[s].pay
           j == req[s].job
           h == req[s].helper
       IN  /\ payStatus[p] # "NONE"
           /\ Exists(j)
           /\ payStatus' = [payStatus EXCEPT ![p] = "FUNDED"]
           /\ status' = [status EXCEPT ![j] = "ASSIGNED"]
           /\ convs' = convs \cup {<<j, h>>}
           /\ pending' = [pending EXCEPT ![h] = @ + Payout(p)]
           /\ commissionRows' = [commissionRows EXCEPT ![p] = @ + 1]
    /\ Finish(s)
    /\ UNCHANGED <<selected, session, available, earningRows, reviewed>>

-----------------------------------------------------------------------------
(* Choosing the helper: selectHelper, rejectApplication, acceptLatestOffer *)

SelectRead(s, j, h) ==
    /\ status[j] = "OPEN"
    /\ Begin(s, "select_tx", j, h, None)
    /\ UNCHANGED <<jobVars, walletVars, payStatus, session, convs, reviewed>>

SelectHelper(s) ==
    /\ At(s, "select_tx")
    /\ Exists(req[s].job)
    /\ selected' = [selected EXCEPT ![req[s].job] = req[s].helper]
    /\ Finish(s)
    /\ UNCHANGED <<status, walletVars, payStatus, session, convs, reviewed>>

\* Rejecting an application that is not the selected one leaves the job alone.
RejectRead(s, j) ==
    /\ status[j] = "OPEN"
    /\ selected[j] # None
    /\ Begin(s, "reject_tx", j, selected[j], None)
    /\ UNCHANGED <<jobVars, walletVars, payStatus, session, convs, reviewed>>

\* The transaction trusts the selection it read before it.
RejectApplication(s) ==
    /\ At(s, "reject_tx")
    /\ Exists(req[s].job)
    /\ selected' = [selected EXCEPT ![req[s].job] = None]
    /\ Finish(s)
    /\ UNCHANGED <<status, walletVars, payStatus, session, convs, reviewed>>

\* Accepting a price offer selects the helper too, and looks at no job status.
AcceptRead(s, j, h) ==
    /\ Exists(j)
    /\ Begin(s, "accept_tx", j, h, None)
    /\ UNCHANGED <<jobVars, walletVars, payStatus, session, convs, reviewed>>

AcceptLatestOffer(s) ==
    /\ At(s, "accept_tx")
    /\ Exists(req[s].job)
    /\ selected' = [selected EXCEPT ![req[s].job] = req[s].helper]
    /\ Finish(s)
    /\ UNCHANGED <<status, walletVars, payStatus, session, convs, reviewed>>

-----------------------------------------------------------------------------
(* The work: each handler checks the status it read and, after uploads,     *)
(* writes the new one unconditionally.                                      *)

\* The read and the check of a handler that works on a job in one of froms
\* and needs its selected helper.
WorkRead(s, j, pc, froms) ==
    /\ status[j] \in froms
    /\ selected[j] # None
    /\ Begin(s, pc, j, selected[j], None)
    /\ UNCHANGED <<jobVars, walletVars, payStatus, session, convs, reviewed>>

WorkWrite(s, pc, to) ==
    /\ At(s, pc)
    /\ Exists(req[s].job)
    /\ status' = [status EXCEPT ![req[s].job] = to]
    /\ Finish(s)
    /\ UNCHANGED <<selected, walletVars, payStatus, session, convs, reviewed>>

StartRead_AnyOpen(s, j) == WorkRead(s, j, "start_write", {"OPEN", "ASSIGNED"})
StartRead(s, j)     == WorkRead(s, j, "start_write", {"ASSIGNED"})
StartJob(s)         == WorkWrite(s, "start_write", "IN_PROGRESS")
CompleteRead_Unstarted(s, j) ==
    WorkRead(s, j, "complete_write", {"ASSIGNED", "IN_PROGRESS", "REVISION_REQUESTED"})
CompleteRead(s, j)  == WorkRead(s, j, "complete_write",
                                {"IN_PROGRESS", "REVISION_REQUESTED"})
CompleteJob(s)      == WorkWrite(s, "complete_write", "WAITING_FOR_APPROVAL")
ReviseRead(s, j)    == WorkRead(s, j, "revise_write", {"WAITING_FOR_APPROVAL"})
RequestRevision_Misspelt(s) == WorkWrite(s, "revise_write", "REVISION")
RequestRevision(s)  == WorkWrite(s, "revise_write", "REVISION_REQUESTED")

-----------------------------------------------------------------------------
(* approveJob: COMPLETED first, then releaseEscrow's read, then its         *)
(* transaction.  Nothing ties the three together.                           *)

ApproveRead(s, j) ==
    /\ status[j] = "WAITING_FOR_APPROVAL"
    /\ Begin(s, "approve_write", j, None, None)
    /\ UNCHANGED <<jobVars, walletVars, payStatus, session, convs, reviewed>>

ApproveJob(s) ==
    /\ At(s, "approve_write")
    /\ Exists(req[s].job)
    /\ status' = [status EXCEPT ![req[s].job] = "COMPLETED"]
    /\ Advance(s, [req[s] EXCEPT !.pc = "release_find"])
    /\ UNCHANGED <<selected, walletVars, payStatus, session, convs, reviewed>>

\* findFirst FUNDED; none throws 404, which is Abandon.
ReleaseFind(s) ==
    /\ At(s, "release_find")
    /\ \E p \in RowsOf(req[s].job) :
         /\ Releasable(p)
         /\ Advance(s, [req[s] EXCEPT !.pc = "release_tx", !.pay = p,
                                      !.helper = session[p].helper])
    /\ UNCHANGED <<jobVars, walletVars, payStatus, session, convs, reviewed>>

\* Unconditional on the status of the payment it read.
ReleaseEscrow(s) ==
    /\ At(s, "release_tx")
    /\ LET p == req[s].pay
           h == req[s].helper
       IN  /\ payStatus[p] # "NONE"
           /\ payStatus' = [payStatus EXCEPT ![p] = "RELEASED"]
           /\ pending' = [pending EXCEPT ![h] = @ - Payout(p)]
           /\ available' = [available EXCEPT ![h] = @ + Payout(p)]
           /\ earningRows' = [earningRows EXCEPT ![p] = @ + 1]
    /\ Finish(s)
    /\ UNCHANGED <<jobVars, session, commissionRows, convs, reviewed>>

-----------------------------------------------------------------------------
(* createReview, getOrCreateConversationByJobId, deleteJob *)

ReviewRead(s, j) ==
    /\ j \notin reviewed
    /\ WorkRead(s, j, "review_tx", {"COMPLETED", "CLOSED"})

\* reviews.job_id is unique: the transaction of a second review throws.
CreateReview(s) ==
    /\ At(s, "review_tx")
    /\ Exists(req[s].job)
    /\ req[s].job \notin reviewed
    /\ reviewed' = reviewed \cup {req[s].job}
    /\ status' = [status EXCEPT ![req[s].job] = "CLOSED"]
    /\ Finish(s)
    /\ UNCHANGED <<selected, walletVars, payStatus, session, convs>>

OpenConversation_OnePerJob(j) ==
    /\ Exists(j)
    /\ selected[j] # None
    /\ convs' = {c \in convs : c[1] # j} \cup {<<j, selected[j]>>}
    /\ UNCHANGED <<jobVars, walletVars, payStatus, session, reviewed, req>>

\* A selected helper is enough to open the conversation.  Nothing reads
\* convs but look-ups of the same pair, so the read and the create are one step.
OpenConversation(j) ==
    /\ Exists(j)
    /\ selected[j] # None
    /\ convs' = convs \cup {<<j, selected[j]>>}
    /\ UNCHANGED <<jobVars, walletVars, payStatus, session, reviewed, req>>

\* deleteJob checks no status; the schema cascades to payments, conversations
\* and reviews, not to the helper's wallet and its transactions.
DeleteJob(j) ==
    /\ Exists(j)
    /\ status' = [status EXCEPT ![j] = "DELETED"]
    /\ selected' = [selected EXCEPT ![j] = None]
    /\ payStatus' = [p \in PaymentIds |->
                       IF session[p].job = j THEN "NONE" ELSE payStatus[p]]
    /\ convs' = {c \in convs : c[1] # j}
    /\ reviewed' = reviewed \ {j}
    /\ UNCHANGED <<walletVars, session, req>>

-----------------------------------------------------------------------------
(* Specification *)

Init ==
    /\ status = [j \in Jobs |-> "OPEN"]
    /\ selected = [j \in Jobs |-> None]
    /\ payStatus = [p \in PaymentIds |-> "NONE"]
    /\ session = [p \in PaymentIds |-> NoSession]
    /\ pending = [h \in Helpers |-> 0]
    /\ available = [h \in Helpers |-> 0]
    /\ commissionRows = [p \in PaymentIds |-> 0]
    /\ earningRows = [p \in PaymentIds |-> 0]
    /\ convs = {}
    /\ reviewed = {}
    /\ req = [s \in Slots |-> Idle]

\* A client's request reaches its handler.
Arrive(s) ==
    \E j \in Jobs :
        \/ CheckoutRead(s, j) \/ RejectRead(s, j)
        \/ \E h \in Helpers : SelectRead(s, j, h) \/ AcceptRead(s, j, h)
        \/ StartRead(s, j) \/ CompleteRead(s, j) \/ ReviseRead(s, j)
        \/ ApproveRead(s, j) \/ ReviewRead(s, j)

\* The handler in slot s makes its next call.
Proceed(s) ==
    \/ CheckoutFind(s) \/ CheckoutDelete(s)
    \/ CheckoutCreateSession(s) \/ CheckoutCreatePayment(s)
    \/ FulfillPayment(s)
    \/ SelectHelper(s) \/ RejectApplication(s) \/ AcceptLatestOffer(s)
    \/ StartJob(s) \/ CompleteJob(s) \/ RequestRevision(s)
    \/ ApproveJob(s) \/ ReleaseFind(s) \/ ReleaseEscrow(s)
    \/ CreateReview(s)

Next ==
    \/ \E s \in Slots : Arrive(s) \/ Proceed(s) \/ Abandon(s)
    \/ \E s \in Slots, p \in PaymentIds : WebhookCompleted(s, p)
    \/ \E p \in PaymentIds : PaySession(p) \/ ExpireSession(p) \/ WebhookExpired(p)
    \/ \E j \in Jobs : OpenConversation(j) \/ DeleteJob(j)

Spec == Init /\ [][Next]_vars

\* Fairness: a handler in flight makes its next call or stops; a paid session
\* is delivered again and again until its transaction went through.
FairSpec ==
    /\ Spec
    /\ \A s \in Slots : WF_vars(Proceed(s) \/ Abandon(s))
    /\ \A p \in PaymentIds :
         /\ SF_vars(\E s \in Slots : WebhookCompleted(s, p))
         /\ SF_vars(\E s \in Slots : req[s].pay = p /\ FulfillPayment(s))

-----------------------------------------------------------------------------
(* Properties *)

TypeOK ==
    /\ status \in [Jobs -> JobStatuses]
    /\ selected \in [Jobs -> Helpers \cup {None}]
    /\ payStatus \in [PaymentIds -> PayStatuses]
    /\ session \in [PaymentIds -> Sessions]
    /\ pending \in [Helpers -> Int]
    /\ available \in [Helpers -> Int]
    /\ commissionRows \in [PaymentIds -> Nat]
    /\ earningRows \in [PaymentIds -> Nat]
    /\ convs \subseteq Jobs \X Helpers
    /\ reviewed \subseteq Jobs
    /\ req \in [Slots -> Requests]

-----------------------------------------------------------------------------
(* However handlers overlap (Serialised empty) *)

\* A session the customer really paid stands behind job j and its escrow was
\* credited.
Paid(j) == \E p \in PaymentsOf(j) : session[p].state = "paid" /\ commissionRows[p] > 0

\* No job is ever past OPEN on unpaid work: whatever overlaps, is retried or
\* is abandoned halfway, a job that left OPEN was paid and its escrow credited.
PaidBeforeWork == \A j \in Jobs : status[j] \notin {"OPEN", "DELETED"} => Paid(j)

\* The money trail never starts in the middle: a payment that earned the
\* helper something went through escrow first, and one that went through
\* escrow was paid at Stripe.
MoneyTrail ==
    \A p \in PaymentIds :
        /\ earningRows[p] > 0 => commissionRows[p] > 0
        /\ commissionRows[p] > 0 => session[p].state = "paid"

\* Payer and payee can always talk: a payment in or out of escrow has its
\* conversation, through every order of webhook, chat and deletion.
FundedOpensChat ==
    \A p \in PaymentIds : payStatus[p] \in {"FUNDED", "RELEASED"}
                            => <<session[p].job, session[p].helper>> \in convs

-----------------------------------------------------------------------------
(* With the overlaps of MoneyLocks excluded *)

\* Two fulfilments of one payment, two approvals, two checkouts, or a checkout
\* and a fulfilment of one job: nothing in the code keeps these apart.
MoneyLocks == {{"fulfil"}, {"approve"}, {"checkout"}, {"checkout", "fulfil"}}

\* Each payment is credited to escrow once and released once, and the status
\* of its row says how far it got.
OneCreditPerPayment ==
    \A p \in PaymentIds :
        LET c == commissionRows[p]
            e == earningRows[p]
        IN  CASE payStatus[p] \in {"PENDING", "FAILED"} -> c = 0 /\ e = 0
              [] payStatus[p] = "FUNDED"   -> c = 1 /\ e = 0
              [] payStatus[p] = "RELEASED" -> c = 1 /\ e = 1
              [] OTHER                     -> c <= 1 /\ e <= c

\* A checkout and a webhook never leave a job with two payments that could
\* each be funded, are funded or were released.
OnePaymentPerJob ==
    \A p, q \in PaymentIds :
        /\ payStatus[p] \in {"PENDING", "FUNDED", "RELEASED"}
        /\ payStatus[q] \in {"PENDING", "FUNDED", "RELEASED"}
        /\ session[p].job = session[q].job
        => p = q

\* Payments deleted with their job while the wallet kept the money.
Orphaned(p, c, e) == payStatus[p] = "NONE" /\ commissionRows[p] = c /\ earningRows[p] = e
Held(h)   == {p \in PaymentIds : Payee(p) = h /\ (payStatus[p] = "FUNDED" \/ Orphaned(p, 1, 0))}
Earned(h) == {p \in PaymentIds : Payee(p) = h /\ (payStatus[p] = "RELEASED" \/ Orphaned(p, 1, 1))}

\* Escrow to the cent: a helper's pending balance is what FUNDED payments hold
\* for him (and deleted jobs left behind), the available balance what RELEASED
\* ones paid.
EscrowExact ==
    \A h \in Helpers : /\ pending[h]   = MapThenSumSet(Payout, Held(h))
                       /\ available[h] = MapThenSumSet(Payout, Earned(h))

-----------------------------------------------------------------------------
(* With all overlaps of the handlers that write the status excluded, the    *)
(* module implements the life cycle of a job.                               *)

StatusWriters == {"checkout", "fulfil", "start", "complete", "revise",
                  "approve", "review"}
StatusLocks == {{a, b} : a \in StatusWriters, b \in StatusWriters}

Lifecycle == INSTANCE JobLifecycle WITH
    paid   <- {j \in Jobs : \E p \in PaymentsOf(j) : commissionRows[p] > 0},
    paidOut <- {j \in Jobs : \E p \in PaymentsOf(j) : earningRows[p] > 0}

\* Every step of every handler is a step of a job's life cycle or leaves it.
ImplementsLifecycle == Lifecycle!Spec

\* A customer who paid is not forgotten: a paid session whose payment is still
\* PENDING is eventually fulfilled, or its row is deleted.
PaidIsFulfilled ==
    \A p \in PaymentIds : (session[p].state = "paid" /\ payStatus[p] = "PENDING")
                              ~> payStatus[p] # "PENDING"

-----------------------------------------------------------------------------
(* What the documents promise and the code does not keep *)

\* "Escrow 900 -> Helper Wallet 900" (Business Workflow Document, phase 14):
\* a payment is released to the helper's wallet once.
EscrowReleasedOnce == \A p \in PaymentIds : earningRows[p] <= 1

\* "A customer paid and assigned you to the job" (payment.services.ts): the
\* helper whose payment is in escrow is the one selected for the job.
PaidHelperIsSelected ==
    \A p \in PaymentIds : payStatus[p] = "FUNDED" => selected[session[p].job] = Payee(p)
=============================================================================
