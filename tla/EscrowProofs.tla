---------------------------- MODULE EscrowProofs ----------------------------
(***************************************************************************)
(* What Escrow guarantees for every set of jobs, helpers, payments and     *)
(* slots, in layers:                                                       *)
(*   Inv      whatever overlaps: type correctness, MoneyTrail and          *)
(*            PaidBeforeWork                                               *)
(*   Inv2     whatever overlaps: FundedOpensChat, and that what Serialised *)
(*            keeps apart is never in flight together                      *)
(*   LockInv  under MoneyLocks: OneCreditPerPayment and OnePaymentPerJob;  *)
(*            with sums over it EscrowExact                                *)
(*   LifeInv  under StatusLocks: that Escrow implements JobLifecycle       *)
(*                                                                         *)
(* None of these is inductive as it is stated: a handler in flight carries *)
(* what it read into its write.  Inv therefore says what every handler in  *)
(* flight still has right when it writes (FlightOK), what a payment id     *)
(* means (RowOK) and that an id is drawn by one checkout only (OneDraft);  *)
(* each further layer says what more is right when less may overlap.       *)
(***************************************************************************)
EXTENDS Escrow, SumProofs, TLAPS

Working  == {"start_write", "complete_write", "revise_write", "approve_write",
             "release_find", "release_tx", "review_tx"}
Paying   == {"checkout_delete", "checkout_create", "fulfil_tx", "release_tx"}
Choosing == {"checkout_find", "checkout_delete", "checkout_session",
             "fulfil_tx", "select_tx", "accept_tx", "release_tx"}

\* What a handler in flight, stopped at r.pc, can rely on.
FlightOK(r) ==
    /\ r.pc # "idle" => r.job \in Jobs
    /\ r.pc \in Choosing => r.helper \in Helpers
    /\ r.pc \in Paying => r.pay \in PaymentIds /\ session[r.pay].state # "unused"
    /\ r.pc = "fulfil_tx" => /\ session[r.pay].state = "paid"
                             /\ session[r.pay].job = r.job
    /\ r.pc = "release_tx" => commissionRows[r.pay] > 0
    /\ r.pc \in Working => Paid(r.job)

\* What the state of a payment's session says about its row.
RowOK(p) ==
    /\ session[p].state # "unused" => session[p].job \in Jobs /\ session[p].helper \in Helpers
    /\ session[p].state = "unused" => session[p].job = None /\ payStatus[p] = "NONE"
    /\ payStatus[p] \in {"FUNDED", "RELEASED"} => commissionRows[p] > 0

\* A checkout between Stripe and its payment.create owns its payment id.
OneDraft ==
    \A s, t \in Slots :
        req[s].pc = "checkout_create" =>
            /\ session[req[s].pay].state = "created"
            /\ req[t].pc = "checkout_create" /\ req[t].pay = req[s].pay => s = t

Flights == \A s \in Slots : FlightOK(req[s])
Rows    == \A p \in PaymentIds : RowOK(p)

Inv == TypeOK /\ Rows /\ Flights /\ OneDraft /\ MoneyTrail /\ PaidBeforeWork

-----------------------------------------------------------------------------
(* Lemmas *)

\* What a payment pays its helper is a whole number of cents.
LEMMA PayoutType == ASSUME TypeOK, NEW p \in PaymentIds PROVE Payout(p) \in Int
<1>1. session[p].amount \in Int
  <2>1. session[p] \in Sessions
    BY DEF TypeOK
  <2>2. session[p].amount \in Amounts \cup {0}
    BY <2>1 DEF Sessions
  <2>3. Amounts \cup {0} \subseteq Int
    BY AmountsAssumption
  <2> QED BY <2>2, <2>3
<1>2. FeePercent \in Int
  BY FeeAssumption
<1>3. session[p].amount * FeePercent + 50 \in Int
  BY <1>1, <1>2
<1> QED BY <1>1, <1>3 DEF Payout, HelperAmount, PlatformFee

\* Sessions keep their job once drawn, paid ones stay paid, and rows of the
\* ledger are never taken back.
Monotone ==
    \A p \in PaymentIds :
        /\ session[p].state # "unused" => /\ session'[p].state # "unused"
                                          /\ session'[p].job = session[p].job
        /\ session[p].state = "paid" => session'[p].state = "paid"
        /\ commissionRows'[p] >= commissionRows[p]

\* A paid job stays paid.
LEMMA PaidStable == ASSUME TypeOK, TypeOK', Rows, Monotone, NEW j \in Jobs, Paid(j)
                    PROVE Paid(j)'
<1>1. PICK p \in PaymentIds : /\ session[p].job = j /\ session[p].state = "paid"
                              /\ commissionRows[p] > 0
  BY DEF Paid, PaymentsOf
<1>2. commissionRows[p] \in Nat /\ commissionRows'[p] \in Nat
  BY DEF TypeOK
<1>3. session'[p].job = j /\ session'[p].state = "paid" /\ commissionRows'[p] > 0
  BY <1>1, <1>2 DEF Monotone
<1> QED BY <1>3 DEF Paid, PaymentsOf

\* What a handler in flight relies on is not taken from it by another step.
LEMMA FlightStable ==
    ASSUME TypeOK, TypeOK', Rows, Monotone, NEW r \in Requests, FlightOK(r)
    PROVE  FlightOK(r)'
<1>1. r.pc \in Working => Paid(r.job)'
  BY PaidStable DEF FlightOK, Working
<1>2. r.pc \in Paying => r.pay \in PaymentIds /\ session'[r.pay].state # "unused"
  BY DEF FlightOK, Monotone
<1>3. r.pc = "fulfil_tx" => session'[r.pay].state = "paid" /\ session'[r.pay].job = r.job
  BY DEF FlightOK, Monotone, Paying
<1>4. r.pc = "release_tx" => commissionRows'[r.pay] > 0
  BY DEF FlightOK, Monotone, Paying, TypeOK
<1> QED BY <1>1, <1>2, <1>3, <1>4 DEF FlightOK

\* A step that moves the handler of slot s to r leaves all handlers in order.
LEMMA SlotStep ==
    ASSUME TypeOK, TypeOK', Rows, Flights, Monotone,
           NEW s \in Slots, NEW r \in Requests,
           req' = [req EXCEPT ![s] = r], FlightOK(r)'
    PROVE  Flights'
<1> SUFFICES ASSUME NEW t \in Slots PROVE FlightOK(req[t])'
  BY DEF Flights
<1>1. CASE t = s
  <2>1. req'[t] = r
    BY <1>1 DEF TypeOK
  <2> QED BY <2>1 DEF FlightOK
<1>2. CASE t # s
  <2>1. PICK q \in Requests : q = req[t]
    BY DEF TypeOK
  <2>2. q = req'[t]
    BY <1>2, <2>1 DEF TypeOK
  <2>3. FlightOK(q)
    BY <2>1 DEF Flights, FlightOK
  <2>4. FlightOK(q)'
    BY <2>3, FlightStable
  <2> QED BY <2>2, <2>4 DEF FlightOK
<1> QED BY <1>1, <1>2

\* A job that has left OPEN stays paid when each new status is OPEN, DELETED or
\* that of a paid job.
LEMMA StatusStep ==
    ASSUME TypeOK, TypeOK', Rows, Monotone, PaidBeforeWork,
           \A j \in Jobs : \/ status'[j] = status[j]
                          \/ status'[j] = "DELETED"
                          \/ Paid(j)'
    PROVE  PaidBeforeWork'
<1> SUFFICES ASSUME NEW j \in Jobs, status'[j] \notin {"OPEN", "DELETED"} PROVE Paid(j)'
  BY DEF PaidBeforeWork
<1>1. CASE status'[j] = status[j]
  <2>1. Paid(j)
    BY <1>1 DEF PaidBeforeWork
  <2> QED BY <2>1, PaidStable
<1> QED BY <1>1

\* Everything but the handlers in flight.
dataVars == <<jobVars, walletVars, payStatus, session, convs, reviewed>>

\* A step that only moves the handler of slot s keeps the invariant when the
\* handler may rely on what it carries.
LEMMA QuietStep ==
    ASSUME Inv, NEW s \in Slots, NEW r \in Requests,
           req' = [req EXCEPT ![s] = r], UNCHANGED dataVars,
           FlightOK(r), r.pc # "checkout_create"
    PROVE  Inv'
<1> USE DEF Inv, dataVars, jobVars, walletVars
<1>1. TypeOK'
  BY DEF TypeOK
<1>2. Monotone
  BY DEF Monotone, TypeOK
<1>3. Rows' /\ MoneyTrail'
  BY DEF Rows, RowOK, MoneyTrail
<1>4. Flights'
  <2>1. FlightOK(r)'
    BY <1>1, <1>2, FlightStable
  <2> QED BY <2>1, <1>1, <1>2, SlotStep
<1>5. OneDraft'
  <2>1. \A t \in Slots : req'[t].pc = "checkout_create" => req'[t] = req[t]
    BY DEF TypeOK
  <2> QED BY <2>1 DEF OneDraft
<1>6. PaidBeforeWork'
  BY <1>1, <1>2, StatusStep
<1> QED BY <1>1, <1>3, <1>4, <1>5, <1>6

LEMMA IdleStep == ASSUME Inv, NEW s \in Slots, Finish(s), UNCHANGED dataVars PROVE Inv'
<1>1. Idle \in Requests /\ Idle.pc = "idle"
  BY DEF Idle, Requests
<1>2. FlightOK(Idle)
  BY <1>1 DEF FlightOK, Choosing, Paying, Working
<1> QED BY <1>1, <1>2, QuietStep DEF Finish

\* The start of a handler: its fields are those Begin was given.
LEMMA BeginStep ==
    ASSUME Inv, NEW s \in Slots, NEW pc \in DOMAIN OpOf \ {"checkout_create"},
           NEW j \in Jobs, NEW h \in Helpers \cup {None}, NEW p \in PaymentIds \cup {None},
           Begin(s, pc, j, h, p), UNCHANGED dataVars,
           pc \in Choosing => h \in Helpers,
           pc \in Paying => pc = "fulfil_tx" /\ Fulfillable(p) /\ p # None /\ session[p].job = j,
           pc \in Working => Paid(j)
    PROVE  Inv'
<1> DEFINE r == [pc |-> pc, job |-> j, helper |-> h, pay |-> p]
<1>1. r \in Requests /\ r.pc # "checkout_create"
  BY DEF Requests
<1>2. FlightOK(r)
  BY DEF FlightOK, Fulfillable, Paying
<1> QED BY <1>1, <1>2, QuietStep DEF Begin

LEMMA ProgramCounters ==
    DOMAIN OpOf = {"checkout_find", "checkout_delete", "checkout_session",
                   "checkout_create", "fulfil_tx", "select_tx", "reject_tx",
                   "accept_tx", "start_write", "complete_write", "revise_write",
                   "approve_write", "release_find", "release_tx", "review_tx"}
BY DEF OpOf

\* A job past OPEN that is not deleted is paid: what the handlers of the work
\* find out by checking its status.
LEMMA WorkIsPaid == ASSUME Inv, NEW j \in Jobs,
                           status[j] \notin {"OPEN", "DELETED"}
                    PROVE  Paid(j)
BY DEF Inv, PaidBeforeWork

\* Every handler that arrives starts in order.
LEMMA ArriveStep == ASSUME Inv, NEW s \in Slots, Arrive(s) PROVE Inv'
<1> USE ProgramCounters
<1>1. PICK j \in Jobs :
        \/ CheckoutRead(s, j) \/ RejectRead(s, j)
        \/ \E h \in Helpers : SelectRead(s, j, h) \/ AcceptRead(s, j, h)
        \/ StartRead(s, j) \/ CompleteRead(s, j) \/ ReviseRead(s, j)
        \/ ApproveRead(s, j) \/ ReviewRead(s, j)
  BY DEF Arrive
<1>0. selected[j] \in Helpers \cup {None}
  BY DEF Inv, TypeOK
<1>2. CASE CheckoutRead(s, j)
  BY <1>0, <1>2, BeginStep DEF CheckoutRead, dataVars, Choosing, Paying, Working
<1>3. CASE RejectRead(s, j)
  BY <1>0, <1>3, BeginStep DEF RejectRead, dataVars, Choosing, Paying, Working
<1>4. CASE \E h \in Helpers : SelectRead(s, j, h) \/ AcceptRead(s, j, h)
  BY <1>4, BeginStep DEF SelectRead, AcceptRead, dataVars, Choosing, Paying, Working
<1>5. ASSUME NEW pc \in {"start_write", "complete_write", "revise_write", "review_tx"},
             NEW froms \in SUBSET (JobStatuses \ {"OPEN", "DELETED"}),
             WorkRead(s, j, pc, froms)
      PROVE  Inv'
  <2>1. Paid(j)
    BY <1>5, WorkIsPaid DEF WorkRead
  <2>2. pc \notin Choosing /\ pc \notin Paying /\ pc \in DOMAIN OpOf \ {"checkout_create"}
    BY DEF Choosing, Paying
  <2> QED BY <1>0, <1>5, <2>1, <2>2, BeginStep DEF WorkRead, dataVars
<1>6. CASE StartRead(s, j) \/ CompleteRead(s, j) \/ ReviseRead(s, j) \/ ReviewRead(s, j)
  BY <1>5, <1>6 DEF StartRead, CompleteRead, ReviseRead, ReviewRead, JobStatuses
<1>7. CASE ApproveRead(s, j)
  <2>1. Paid(j)
    BY <1>7, WorkIsPaid DEF ApproveRead
  <2> QED BY <1>7, <2>1, BeginStep DEF ApproveRead, dataVars, Choosing, Paying, Working
<1> QED BY <1>1, <1>2, <1>3, <1>4, <1>6, <1>7

\* So does every delivery of a webhook.
LEMMA WebhookStep ==
    ASSUME Inv, NEW s \in Slots, NEW p \in PaymentIds, WebhookCompleted(s, p)
    PROVE  Inv'
<1>1. session[p].job \in Jobs /\ session[p].helper \in Helpers
  BY DEF Inv, Rows, RowOK, WebhookCompleted, Fulfillable
<1>2. p # None
  BY NoneAssumption
<1> QED BY <1>1, <1>2, BeginStep, ProgramCounters
        DEF WebhookCompleted, dataVars, Choosing, Paying, Working

-----------------------------------------------------------------------------
(* The steps of a handler in flight *)

\* Moving the handler of slot s to another program counter keeps its fields.
LEMMA AdvanceType ==
    ASSUME TypeOK, NEW s \in Slots, NEW pc \in DOMAIN OpOf
    PROVE  [req[s] EXCEPT !.pc = pc] \in Requests
BY DEF TypeOK, Requests

LEMMA CheckoutFindStep == ASSUME Inv, NEW s \in Slots, CheckoutFind(s) PROVE Inv'
<1> USE ProgramCounters
<1>0. req[s] \in Requests /\ FlightOK(req[s]) /\ req[s].pc = "checkout_find"
  BY DEF Inv, TypeOK, Flights, CheckoutFind, At
<1>1. CASE Finish(s)
  BY <1>1, IdleStep DEF CheckoutFind, dataVars
<1>2. CASE Advance(s, [req[s] EXCEPT !.pc = "checkout_session"])
  <2>1. PICK r \in Requests : r = [req[s] EXCEPT !.pc = "checkout_session"]
    BY AdvanceType DEF Inv
  <2>2. FlightOK(r)
    BY <1>0, <2>1 DEF FlightOK, Choosing, Paying, Working, Requests
  <2>3. r.pc # "checkout_create"
    BY <1>0, <2>1 DEF Requests
  <2> QED BY <1>2, <2>1, <2>2, <2>3, QuietStep DEF Advance, CheckoutFind, dataVars
<1>3. CASE \E p \in LivePayments(req[s].job) :
             Advance(s, [req[s] EXCEPT !.pc = "checkout_delete", !.pay = p])
  <2>1. PICK p \in LivePayments(req[s].job) :
             Advance(s, [req[s] EXCEPT !.pc = "checkout_delete", !.pay = p])
    BY <1>3
  <2>2. p \in PaymentIds /\ session[p].state # "unused"
    BY <2>1 DEF LivePayments, RowsOf, PaymentsOf, Inv, Rows, RowOK
  <2>3. PICK r \in Requests : r = [req[s] EXCEPT !.pc = "checkout_delete", !.pay = p]
    BY <1>0, <2>2 DEF Requests
  <2>4. FlightOK(r)
    BY <1>0, <2>2, <2>3 DEF FlightOK, Choosing, Paying, Working, Requests
  <2>5. r.pc # "checkout_create"
    BY <1>0, <2>3 DEF Requests
  <2> QED BY <2>1, <2>3, <2>4, <2>5, QuietStep DEF Advance, CheckoutFind, dataVars
<1> QED BY <1>1, <1>2, <1>3 DEF CheckoutFind

LEMMA ReleaseFindStep == ASSUME Inv, NEW s \in Slots, ReleaseFind(s) PROVE Inv'
<1> USE ProgramCounters
<1>0. req[s] \in Requests /\ FlightOK(req[s]) /\ req[s].pc = "release_find"
  BY DEF Inv, TypeOK, Flights, ReleaseFind, At
<1>1. PICK p \in RowsOf(req[s].job) :
        /\ Releasable(p)
        /\ Advance(s, [req[s] EXCEPT !.pc = "release_tx", !.pay = p,
                                     !.helper = session[p].helper])
  BY DEF ReleaseFind
<1>2. /\ p \in PaymentIds /\ session[p].state # "unused"
      /\ session[p].helper \in Helpers /\ commissionRows[p] > 0
  BY <1>1 DEF RowsOf, PaymentsOf, Releasable, Inv, Rows, RowOK
<1>3. PICK r \in Requests : r = [req[s] EXCEPT !.pc = "release_tx", !.pay = p,
                                              !.helper = session[p].helper]
  BY <1>0, <1>2 DEF Requests
<1>4. FlightOK(r)
  BY <1>0, <1>2, <1>3 DEF FlightOK, Choosing, Paying, Working, Requests
<1>5. r.pc # "checkout_create"
  BY <1>0, <1>3 DEF Requests
<1> QED BY <1>1, <1>3, <1>4, <1>5, QuietStep DEF Advance, ReleaseFind, dataVars

\* What remains of a step that is not quiet: the type of the new state, that
\* nothing a handler relies on is lost, and the facts about rows and drafts.
LEMMA LoudStep ==
    ASSUME Inv, TypeOK', Monotone, Rows', MoneyTrail', OneDraft',
           NEW s \in Slots, NEW r \in Requests, req' = [req EXCEPT ![s] = r], FlightOK(r)',
           \A j \in Jobs : \/ status'[j] = status[j]
                          \/ status'[j] = "DELETED"
                          \/ Paid(j)'
    PROVE  Inv'
<1>1. Flights'
  BY SlotStep DEF Inv
<1>2. PaidBeforeWork'
  BY StatusStep DEF Inv
<1> QED BY <1>1, <1>2 DEF Inv

\* A handler that ends relies on nothing.
LEMMA IdleInOrder == Idle \in Requests /\ Idle.pc = "idle" /\ FlightOK(Idle)'
<1>1. Idle \in Requests /\ Idle.pc = "idle"
  BY DEF Idle, Requests
<1> QED BY <1>1 DEF FlightOK, Choosing, Paying, Working

\* No checkout starts to own a payment id while sessions and drafts stay.
LEMMA DraftStable ==
    ASSUME Inv, NEW s \in Slots, NEW r \in Requests, r.pc # "checkout_create",
           req' = [req EXCEPT ![s] = r],
           \A p \in PaymentIds : session[p].state = "created" =>
                \/ session'[p].state = "created"
                \/ req[s].pc = "checkout_create" /\ req[s].pay = p
    PROVE  OneDraft'
<1>1. \A t \in Slots : req'[t].pc = "checkout_create" => t # s /\ req'[t] = req[t]
  BY DEF Inv, TypeOK
<1>2. \A t \in Slots : req[t].pc = "checkout_create" => req[t].pay \in PaymentIds
  BY DEF Inv, Flights, FlightOK, Paying
<1> QED BY <1>1, <1>2 DEF Inv, OneDraft

LEMMA CheckoutDeleteStep == ASSUME Inv, NEW s \in Slots, CheckoutDelete(s) PROVE Inv'
<1> USE ProgramCounters
<1> USE DEF CheckoutDelete, At, Advance, jobVars, walletVars
<1>0. req[s] \in Requests /\ FlightOK(req[s]) /\ req[s].pc = "checkout_delete"
  BY DEF Inv, TypeOK, Flights
<1>1. PICK r \in Requests : r = [req[s] EXCEPT !.pc = "checkout_session", !.pay = None]
  BY <1>0 DEF Requests
<1>2. r.pc = "checkout_session" /\ r.job = req[s].job /\ r.helper = req[s].helper
  BY <1>0, <1>1 DEF Requests
<1>3. TypeOK'
  BY <1>1 DEF Inv, TypeOK, PayStatuses
<1>4. Monotone
  BY DEF Monotone, Inv, TypeOK
<1>5. Rows' /\ MoneyTrail'
  BY DEF Inv, TypeOK, Rows, RowOK, MoneyTrail
<1>6. OneDraft'
  BY <1>1, <1>2, DraftStable
<1>7. FlightOK(r)'
  BY <1>0, <1>2 DEF FlightOK, Choosing, Paying, Working
<1> QED BY <1>1, <1>3, <1>4, <1>5, <1>6, <1>7, LoudStep

LEMMA CheckoutCreateSessionStep ==
    ASSUME Inv, NEW s \in Slots, CheckoutCreateSession(s) PROVE Inv'
<1> USE ProgramCounters
<1> USE DEF CheckoutCreateSession, At, Advance, jobVars, walletVars
<1>0. req[s] \in Requests /\ FlightOK(req[s]) /\ req[s].pc = "checkout_session"
  BY DEF Inv, TypeOK, Flights
<1>1. PICK p \in PaymentIds, a \in Amounts :
         /\ session[p].state = "unused"
         /\ session' = [session EXCEPT ![p] =
                          [state |-> "created", job |-> req[s].job,
                           helper |-> req[s].helper, amount |-> a]]
         /\ req' = [req EXCEPT ![s] = [req[s] EXCEPT !.pc = "checkout_create", !.pay = p]]
  OBVIOUS
<1>2. PICK r \in Requests : r = [req[s] EXCEPT !.pc = "checkout_create", !.pay = p]
  BY <1>0 DEF Requests
<1>3. r.pc = "checkout_create" /\ r.job = req[s].job /\ r.pay = p
  BY <1>0, <1>2 DEF Requests
<1>4. req[s].job \in Jobs /\ req[s].helper \in Helpers
  BY <1>0 DEF FlightOK, Choosing
<1>5. TypeOK'
  <2>1. [state |-> "created", job |-> req[s].job, helper |-> req[s].helper,
         amount |-> a] \in Sessions
    BY <1>4 DEF Sessions, SessionStates
  <2> QED BY <2>1, <1>1, <1>2 DEF Inv, TypeOK
<1>6. /\ session'[p].state = "created"
      /\ session'[p].job \in Jobs /\ session'[p].helper \in Helpers
      /\ \A q \in PaymentIds : q # p => session'[q] = session[q]
  BY <1>1, <1>4 DEF Inv, TypeOK
<1>7. Monotone
  BY <1>1, <1>6 DEF Monotone, Inv, TypeOK
<1>8. Rows' /\ MoneyTrail'
  BY <1>1, <1>6 DEF Inv, TypeOK, Rows, RowOK, MoneyTrail
<1>9. OneDraft'
  <2>1. \A t \in Slots : t # s => req'[t] = req[t]
    BY <1>1 DEF Inv, TypeOK
  <2>2. req'[s] = r
    BY <1>1, <1>2 DEF Inv, TypeOK
  <2>3. \A t \in Slots : req[t].pc = "checkout_create" =>
             /\ req[t].pay \in PaymentIds /\ req[t].pay # p
             /\ session[req[t].pay].state = "created"
    BY <1>1 DEF Inv, OneDraft, Flights, FlightOK, Paying
  <2> SUFFICES ASSUME NEW t \in Slots, NEW u \in Slots, req'[t].pc = "checkout_create"
               PROVE  /\ session'[req'[t].pay].state = "created"
                      /\ req'[u].pc = "checkout_create" /\ req'[u].pay = req'[t].pay => t = u
    BY DEF OneDraft
  <2>4. CASE t = s
    BY <1>3, <1>6, <2>1, <2>2, <2>3, <2>4
  <2>5. CASE t # s
    <3>1. session'[req'[t].pay].state = "created" /\ req'[t].pay # p
      BY <1>6, <2>1, <2>3, <2>5
    <3>2. u # s => (req[u].pc = "checkout_create" /\ req[u].pay = req[t].pay => t = u)
      BY <2>1, <2>5 DEF Inv, OneDraft
    <3> QED BY <1>3, <2>1, <2>2, <2>5, <3>1, <3>2
  <2> QED BY <2>4, <2>5
<1>10. FlightOK(r)'
  BY <1>3, <1>4, <1>6 DEF FlightOK, Choosing, Paying, Working
<1> QED BY <1>1, <1>2, <1>5, <1>7, <1>8, <1>9, <1>10, LoudStep

LEMMA CheckoutCreatePaymentStep ==
    ASSUME Inv, NEW s \in Slots, CheckoutCreatePayment(s) PROVE Inv'
<1> USE DEF CheckoutCreatePayment, At, Finish, jobVars, walletVars
<1> DEFINE p == req[s].pay
<1>1. p \in PaymentIds /\ session[p].state = "created" /\ session[p] \in Sessions
  BY DEF Inv, TypeOK, Flights, FlightOK, Paying, OneDraft
<1>2. /\ session'[p].state = "open" /\ session'[p] \in Sessions
      /\ session'[p].job = session[p].job /\ session'[p].helper = session[p].helper
      /\ \A q \in PaymentIds : q # p => session'[q] = session[q]
  BY <1>1 DEF Inv, TypeOK, Sessions, SessionStates
<1>3. TypeOK'
  BY <1>1, <1>2, IdleInOrder DEF Inv, TypeOK, PayStatuses
<1>4. Monotone
  BY <1>1, <1>2 DEF Monotone, Inv, TypeOK
<1>5. Rows' /\ MoneyTrail'
  BY <1>1, <1>2 DEF Inv, TypeOK, Rows, RowOK, MoneyTrail
<1>6. OneDraft'
  <2>1. \A q \in PaymentIds : session[q].state = "created" =>
             session'[q].state = "created" \/ req[s].pay = q
    BY <1>2
  <2> QED BY <2>1, IdleInOrder, DraftStable
<1> QED BY <1>3, <1>4, <1>5, <1>6, IdleInOrder, LoudStep

LEMMA FulfillPaymentStep == ASSUME Inv, NEW s \in Slots, FulfillPayment(s) PROVE Inv'
<1> USE DEF FulfillPayment, At, Finish, jobVars, walletVars
<1>0. /\ req[s].pay \in PaymentIds /\ req[s].job \in Jobs /\ req[s].helper \in Helpers
      /\ session[req[s].pay].state = "paid" /\ session[req[s].pay].job = req[s].job
  BY DEF Inv, Flights, FlightOK, Choosing, Paying
<1>1. PICK p \in PaymentIds, j \in Jobs, h \in Helpers :
        /\ req[s].pay = p /\ req[s].job = j /\ req[s].helper = h
        /\ session[p].state = "paid" /\ session[p].job = j
  BY <1>0
<1>2. /\ pending' = [pending EXCEPT ![h] = @ + Payout(p)]
      /\ commissionRows' = [commissionRows EXCEPT ![p] = @ + 1]
      /\ payStatus' = [payStatus EXCEPT ![p] = "FUNDED"]
      /\ status' = [status EXCEPT ![j] = "ASSIGNED"]
      /\ convs' = convs \cup {<<j, h>>}
  BY <1>1
<1>3. TypeOK'
  <2>1. Payout(p) \in Int
    BY <1>1, PayoutType DEF Inv
  <2>2. pending' \in [Helpers -> Int]
    BY <1>1, <1>2, <2>1 DEF Inv, TypeOK
  <2>3. commissionRows' \in [PaymentIds -> Nat]
    BY <1>1, <1>2 DEF Inv, TypeOK
  <2>4. payStatus' \in [PaymentIds -> PayStatuses] /\ status' \in [Jobs -> JobStatuses]
    BY <1>1, <1>2 DEF Inv, TypeOK, PayStatuses, JobStatuses
  <2>5. convs' \subseteq Jobs \X Helpers
    BY <1>2 DEF Inv, TypeOK
  <2> QED BY <2>2, <2>3, <2>4, <2>5, IdleInOrder DEF Inv, TypeOK
<1>4. commissionRows'[p] > 0 /\ \A q \in PaymentIds : commissionRows'[q] >= commissionRows[q]
  BY <1>1, <1>2 DEF Inv, TypeOK
<1>5. Monotone
  BY <1>4 DEF Monotone, Inv, TypeOK
<1>6. Rows'
  BY <1>1, <1>2, <1>4 DEF Inv, TypeOK, Rows, RowOK
<1>7. MoneyTrail'
  BY <1>1, <1>2, <1>4 DEF Inv, TypeOK, MoneyTrail
<1>8. OneDraft'
  BY IdleInOrder, DraftStable
<1>9. Paid(j)'
  BY <1>1, <1>4 DEF Paid, PaymentsOf
<1>10. \A k \in Jobs : status'[k] = status[k] \/ Paid(k)'
  BY <1>1, <1>2, <1>9 DEF Inv, TypeOK
<1> QED BY <1>3, <1>5, <1>6, <1>7, <1>8, <1>10, IdleInOrder, LoudStep

\* Selecting, rejecting, accepting: the selected helper proves nothing.
LEMMA ChooseStep ==
    ASSUME Inv, NEW s \in Slots,
           SelectHelper(s) \/ RejectApplication(s) \/ AcceptLatestOffer(s)
    PROVE  Inv'
<1> USE DEF SelectHelper, RejectApplication, AcceptLatestOffer, At, Finish, walletVars
<1>1. TypeOK'
  <2>1. RejectApplication(s) \/ req[s].helper \in Helpers
    BY DEF Inv, Flights, FlightOK, Choosing
  <2>2. selected' \in [Jobs -> Helpers \cup {None}]
    BY <2>1 DEF Inv, TypeOK
  <2> QED BY <2>2, IdleInOrder DEF Inv, TypeOK
<1>2. Monotone
  BY DEF Monotone, Inv, TypeOK
<1>3. Rows' /\ MoneyTrail'
  BY DEF Inv, Rows, RowOK, MoneyTrail
<1>4. OneDraft'
  BY IdleInOrder, DraftStable
<1> QED BY <1>1, <1>2, <1>3, <1>4, IdleInOrder, LoudStep

\* Writing a new status: the handler that does it works on a paid job.
LEMMA StatusWriteStep ==
    ASSUME Inv, NEW s \in Slots, req[s].pc \in Working,
           NEW to \in JobStatuses, NEW r \in Requests, r.pc # "checkout_create",
           status' = [status EXCEPT ![req[s].job] = to],
           reviewed' \subseteq Jobs,
           req' = [req EXCEPT ![s] = r], FlightOK(r)',
           UNCHANGED <<selected, walletVars, payStatus, session, convs>>
    PROVE  Inv'
<1> USE DEF walletVars
<1>1. PICK j \in Jobs : req[s].job = j /\ Paid(j)
  BY DEF Inv, Flights, FlightOK, Working
<1>2. TypeOK'
  BY <1>1 DEF Inv, TypeOK
<1>3. Monotone
  BY DEF Monotone, Inv, TypeOK
<1>4. Rows' /\ MoneyTrail'
  BY DEF Inv, Rows, RowOK, MoneyTrail
<1>5. OneDraft'
  BY DraftStable
<1>6. Paid(j)'
  BY <1>1, <1>2, <1>3, PaidStable DEF Inv
<1>7. \A k \in Jobs : status'[k] = status[k] \/ Paid(k)'
  BY <1>1, <1>6 DEF Inv, TypeOK
<1> QED BY <1>2, <1>3, <1>4, <1>5, <1>7, LoudStep

LEMMA WorkStep ==
    ASSUME Inv, NEW s \in Slots,
           StartJob(s) \/ CompleteJob(s) \/ RequestRevision(s) \/ CreateReview(s)
    PROVE  Inv'
<1>1. ASSUME NEW pc \in Working, NEW to \in JobStatuses, WorkWrite(s, pc, to) PROVE Inv'
  BY <1>1, IdleInOrder, StatusWriteStep DEF WorkWrite, At, Finish, Inv, TypeOK, Working
<1>2. CASE CreateReview(s)
  <2>1. req[s].pc \in Working /\ req[s].job \in Jobs
    BY <1>2 DEF CreateReview, At, Working, Inv, Flights, FlightOK
  <2>2. reviewed' \subseteq Jobs
    BY <1>2, <2>1 DEF CreateReview, Inv, TypeOK
  <2> QED BY <1>2, <2>1, <2>2, IdleInOrder, StatusWriteStep
          DEF CreateReview, Finish, JobStatuses
<1> QED BY <1>1, <1>2 DEF StartJob, CompleteJob, RequestRevision, JobStatuses, Working

LEMMA ApproveStep == ASSUME Inv, NEW s \in Slots, ApproveJob(s) PROVE Inv'
<1> USE ProgramCounters
<1>0. req[s] \in Requests /\ FlightOK(req[s]) /\ req[s].pc = "approve_write"
  BY DEF Inv, TypeOK, Flights, ApproveJob, At
<1>1. PICK r \in Requests : r = [req[s] EXCEPT !.pc = "release_find"]
  BY AdvanceType DEF Inv
<1>2. r.pc = "release_find" /\ r.job = req[s].job
  BY <1>0, <1>1 DEF Requests
<1>3. PICK j \in Jobs : r.job = j /\ Paid(j)
  BY <1>0, <1>2 DEF FlightOK, Working
<1>4. Paid(j)'
  BY <1>3 DEF ApproveJob, walletVars, Paid, PaymentsOf
<1>5. FlightOK(r)'
  BY <1>2, <1>3, <1>4 DEF FlightOK, Choosing, Paying, Working
<1> QED BY <1>0, <1>1, <1>2, <1>5, StatusWriteStep
        DEF ApproveJob, Advance, JobStatuses, Working, Inv, TypeOK

LEMMA ReleaseEscrowStep == ASSUME Inv, NEW s \in Slots, ReleaseEscrow(s) PROVE Inv'
<1> USE DEF ReleaseEscrow, At, Finish, jobVars
<1>0. /\ req[s].pay \in PaymentIds /\ req[s].helper \in Helpers
      /\ commissionRows[req[s].pay] > 0 /\ session[req[s].pay].state # "unused"
  BY DEF Inv, Flights, FlightOK, Choosing, Paying
<1>1. PICK p \in PaymentIds, h \in Helpers :
        /\ req[s].pay = p /\ req[s].helper = h
        /\ commissionRows[p] > 0 /\ session[p].state # "unused"
  BY <1>0
<1>2. /\ payStatus' = [payStatus EXCEPT ![p] = "RELEASED"]
      /\ pending' = [pending EXCEPT ![h] = @ - Payout(p)]
      /\ available' = [available EXCEPT ![h] = @ + Payout(p)]
      /\ earningRows' = [earningRows EXCEPT ![p] = @ + 1]
  BY <1>1
<1>3. TypeOK'
  <2>1. Payout(p) \in Int
    BY PayoutType DEF Inv
  <2>5. pending[h] \in Int /\ available[h] \in Int
    BY DEF Inv, TypeOK
  <2>2. pending' \in [Helpers -> Int] /\ available' \in [Helpers -> Int]
    <3>1. PICK low \in Int, high \in Int : low = pending[h] - Payout(p)
                                          /\ high = available[h] + Payout(p)
      BY <2>1, <2>5
    <3>2. pending' = [pending EXCEPT ![h] = low]
      BY <1>2, <3>1
    <3>3. available' = [available EXCEPT ![h] = high]
      BY <1>2, <3>1
    <3>4. pending \in [Helpers -> Int] /\ available \in [Helpers -> Int]
      BY DEF Inv, TypeOK
    <3> HIDE DEF ReleaseEscrow, At, Finish, jobVars
    <3>5. pending' \in [Helpers -> Int]
      BY <3>1, <3>2, <3>4
    <3>6. available' \in [Helpers -> Int]
      BY <3>1, <3>3, <3>4
    <3> QED BY <3>5, <3>6
  <2>3. earningRows' \in [PaymentIds -> Nat]
    BY <1>2 DEF Inv, TypeOK
  <2>4. payStatus' \in [PaymentIds -> PayStatuses]
    BY <1>2 DEF Inv, TypeOK, PayStatuses
  <2> QED BY <2>2, <2>3, <2>4, IdleInOrder DEF Inv, TypeOK
<1>4. Monotone
  BY DEF Monotone, Inv, TypeOK
<1>5. Rows' /\ MoneyTrail'
  BY <1>1, <1>2 DEF Inv, TypeOK, Rows, RowOK, MoneyTrail
<1>6. OneDraft'
  BY IdleInOrder, DraftStable
<1> QED BY <1>3, <1>4, <1>5, <1>6, IdleInOrder, LoudStep

LEMMA ProceedStep == ASSUME Inv, NEW s \in Slots, Proceed(s) PROVE Inv'
BY CheckoutFindStep, CheckoutDeleteStep, CheckoutCreateSessionStep,
   CheckoutCreatePaymentStep, FulfillPaymentStep, ChooseStep, WorkStep,
   ApproveStep, ReleaseFindStep, ReleaseEscrowStep DEF Proceed

-----------------------------------------------------------------------------
(* The steps outside the handlers in flight *)

LEMMA OutsideStep ==
    ASSUME Inv, TypeOK', Monotone, Rows', MoneyTrail', UNCHANGED req,
           \A p \in PaymentIds : session[p].state = "created" => session'[p].state = "created",
           \A j \in Jobs : status'[j] = status[j] \/ status'[j] = "DELETED"
    PROVE  Inv'
<1>1. Flights'
  <2> SUFFICES ASSUME NEW s \in Slots PROVE FlightOK(req[s])'
    BY DEF Flights
  <2>1. PICK r \in Requests : r = req[s]
    BY DEF Inv, TypeOK
  <2>2. FlightOK(r)
    BY <2>1 DEF Inv, Flights, FlightOK
  <2>3. FlightOK(r)'
    BY <2>2, FlightStable DEF Inv
  <2> QED BY <2>1, <2>3 DEF FlightOK
<1>2. OneDraft'
  BY DEF Inv, OneDraft, Flights, FlightOK, Paying
<1>3. PaidBeforeWork'
  BY StatusStep DEF Inv
<1> QED BY <1>1, <1>2, <1>3 DEF Inv

LEMMA StripeStep ==
    ASSUME Inv, NEW p \in PaymentIds,
           PaySession(p) \/ ExpireSession(p) \/ WebhookExpired(p)
    PROVE  Inv'
<1> USE DEF PaySession, ExpireSession, WebhookExpired, jobVars, walletVars
<1>1. session[p] \in Sessions
  BY DEF Inv, TypeOK
<1>2. TypeOK'
  <2>1. \A st \in {"paid", "expired"} : [session[p] EXCEPT !.state = st] \in Sessions
    BY <1>1 DEF Sessions, SessionStates
  <2>2. session' \in [PaymentIds -> Sessions]
    BY <2>1 DEF Inv, TypeOK
  <2>3. payStatus' \in [PaymentIds -> PayStatuses]
    BY DEF Inv, TypeOK, PayStatuses
  <2> QED BY <2>2, <2>3 DEF Inv, TypeOK
<1>3. /\ session'[p].state \in {session[p].state, "paid", "expired"}
      /\ session'[p].state # session[p].state => session[p].state = "open"
      /\ session'[p].job = session[p].job /\ session'[p].helper = session[p].helper
      /\ \A q \in PaymentIds : q # p => session'[q] = session[q]
  BY <1>1 DEF Inv, TypeOK, Sessions
<1>4. Monotone
  BY <1>3 DEF Monotone, Inv, TypeOK
<1>5. Rows' /\ MoneyTrail'
  BY <1>1, <1>3 DEF Inv, TypeOK, Rows, RowOK, MoneyTrail
<1>6. \A q \in PaymentIds : session[q].state = "created" => session'[q].state = "created"
  BY <1>3
<1> QED BY <1>2, <1>4, <1>5, <1>6, OutsideStep

LEMMA JobOutsideStep ==
    ASSUME Inv, NEW j \in Jobs, OpenConversation(j) \/ DeleteJob(j) PROVE Inv'
<1> USE DEF OpenConversation, DeleteJob, jobVars, walletVars
<1>1. TypeOK'
  <2>1. convs' \subseteq Jobs \X Helpers
    BY DEF Inv, TypeOK
  <2>2. /\ status' \in [Jobs -> JobStatuses] /\ selected' \in [Jobs -> Helpers \cup {None}]
        /\ payStatus' \in [PaymentIds -> PayStatuses] /\ reviewed' \subseteq Jobs
    BY DEF Inv, TypeOK, JobStatuses, PayStatuses
  <2> QED BY <2>1, <2>2 DEF Inv, TypeOK
<1>2. Monotone
  BY DEF Monotone, Inv, TypeOK
<1>3. \A p \in PaymentIds : payStatus'[p] \in {payStatus[p], "NONE"}
  BY DEF Inv, TypeOK
<1>4. Rows' /\ MoneyTrail'
  BY <1>3 DEF Inv, Rows, RowOK, MoneyTrail
<1>5. \A k \in Jobs : status'[k] = status[k] \/ status'[k] = "DELETED"
  BY DEF Inv, TypeOK
<1> QED BY <1>1, <1>2, <1>4, <1>5, OutsideStep

-----------------------------------------------------------------------------
(* Theorems *)

LEMMA InvInit == Init => Inv
<1> SUFFICES ASSUME Init PROVE Inv
  OBVIOUS
<1> USE DEF Init
<1>1. NoSession \in Sessions /\ NoSession.state = "unused" /\ NoSession.job = None
  BY DEF NoSession, Sessions, SessionStates
<1>2. TypeOK
  BY <1>1, IdleInOrder DEF TypeOK, JobStatuses, PayStatuses
<1>3. Rows /\ MoneyTrail /\ PaidBeforeWork
  BY <1>1 DEF Rows, RowOK, MoneyTrail, PaidBeforeWork
<1>4. Flights /\ OneDraft
  BY IdleInOrder DEF Flights, FlightOK, OneDraft, Choosing, Paying, Working
<1> QED BY <1>2, <1>3, <1>4 DEF Inv

\* Every step of every handler, webhook and customer keeps the invariant.
LEMMA InvNext == Inv /\ [Next]_vars => Inv'
<1> SUFFICES ASSUME Inv, [Next]_vars PROVE Inv'
  OBVIOUS
<1>1. ASSUME NEW s \in Slots, Arrive(s) \/ Proceed(s) PROVE Inv'
  BY <1>1, ArriveStep, ProceedStep
<1>2. ASSUME NEW s \in Slots, Abandon(s) PROVE Inv'
  BY <1>2, IdleStep DEF Abandon, dataVars
<1>3. ASSUME NEW s \in Slots, NEW p \in PaymentIds, WebhookCompleted(s, p) PROVE Inv'
  BY <1>3, WebhookStep
<1>4. ASSUME NEW p \in PaymentIds, PaySession(p) \/ ExpireSession(p) \/ WebhookExpired(p)
      PROVE  Inv'
  BY <1>4, StripeStep
<1>5. ASSUME NEW j \in Jobs, OpenConversation(j) \/ DeleteJob(j) PROVE Inv'
  BY <1>5, JobOutsideStep
<1>6. CASE UNCHANGED vars
  BY <1>6 DEF vars, Inv, TypeOK, Rows, RowOK, Flights, FlightOK, OneDraft,
              MoneyTrail, PaidBeforeWork, Paid, PaymentsOf
<1> QED BY <1>1, <1>2, <1>3, <1>4, <1>5, <1>6 DEF Next

\* The invariant of every behaviour of the payment and work handlers.
THEOREM InvAlways == Spec => []Inv
<1>1. Init => Inv
  BY InvInit
<1>2. Inv /\ [Next]_vars => Inv'
  BY InvNext
<1> QED BY <1>1, <1>2, PTL DEF Spec

\* Every value of every row and handler in flight has its type.
THEOREM TypeCorrect == Spec => []TypeOK
<1>1. Inv => TypeOK
  BY DEF Inv
<1> QED BY <1>1, InvAlways, PTL

\* No job leaves OPEN unpaid, however its handlers overlap, are retried or
\* die halfway (startJob, completeJob, requestRevision, approveJob,
\* createReview against fulfillPayment).
THEOREM PaidBeforeWorkAlways == Spec => []PaidBeforeWork
<1>1. Inv => PaidBeforeWork
  BY DEF Inv
<1> QED BY <1>1, InvAlways, PTL

\* No earning without escrow and no escrow without a paid Stripe session
\* (releaseEscrow, fulfillPayment, the webhook).
THEOREM MoneyTrailAlways == Spec => []MoneyTrail
<1>1. Inv => MoneyTrail
  BY DEF Inv
<1> QED BY <1>1, InvAlways, PTL
-----------------------------------------------------------------------------
(* The chat of a paid job.  However handlers overlap, what a handler        *)
(* carries agrees with the session of its payment (CarryOK), and a payment  *)
(* in escrow leaves its traces on the job and in the chat (TraceOK).        *)

Taken    == {"FUNDED", "RELEASED"}
Settling == {"fulfil_tx", "release_tx"}

\* What a handler stopped at r.pc knows of its payment is still so.
CarryOK(r) ==
    /\ r.pc \in Paying => session[r.pay].job = r.job
    /\ r.pc \in Settling => session[r.pay].state = "paid" /\ session[r.pay].helper = r.helper
    /\ r.pc = "release_tx" => payStatus[r.pay] \in Taken \cup {"NONE"}

\* What the row of a payment says about its job and its chat.
TraceOK(p) ==
    /\ session[p].state = "created" => payStatus[p] = "NONE"
    /\ payStatus[p] # "NONE" => Exists(session[p].job)
    /\ commissionRows[p] > 0 => status[session[p].job] # "OPEN"
    /\ payStatus[p] \in Taken => <<session[p].job, session[p].helper>> \in convs

Carried == \A s \in Slots : CarryOK(req[s])
Traces  == \A p \in PaymentIds : TraceOK(p)

\* What a session stands for never changes once it is drawn.
Kept ==
    \A p \in PaymentIds :
        session[p].state # "unused" =>
            /\ session'[p].state # "unused"
            /\ session'[p].job = session[p].job /\ session'[p].helper = session[p].helper
            /\ session'[p].amount = session[p].amount
            /\ session[p].state = "paid" => session'[p].state = "paid"
            /\ session'[p].state = "created" => session[p].state = "created"

LEMMA KeptStep == ASSUME Inv, [Next]_vars PROVE Kept
<1> USE DEF Inv, TypeOK, Kept
<1>1. CASE UNCHANGED session
  BY <1>1
<1>2. ASSUME NEW s \in Slots, CheckoutCreateSession(s) PROVE Kept
  BY <1>2 DEF CheckoutCreateSession
<1>3. ASSUME NEW p \in PaymentIds, NEW st \in {"open", "paid", "expired"},
             session[p].state # "paid",
             session' = [session EXCEPT ![p].state = st]
      PROVE  Kept
  <2>1. session[p] \in Sessions
    OBVIOUS
  <2>2. /\ session'[p].state = st /\ session'[p].job = session[p].job
        /\ session'[p].helper = session[p].helper /\ session'[p].amount = session[p].amount
    BY <1>3, <2>1 DEF Sessions
  <2> QED BY <1>3, <2>2
<1>4. ASSUME NEW s \in Slots, CheckoutCreatePayment(s) PROVE Kept
  <2>1. req[s].pay \in PaymentIds /\ session[req[s].pay].state = "created"
    BY <1>4 DEF CheckoutCreatePayment, At, Flights, FlightOK, Paying, OneDraft
  <2> QED BY <1>3, <1>4, <2>1 DEF CheckoutCreatePayment, SessionStates
<1>5. ASSUME NEW p \in PaymentIds, PaySession(p) \/ ExpireSession(p) PROVE Kept
  BY <1>3, <1>5 DEF PaySession, ExpireSession, SessionStates
<1>6. \/ UNCHANGED session
      \/ \E s \in Slots : CheckoutCreateSession(s) \/ CheckoutCreatePayment(s)
      \/ \E p \in PaymentIds : PaySession(p) \/ ExpireSession(p)
  BY DEF Next, vars, Arrive, Proceed, Abandon, WebhookCompleted, WebhookExpired,
         OpenConversation, DeleteJob, CheckoutRead, RejectRead, SelectRead, AcceptRead,
         StartRead, CompleteRead, ReviseRead, ApproveRead, ReviewRead, WorkRead,
         CheckoutFind, CheckoutDelete, FulfillPayment, SelectHelper, RejectApplication,
         AcceptLatestOffer, StartJob, CompleteJob, RequestRevision, WorkWrite, ApproveJob,
         ReleaseFind, ReleaseEscrow, CreateReview
<1> QED BY <1>1, <1>2, <1>4, <1>5, <1>6

\* The steps that touch the status of a job, a payment row, a commission or a
\* conversation.
LEMMA OtherStepsLeave ==
    ASSUME [Next]_vars
    PROVE  \/ UNCHANGED <<status, payStatus, commissionRows, convs>>
           \/ \E s \in Slots : \/ CheckoutDelete(s) \/ CheckoutCreatePayment(s)
                               \/ FulfillPayment(s) \/ StartJob(s) \/ CompleteJob(s)
                               \/ RequestRevision(s) \/ ApproveJob(s) \/ ReleaseEscrow(s)
                               \/ CreateReview(s)
           \/ \E p \in PaymentIds : WebhookExpired(p)
           \/ \E j \in Jobs : OpenConversation(j) \/ DeleteJob(j)
<1> USE DEF jobVars, walletVars
<1>1. ASSUME NEW s \in Slots, Arrive(s)
      PROVE  UNCHANGED <<status, payStatus, commissionRows, convs>>
  <2>1. CASE \E j \in Jobs, h \in Helpers : SelectRead(s, j, h) \/ AcceptRead(s, j, h)
    BY <2>1 DEF SelectRead, AcceptRead
  <2>2. CASE \E j \in Jobs : CheckoutRead(s, j) \/ RejectRead(s, j)
    BY <2>2 DEF CheckoutRead, RejectRead
  <2>3. CASE \E j \in Jobs : \/ StartRead(s, j) \/ CompleteRead(s, j) \/ ReviseRead(s, j)
                            \/ ApproveRead(s, j) \/ ReviewRead(s, j)
    BY <2>3 DEF StartRead, CompleteRead, ReviseRead, ApproveRead, ReviewRead, WorkRead
  <2> QED BY <1>1, <2>1, <2>2, <2>3 DEF Arrive
<1>2. ASSUME NEW s \in Slots, Proceed(s)
      PROVE  \/ UNCHANGED <<status, payStatus, commissionRows, convs>>
             \/ CheckoutDelete(s) \/ CheckoutCreatePayment(s) \/ FulfillPayment(s)
             \/ StartJob(s) \/ CompleteJob(s) \/ RequestRevision(s) \/ ApproveJob(s)
             \/ ReleaseEscrow(s) \/ CreateReview(s)
  <2>1. CASE CheckoutFind(s)
    BY <2>1 DEF CheckoutFind
  <2>2. CASE CheckoutCreateSession(s)
    BY <2>2 DEF CheckoutCreateSession
  <2>3. CASE SelectHelper(s) \/ RejectApplication(s) \/ AcceptLatestOffer(s)
    BY <2>3 DEF SelectHelper, RejectApplication, AcceptLatestOffer
  <2>4. CASE ReleaseFind(s)
    BY <2>4 DEF ReleaseFind
  <2> QED BY <1>2, <2>1, <2>2, <2>3, <2>4 DEF Proceed
<1>3. ASSUME NEW s \in Slots, Abandon(s)
      PROVE  UNCHANGED <<status, payStatus, commissionRows, convs>>
  BY <1>3 DEF Abandon
<1>4. ASSUME NEW s \in Slots, NEW p \in PaymentIds, WebhookCompleted(s, p)
      PROVE  UNCHANGED <<status, payStatus, commissionRows, convs>>
  BY <1>4 DEF WebhookCompleted
<1>5. ASSUME NEW p \in PaymentIds, PaySession(p) \/ ExpireSession(p)
      PROVE  UNCHANGED <<status, payStatus, commissionRows, convs>>
  BY <1>5 DEF PaySession, ExpireSession
<1>6. CASE UNCHANGED vars
  BY <1>6 DEF vars
<1> QED BY <1>1, <1>2, <1>3, <1>4, <1>5, <1>6 DEF Next

\* How a step can change the row of a payment.
RowMoves ==
    \A p \in PaymentIds :
        \/ payStatus'[p] = payStatus[p]
        \/ payStatus'[p] = "NONE"
        \/ payStatus'[p] = "FAILED" /\ payStatus[p] = "PENDING" /\ session[p].state = "expired"
        \/ \E s \in Slots :
              /\ req[s].pay = p
              /\ \/ CheckoutCreatePayment(s) /\ payStatus'[p] = "PENDING"
                 \/ FulfillPayment(s) /\ payStatus'[p] = "FUNDED"
                 \/ ReleaseEscrow(s) /\ payStatus'[p] = "RELEASED"

LEMMA RowMovesStep == ASSUME Inv, [Next]_vars PROVE RowMoves
<1> SUFFICES ASSUME NEW p \in PaymentIds, payStatus'[p] # payStatus[p]
             PROVE  \/ payStatus'[p] = "NONE"
                    \/ /\ payStatus'[p] = "FAILED" /\ payStatus[p] = "PENDING"
                       /\ session[p].state = "expired"
                    \/ \E s \in Slots :
                          /\ req[s].pay = p
                          /\ \/ CheckoutCreatePayment(s) /\ payStatus'[p] = "PENDING"
                             \/ FulfillPayment(s) /\ payStatus'[p] = "FUNDED"
                             \/ ReleaseEscrow(s) /\ payStatus'[p] = "RELEASED"
  BY DEF RowMoves
<1>0. payStatus \in [PaymentIds -> PayStatuses]
  BY DEF Inv, TypeOK
<1>1. \/ \E s \in Slots : \/ CheckoutDelete(s) \/ CheckoutCreatePayment(s)
                          \/ FulfillPayment(s) \/ ReleaseEscrow(s)
      \/ \E q \in PaymentIds : WebhookExpired(q)
      \/ \E j \in Jobs : DeleteJob(j)
  BY OtherStepsLeave DEF StartJob, CompleteJob, RequestRevision, ApproveJob, CreateReview,
         WorkWrite, OpenConversation
<1>2. CASE \E s \in Slots : \/ CheckoutDelete(s) \/ CheckoutCreatePayment(s)
                            \/ FulfillPayment(s) \/ ReleaseEscrow(s)
  BY <1>0, <1>2 DEF CheckoutDelete, CheckoutCreatePayment, FulfillPayment, ReleaseEscrow
<1>3. CASE \E q \in PaymentIds : WebhookExpired(q)
  BY <1>0, <1>3 DEF WebhookExpired
<1>4. CASE \E j \in Jobs : DeleteJob(j)
  BY <1>0, <1>4 DEF DeleteJob
<1> QED BY <1>1, <1>2, <1>3, <1>4

\* How a step can change the status of a job.
StatusMoves ==
    \A j \in Jobs :
        \/ status'[j] = status[j]
        \/ DeleteJob(j) /\ status'[j] = "DELETED"
        \/ \E s \in Slots :
              /\ req[s].job = j /\ Exists(j)
              /\ \/ FulfillPayment(s) /\ status'[j] = "ASSIGNED"
                 \/ StartJob(s) /\ status'[j] = "IN_PROGRESS"
                 \/ CompleteJob(s) /\ status'[j] = "WAITING_FOR_APPROVAL"
                 \/ RequestRevision(s) /\ status'[j] = "REVISION_REQUESTED"
                 \/ ApproveJob(s) /\ status'[j] = "COMPLETED"
                 \/ CreateReview(s) /\ status'[j] = "CLOSED"

LEMMA StatusMovesStep == ASSUME Inv, [Next]_vars PROVE StatusMoves
<1>0. status \in [Jobs -> JobStatuses]
  BY DEF Inv, TypeOK
<1>1. \/ UNCHANGED status
      \/ \E s \in Slots : \/ FulfillPayment(s) \/ StartJob(s) \/ CompleteJob(s)
                          \/ RequestRevision(s) \/ ApproveJob(s) \/ CreateReview(s)
      \/ \E j \in Jobs : DeleteJob(j)
  BY OtherStepsLeave DEF CheckoutDelete, CheckoutCreatePayment, ReleaseEscrow,
         WebhookExpired, OpenConversation, jobVars
<1>2. CASE UNCHANGED status
  BY <1>2 DEF StatusMoves
<1>3. ASSUME NEW s \in Slots,
             \/ FulfillPayment(s) \/ StartJob(s) \/ CompleteJob(s)
             \/ RequestRevision(s) \/ ApproveJob(s) \/ CreateReview(s)
      PROVE  StatusMoves
  <2> SUFFICES ASSUME NEW j \in Jobs, status'[j] # status[j]
               PROVE  /\ req[s].job = j /\ Exists(j)
                      /\ \/ FulfillPayment(s) /\ status'[j] = "ASSIGNED"
                         \/ StartJob(s) /\ status'[j] = "IN_PROGRESS"
                         \/ CompleteJob(s) /\ status'[j] = "WAITING_FOR_APPROVAL"
                         \/ RequestRevision(s) /\ status'[j] = "REVISION_REQUESTED"
                         \/ ApproveJob(s) /\ status'[j] = "COMPLETED"
                         \/ CreateReview(s) /\ status'[j] = "CLOSED"
    BY DEF StatusMoves
  <2>1. CASE FulfillPayment(s)
    BY <1>0, <2>1 DEF FulfillPayment
  <2>2. CASE StartJob(s)
    BY <1>0, <2>2 DEF StartJob, WorkWrite
  <2>3. CASE CompleteJob(s)
    BY <1>0, <2>3 DEF CompleteJob, WorkWrite
  <2>4. CASE RequestRevision(s)
    BY <1>0, <2>4 DEF RequestRevision, WorkWrite
  <2>5. CASE ApproveJob(s)
    BY <1>0, <2>5 DEF ApproveJob
  <2>6. CASE CreateReview(s)
    BY <1>0, <2>6 DEF CreateReview
  <2> QED BY <1>3, <2>1, <2>2, <2>3, <2>4, <2>5, <2>6
<1>4. ASSUME NEW k \in Jobs, DeleteJob(k) PROVE StatusMoves
  <2>1. status' = [status EXCEPT ![k] = "DELETED"]
    BY <1>4 DEF DeleteJob
  <2>2. \A j \in Jobs : status'[j] = status[j] \/ (j = k /\ status'[j] = "DELETED")
    BY <1>0, <2>1
  <2> QED BY <1>4, <2>2 DEF StatusMoves
<1> QED BY <1>1, <1>2, <1>3, <1>4

\* A row that goes with its job, and what stays in the ledger.
LedgerMoves ==
    /\ \A p \in PaymentIds :
          \/ commissionRows'[p] = commissionRows[p]
          \/ \E s \in Slots : req[s].pay = p /\ FulfillPayment(s)
    /\ \A j \in Jobs, h \in Helpers :
          <<j, h>> \in convs => <<j, h>> \in convs' \/ DeleteJob(j)

LEMMA LedgerMovesStep == ASSUME Inv, [Next]_vars PROVE LedgerMoves
<1>0. commissionRows \in [PaymentIds -> Nat]
  BY DEF Inv, TypeOK
<1>1. \/ UNCHANGED commissionRows
      \/ \E s \in Slots : FulfillPayment(s)
  BY OtherStepsLeave DEF CheckoutDelete, CheckoutCreatePayment, ReleaseEscrow, WebhookExpired,
         StartJob, CompleteJob, RequestRevision, ApproveJob, CreateReview, WorkWrite,
         OpenConversation, DeleteJob, walletVars
<1>2. \A p \in PaymentIds :
          \/ commissionRows'[p] = commissionRows[p]
          \/ \E s \in Slots : req[s].pay = p /\ FulfillPayment(s)
  BY <1>0, <1>1 DEF FulfillPayment
<1>3. \/ convs \subseteq convs'
      \/ \E j \in Jobs : DeleteJob(j)
  BY OtherStepsLeave DEF CheckoutDelete, CheckoutCreatePayment, ReleaseEscrow, WebhookExpired,
         FulfillPayment, StartJob, CompleteJob, RequestRevision, ApproveJob, CreateReview,
         WorkWrite, OpenConversation, walletVars
<1>4. ASSUME NEW k \in Jobs, DeleteJob(k), NEW j \in Jobs, NEW h \in Helpers,
             <<j, h>> \in convs
      PROVE  <<j, h>> \in convs' \/ DeleteJob(j)
  BY <1>4 DEF DeleteJob
<1> QED BY <1>2, <1>3, <1>4 DEF LedgerMoves

\* How a step can move the handlers in flight: one of them, which ends, goes
\* on with the same operation on the same job, or starts.
Continues(s, r) == /\ req[s].pc \in DOMAIN OpOf /\ r.pc \in DOMAIN OpOf
                   /\ r.job = req[s].job /\ OpOf[r.pc] = OpOf[req[s].pc]
Starts(s, r)    == r.pc \in DOMAIN OpOf /\ MayOverlap(r.job, OpOf[r.pc])

HandlerMoves ==
    \/ UNCHANGED req
    \/ \E s \in Slots, r \in Requests :
          /\ req' = [req EXCEPT ![s] = r]
          /\ r = Idle \/ Continues(s, r) \/ Starts(s, r)

LEMMA BeginMoves ==
    ASSUME TypeOK, NEW s \in Slots, NEW pc \in DOMAIN OpOf, NEW j \in Jobs,
           NEW h \in Helpers \cup {None}, NEW p \in PaymentIds \cup {None},
           Begin(s, pc, j, h, p)
    PROVE  HandlerMoves
<1>1. PICK r \in Requests : r = [pc |-> pc, job |-> j, helper |-> h, pay |-> p]
  BY DEF Requests
<1>2. r.pc = pc /\ r.job = j
  BY <1>1
<1> QED BY <1>1, <1>2 DEF Begin, HandlerMoves, Starts

LEMMA AdvanceMoves ==
    ASSUME TypeOK, NEW s \in Slots, NEW pc \in DOMAIN OpOf, req[s].pc \in DOMAIN OpOf,
           OpOf[pc] = OpOf[req[s].pc],
           NEW p \in PaymentIds \cup {None}, NEW h \in Helpers \cup {None},
           \/ req' = [req EXCEPT ![s] = [req[s] EXCEPT !.pc = pc]]
           \/ req' = [req EXCEPT ![s] = [req[s] EXCEPT !.pc = pc, !.pay = p]]
           \/ req' = [req EXCEPT ![s] = [req[s] EXCEPT !.pc = pc, !.pay = p, !.helper = h]]
    PROVE  HandlerMoves
<1>1. req[s] \in Requests
  BY DEF TypeOK
<1>2. ASSUME NEW r \in Requests, r.pc = pc, r.job = req[s].job,
             req' = [req EXCEPT ![s] = r]
      PROVE  HandlerMoves
  BY <1>2 DEF HandlerMoves, Continues
<1>3. CASE req' = [req EXCEPT ![s] = [req[s] EXCEPT !.pc = pc]]
  <2>1. PICK r \in Requests : r = [req[s] EXCEPT !.pc = pc]
    BY <1>1 DEF Requests
  <2>2. r.pc = pc /\ r.job = req[s].job
    BY <1>1, <2>1 DEF Requests
  <2> QED BY <1>2, <1>3, <2>1, <2>2
<1>4. CASE req' = [req EXCEPT ![s] = [req[s] EXCEPT !.pc = pc, !.pay = p]]
  <2>1. PICK r \in Requests : r = [req[s] EXCEPT !.pc = pc, !.pay = p]
    BY <1>1 DEF Requests
  <2>2. r.pc = pc /\ r.job = req[s].job
    BY <1>1, <2>1 DEF Requests
  <2> QED BY <1>2, <1>4, <2>1, <2>2
<1>5. CASE req' = [req EXCEPT ![s] = [req[s] EXCEPT !.pc = pc, !.pay = p, !.helper = h]]
  <2>1. PICK r \in Requests : r = [req[s] EXCEPT !.pc = pc, !.pay = p, !.helper = h]
    BY <1>1 DEF Requests
  <2>2. r.pc = pc /\ r.job = req[s].job
    BY <1>1, <2>1 DEF Requests
  <2> QED BY <1>2, <1>5, <2>1, <2>2
<1> QED BY <1>3, <1>4, <1>5

\* The handlers that end with their step.
Ends(s) ==
    \/ CheckoutCreatePayment(s) \/ FulfillPayment(s) \/ SelectHelper(s)
    \/ RejectApplication(s) \/ AcceptLatestOffer(s) \/ StartJob(s) \/ CompleteJob(s)
    \/ RequestRevision(s) \/ ReleaseEscrow(s) \/ CreateReview(s) \/ Abandon(s)

\* Those that start or go on.
Runs(s) ==
    \/ Arrive(s) \/ \E p \in PaymentIds : WebhookCompleted(s, p)
    \/ CheckoutFind(s) \/ CheckoutDelete(s) \/ CheckoutCreateSession(s)
    \/ ApproveJob(s) \/ ReleaseFind(s)

LEMMA EndsFinish == ASSUME NEW s \in Slots, Ends(s) PROVE Finish(s)
BY DEF Ends, Abandon, CheckoutCreatePayment, FulfillPayment, SelectHelper,
       RejectApplication, AcceptLatestOffer, StartJob, CompleteJob, RequestRevision,
       WorkWrite, ReleaseEscrow, CreateReview

LEMMA WhoMoves ==
    ASSUME [Next]_vars
    PROVE  UNCHANGED req \/ \E s \in Slots : Ends(s) \/ Runs(s)
BY DEF Next, vars, Proceed, Ends, Runs, PaySession, ExpireSession, WebhookExpired,
       OpenConversation, DeleteJob

LEMMA RunsMove == ASSUME Inv, NEW s \in Slots, Runs(s) PROVE HandlerMoves
<1> USE ProgramCounters
<1>0. TypeOK /\ FlightOK(req[s]) /\ req[s] \in Requests
  BY DEF Inv, Flights, TypeOK
<1>1. CASE Arrive(s)
  <2>1. PICK j \in Jobs :
        \/ CheckoutRead(s, j) \/ RejectRead(s, j)
        \/ \E h \in Helpers : SelectRead(s, j, h) \/ AcceptRead(s, j, h)
        \/ StartRead(s, j) \/ CompleteRead(s, j) \/ ReviseRead(s, j)
        \/ ApproveRead(s, j) \/ ReviewRead(s, j)
    BY <1>1 DEF Arrive
  <2>2. selected[j] \in Helpers \cup {None}
    BY <1>0 DEF TypeOK
  <2>3. \E pc \in DOMAIN OpOf, h \in Helpers \cup {None} : Begin(s, pc, j, h, None)
    BY <2>1, <2>2 DEF CheckoutRead, RejectRead, SelectRead, AcceptRead, StartRead,
       CompleteRead, ReviseRead, ApproveRead, ReviewRead, WorkRead
  <2> QED BY <1>0, <2>3, BeginMoves
<1>2. CASE \E p \in PaymentIds : WebhookCompleted(s, p)
  <2>1. PICK p \in PaymentIds : WebhookCompleted(s, p)
    BY <1>2
  <2>2. session[p].job \in Jobs /\ session[p].helper \in Helpers
    BY <2>1 DEF WebhookCompleted, Fulfillable, Inv, Rows, RowOK
  <2> QED BY <1>0, <2>1, <2>2, BeginMoves DEF WebhookCompleted
<1>3. CASE CheckoutFind(s)
  <2>1. \/ Finish(s)
        \/ req' = [req EXCEPT ![s] = [req[s] EXCEPT !.pc = "checkout_session"]]
        \/ \E p \in PaymentIds \cup {None} :
             req' = [req EXCEPT ![s] = [req[s] EXCEPT !.pc = "checkout_delete", !.pay = p]]
    BY <1>3 DEF CheckoutFind, Advance, LivePayments, RowsOf, PaymentsOf
  <2>2. /\ req[s].pc = "checkout_find"
        /\ OpOf["checkout_session"] = OpOf["checkout_find"]
        /\ OpOf["checkout_delete"] = OpOf["checkout_find"]
    BY <1>3 DEF CheckoutFind, At, OpOf
  <2>3. CASE Finish(s)
    BY <2>3, IdleInOrder DEF Finish, HandlerMoves
  <2>4. CASE req' = [req EXCEPT ![s] = [req[s] EXCEPT !.pc = "checkout_session"]]
    BY <1>0, <2>2, <2>4, AdvanceMoves
  <2>5. ASSUME NEW p \in PaymentIds \cup {None},
               req' = [req EXCEPT ![s] = [req[s] EXCEPT !.pc = "checkout_delete", !.pay = p]]
        PROVE  HandlerMoves
    BY <1>0, <2>2, <2>5, AdvanceMoves
  <2> QED BY <2>1, <2>3, <2>4, <2>5
<1>4. CASE CheckoutDelete(s)
  <2>1. req[s].pc = "checkout_delete" /\ OpOf["checkout_session"] = OpOf["checkout_delete"]
    BY <1>4 DEF CheckoutDelete, At, OpOf
  <2> QED BY <1>0, <1>4, <2>1, AdvanceMoves DEF CheckoutDelete, Advance
<1>5. CASE CheckoutCreateSession(s)
  <2>1. req[s].pc = "checkout_session" /\ OpOf["checkout_create"] = OpOf["checkout_session"]
    BY <1>5 DEF CheckoutCreateSession, At, OpOf
  <2>2. PICK p \in PaymentIds \cup {None} :
           req' = [req EXCEPT ![s] = [req[s] EXCEPT !.pc = "checkout_create", !.pay = p]]
    BY <1>5 DEF CheckoutCreateSession, Advance
  <2> QED BY <1>0, <2>1, <2>2, AdvanceMoves
<1>6. CASE ApproveJob(s)
  <2>1. req[s].pc = "approve_write" /\ OpOf["release_find"] = OpOf["approve_write"]
    BY <1>6 DEF ApproveJob, At, OpOf
  <2> QED BY <1>0, <1>6, <2>1, AdvanceMoves DEF ApproveJob, Advance
<1>7. CASE ReleaseFind(s)
  <2>1. req[s].pc = "release_find" /\ OpOf["release_tx"] = OpOf["release_find"]
    BY <1>7 DEF ReleaseFind, At, OpOf
  <2>2. PICK p \in PaymentIds :
          /\ payStatus[p] = "FUNDED"
          /\ req' = [req EXCEPT ![s] = [req[s] EXCEPT !.pc = "release_tx", !.pay = p,
                                                      !.helper = session[p].helper]]
    BY <1>7 DEF ReleaseFind, Advance, RowsOf, PaymentsOf, Releasable
  <2>3. session[p].helper \in Helpers
    BY <2>2 DEF Inv, Rows, RowOK
  <2> QED BY <1>0, <2>1, <2>2, <2>3, AdvanceMoves
<1> QED BY <1>1, <1>2, <1>3, <1>4, <1>5, <1>6, <1>7 DEF Runs

LEMMA HandlerMovesStep == ASSUME Inv, [Next]_vars PROVE HandlerMoves
<1>1. CASE UNCHANGED req
  BY <1>1 DEF HandlerMoves
<1>2. ASSUME NEW s \in Slots, Ends(s) PROVE HandlerMoves
  BY <1>2, EndsFinish, IdleInOrder DEF Finish, HandlerMoves
<1> QED BY <1>1, <1>2, RunsMove, WhoMoves

\* A slot stays as it is, is emptied, or its own handler starts or goes on.
LEMMA SlotMoves ==
    ASSUME Inv, [Next]_vars, NEW t \in Slots
    PROVE  req'[t] = req[t] \/ req'[t] = Idle \/ Runs(t)
<1>1. ASSUME NEW s \in Slots, Ends(s) PROVE req'[t] = req[t] \/ req'[t] = Idle
  BY <1>1, EndsFinish DEF Finish, Inv, TypeOK
<1>2. ASSUME NEW s \in Slots, Runs(s), s # t PROVE req'[t] = req[t]
  BY <1>2 DEF Runs, Arrive, CheckoutRead, RejectRead, SelectRead, AcceptRead, StartRead,
     CompleteRead, ReviseRead, ApproveRead, ReviewRead, WorkRead, Begin, WebhookCompleted,
     CheckoutFind, Advance, Finish, CheckoutDelete, CheckoutCreateSession, ApproveJob,
     ReleaseFind, Inv, TypeOK
<1> QED BY <1>1, <1>2, WhoMoves

\* Two operations the locks keep apart are never in flight on one job.
Exclusion ==
    \A s, t \in Slots :
        /\ s # t /\ req[s].pc # "idle" /\ req[t].pc # "idle" /\ req[s].job = req[t].job
        => {OpOf[req[s].pc], OpOf[req[t].pc]} \notin Serialised

LEMMA ExclusionStep == ASSUME Inv, Inv', [Next]_vars, Exclusion PROVE Exclusion'
<1>1. CASE UNCHANGED req
  BY <1>1 DEF Exclusion
<1>2. CASE ~ UNCHANGED req
  <2>1. PICK s \in Slots, r \in Requests :
          /\ req' = [req EXCEPT ![s] = r]
          /\ r = Idle \/ Continues(s, r) \/ Starts(s, r)
    BY <1>2, HandlerMovesStep DEF HandlerMoves
  <2>2. req'[s] = r /\ \A t \in Slots : t # s => req'[t] = req[t]
    BY <2>1 DEF Inv, TypeOK
  <2>3. \A t \in Slots : t # s /\ r.pc # "idle" /\ req[t].pc # "idle" /\ req[t].job = r.job
                            => {OpOf[req[t].pc], OpOf[r.pc]} \notin Serialised
    <3>1. CASE r = Idle
      BY <3>1, IdleInOrder
    <3>2. CASE Continues(s, r)
      BY <3>2, ProgramCounters DEF Continues, Exclusion
    <3>3. CASE Starts(s, r)
      BY <3>3 DEF Starts, MayOverlap
    <3> QED BY <2>1, <3>1, <3>2, <3>3
  <2>4. \A a, b : {a, b} = {b, a}
    OBVIOUS
  <2> QED BY <2>2, <2>3, <2>4 DEF Exclusion
<1> QED BY <1>1, <1>2

LEMMA CarriedStep ==
    ASSUME Inv, Inv', [Next]_vars, Carried, Traces
    PROVE  Carried'
<1> USE ProgramCounters
<1>0. Kept /\ RowMoves
  BY KeptStep, RowMovesStep
<1> SUFFICES ASSUME NEW t \in Slots PROVE CarryOK(req[t])'
  BY DEF Carried
<1>a. /\ FlightOK(req[t]) /\ CarryOK(req[t]) /\ req[t] \in Requests
      /\ FlightOK(req[t])' /\ req'[t] \in Requests
  BY DEF Inv, Flights, Carried, TypeOK
<1>1. CASE req'[t] = Idle
  BY <1>1, IdleInOrder DEF CarryOK, Paying, Settling
<1>2. CASE req'[t] = req[t]
  <2>1. PICK r \in Requests : r = req[t]
    BY <1>a
  <2>2. r.pc \in Paying => session'[r.pay].job = r.job
    BY <1>0, <1>a, <2>1 DEF CarryOK, FlightOK, Kept
  <2>3. r.pc \in Settling => session'[r.pay].state = "paid" /\ session'[r.pay].helper = r.helper
    BY <1>0, <1>a, <2>1 DEF CarryOK, FlightOK, Kept, Settling, Paying
  <2>4. ASSUME r.pc = "release_tx" PROVE payStatus'[r.pay] \in Taken \cup {"NONE"}
    <3>1. /\ r.pay \in PaymentIds /\ session[r.pay].state = "paid"
          /\ payStatus[r.pay] \in Taken \cup {"NONE"}
      BY <1>a, <2>1, <2>4 DEF CarryOK, FlightOK, Settling, Paying
    <3>2. \A s \in Slots : CheckoutCreatePayment(s) => session[req[s].pay].state = "created"
      BY DEF CheckoutCreatePayment, At, Inv, OneDraft
    <3> QED BY <1>0, <3>1, <3>2 DEF RowMoves, Taken
  <2> QED BY <1>2, <2>1, <2>2, <2>3, <2>4 DEF CarryOK
<1>3. CASE Runs(t)
  <2>1. ASSUME req'[t].pc \notin Paying PROVE CarryOK(req[t])'
    BY <2>1 DEF CarryOK, Paying, Settling
  <2>2. CASE Arrive(t)
    <3>1. req'[t].pc \notin Paying
      BY <2>2 DEF Arrive, CheckoutRead, RejectRead, SelectRead, AcceptRead, StartRead,
         CompleteRead, ReviseRead, ApproveRead, ReviewRead, WorkRead, Begin, Inv, TypeOK, Paying
    <3> QED BY <2>1, <3>1
  <2>3. CASE \E p \in PaymentIds : WebhookCompleted(t, p)
    <3>1. PICK p \in PaymentIds : WebhookCompleted(t, p)
      BY <2>3
    <3>2. req'[t] = [pc |-> "fulfil_tx", job |-> session[p].job,
                     helper |-> session[p].helper, pay |-> p]
      BY <3>1 DEF WebhookCompleted, Begin, Inv, TypeOK
    <3>3. session' = session /\ session[p].state = "paid"
      BY <3>1 DEF WebhookCompleted, Fulfillable
    <3> QED BY <3>2, <3>3 DEF CarryOK, Paying, Settling
  <2>4. CASE CheckoutFind(t)
    <3>1. CASE Finish(t)
      BY <3>1, <1>1 DEF Finish, Inv, TypeOK
    <3>2. CASE req' = [req EXCEPT ![t] = [req[t] EXCEPT !.pc = "checkout_session"]]
      <4>1. req'[t].pc = "checkout_session"
        BY <3>2, <1>a DEF Inv, TypeOK, Requests
      <4> QED BY <4>1, <2>1 DEF Paying
    <3>3. ASSUME NEW p \in LivePayments(req[t].job),
                 req' = [req EXCEPT ![t] = [req[t] EXCEPT !.pc = "checkout_delete", !.pay = p]]
          PROVE  CarryOK(req[t])'
      <4>1. /\ req'[t].pc = "checkout_delete" /\ req'[t].pay = p
            /\ req'[t].job = req[t].job
        BY <3>3, <1>a DEF Inv, TypeOK, Requests
      <4>2. session[p].job = req[t].job /\ session' = session
        BY <2>4 DEF LivePayments, RowsOf, PaymentsOf, CheckoutFind
      <4> QED BY <4>1, <4>2 DEF CarryOK, Settling
    <3> QED BY <2>4, <3>1, <3>2, <3>3 DEF CheckoutFind, Advance
  <2>5. CASE CheckoutDelete(t)
    <3>1. req'[t].pc = "checkout_session"
      BY <2>5, <1>a DEF CheckoutDelete, Advance, Inv, TypeOK, Requests
    <3> QED BY <2>1, <3>1 DEF Paying
  <2>6. CASE CheckoutCreateSession(t)
    <3>1. PICK p \in PaymentIds, a \in Amounts :
         /\ session' = [session EXCEPT ![p] =
                          [state |-> "created", job |-> req[t].job,
                           helper |-> req[t].helper, amount |-> a]]
         /\ req' = [req EXCEPT ![t] = [req[t] EXCEPT !.pc = "checkout_create", !.pay = p]]
      BY <2>6 DEF CheckoutCreateSession, Advance
    <3>2. /\ req'[t].pc = "checkout_create" /\ req'[t].pay = p
          /\ req'[t].job = req[t].job
      BY <3>1, <1>a DEF Inv, TypeOK, Requests
    <3>3. session'[p].job = req[t].job
      BY <3>1 DEF Inv, TypeOK
    <3> QED BY <3>2, <3>3 DEF CarryOK, Settling
  <2>7. CASE ApproveJob(t)
    <3>1. req'[t].pc = "release_find"
      BY <2>7, <1>a DEF ApproveJob, Advance, Inv, TypeOK, Requests
    <3> QED BY <2>1, <3>1 DEF Paying
  <2>8. CASE ReleaseFind(t)
    <3>1. PICK p \in RowsOf(req[t].job) :
        /\ payStatus[p] = "FUNDED"
        /\ req' = [req EXCEPT ![t] = [req[t] EXCEPT !.pc = "release_tx", !.pay = p,
                                                    !.helper = session[p].helper]]
      BY <2>8 DEF ReleaseFind, Advance, Releasable
    <3>2. p \in PaymentIds /\ session[p].job = req[t].job
      BY <3>1 DEF RowsOf, PaymentsOf
    <3>3. /\ req'[t].pc = "release_tx" /\ req'[t].pay = p
          /\ req'[t].job = req[t].job /\ req'[t].helper = session[p].helper
      BY <3>1, <1>a DEF Inv, TypeOK, Requests
    <3>4. session[p].state = "paid"
      BY <3>1, <3>2 DEF Inv, Rows, RowOK, MoneyTrail
    <3>5. session' = session /\ payStatus' = payStatus
      BY <2>8 DEF ReleaseFind
    <3> QED BY <3>1, <3>2, <3>3, <3>4, <3>5 DEF CarryOK, Taken
  <2> QED BY <1>3, <2>2, <2>3, <2>4, <2>5, <2>6, <2>7, <2>8 DEF Runs
<1> QED BY <1>1, <1>2, <1>3, SlotMoves

\* What the step of a handler finds when it writes.
LEMMA WhenFulfilled ==
    ASSUME Inv, Carried, NEW s \in Slots, FulfillPayment(s)
    PROVE  LET p == req[s].pay
           IN  /\ p \in PaymentIds /\ session[p].state = "paid"
               /\ req[s].job = session[p].job /\ req[s].job \in Jobs
               /\ req[s].helper = session[p].helper /\ req[s].helper \in Helpers
               /\ payStatus[p] # "NONE" /\ Exists(session[p].job)
BY DEF FulfillPayment, At, Inv, Flights, FlightOK, Carried, CarryOK, Paying, Settling, Choosing

LEMMA WhenReleased ==
    ASSUME Inv, Carried, NEW s \in Slots, ReleaseEscrow(s)
    PROVE  LET p == req[s].pay
           IN  /\ p \in PaymentIds /\ session[p].state = "paid"
               /\ req[s].job = session[p].job /\ req[s].job \in Jobs
               /\ req[s].helper = session[p].helper /\ req[s].helper \in Helpers
               /\ payStatus[p] \in Taken
BY DEF ReleaseEscrow, At, Inv, Flights, FlightOK, Carried, CarryOK, Paying, Settling, Choosing

LEMMA WhenCreated ==
    ASSUME Inv, Carried, NEW s \in Slots, CheckoutCreatePayment(s)
    PROVE  LET p == req[s].pay
           IN  /\ p \in PaymentIds /\ session[p].state = "created"
               /\ session'[p].state = "open" /\ session'[p].job = session[p].job
               /\ req[s].job = session[p].job /\ req[s].job \in Jobs
               /\ Exists(session[p].job) /\ UNCHANGED status
<1>1. LET p == req[s].pay
      IN  /\ p \in PaymentIds /\ session[p].state = "created"
          /\ req[s].job = session[p].job /\ req[s].job \in Jobs
  BY DEF CheckoutCreatePayment, At, Inv, Flights, FlightOK, Carried, CarryOK, Paying, OneDraft
<1>2. session[req[s].pay] \in Sessions
  BY <1>1 DEF Inv, TypeOK
<1> QED BY <1>1, <1>2 DEF CheckoutCreatePayment, jobVars, Inv, TypeOK, Sessions

LEMMA TracesStep ==
    ASSUME Inv, Inv', [Next]_vars, Carried, Traces
    PROVE  Traces'
<1>0. Kept /\ RowMoves /\ StatusMoves /\ LedgerMoves
  BY KeptStep, RowMovesStep, StatusMovesStep, LedgerMovesStep
<1> SUFFICES ASSUME NEW p \in PaymentIds PROVE TraceOK(p)'
  BY DEF Traces
<1>a. TraceOK(p) /\ RowOK(p) /\ RowOK(p)'
  BY DEF Traces, Inv, Rows
<1>b. session[p].state # "unused" =>
         session[p].job \in Jobs /\ session[p].helper \in Helpers
  BY <1>a DEF RowOK
<1>1. session'[p].state = "created" => payStatus'[p] = "NONE"
  <2> SUFFICES ASSUME session'[p].state = "created" PROVE payStatus'[p] = "NONE"
    OBVIOUS
  <2>1. session[p].state \in {"unused", "created"}
    BY <1>0 DEF Kept
  <2>2. payStatus[p] = "NONE"
    BY <1>a, <2>1 DEF TraceOK, RowOK
  <2> QED BY <1>0, <2>1, <2>2, WhenFulfilled, WhenReleased, WhenCreated DEF RowMoves
<1>2. payStatus'[p] # "NONE" => status'[session'[p].job] # "DELETED"
  <2> SUFFICES ASSUME payStatus'[p] # "NONE" PROVE status'[session'[p].job] # "DELETED"
    OBVIOUS
  <2>1. CASE payStatus[p] # "NONE"
    <3>1. PICK j \in Jobs : /\ session[p].job = j /\ session'[p].job = j
                            /\ status[j] # "DELETED"
      BY <1>0, <1>a, <1>b, <2>1 DEF RowOK, Kept, TraceOK, Exists
    <3>2. ~ DeleteJob(j)
      BY <3>1 DEF DeleteJob
    <3> QED BY <1>0, <3>1, <3>2 DEF StatusMoves
  <2>2. CASE payStatus[p] = "NONE"
    <3>1. PICK s \in Slots : req[s].pay = p /\ CheckoutCreatePayment(s)
      BY <1>0, <2>2, WhenFulfilled, WhenReleased DEF RowMoves, Taken
    <3> QED BY <3>1, WhenCreated DEF Exists
  <2> QED BY <2>1, <2>2
<1>3. commissionRows'[p] > 0 => status'[session'[p].job] # "OPEN"
  <2> SUFFICES ASSUME commissionRows'[p] > 0 PROVE status'[session'[p].job] # "OPEN"
    OBVIOUS
  <2>1. CASE commissionRows'[p] = commissionRows[p]
    <3>1. PICK j \in Jobs : /\ session[p].job = j /\ session'[p].job = j
                            /\ status[j] # "OPEN"
      BY <1>0, <1>a, <1>b, <2>1 DEF TraceOK, Kept, Inv, MoneyTrail
    <3> QED BY <1>0, <3>1 DEF StatusMoves
  <2>2. CASE commissionRows'[p] # commissionRows[p]
    <3>1. PICK s \in Slots : req[s].pay = p /\ FulfillPayment(s)
      BY <1>0, <2>2 DEF LedgerMoves
    <3>2. PICK j \in Jobs : session[p].job = j /\ req[s].job = j
      BY <3>1, WhenFulfilled
    <3>3. session' = session /\ status' = [status EXCEPT ![j] = "ASSIGNED"]
      BY <3>1, <3>2 DEF FulfillPayment
    <3> QED BY <3>2, <3>3 DEF Inv, TypeOK
  <2> QED BY <2>1, <2>2
<1>4. payStatus'[p] \in Taken => <<session'[p].job, session'[p].helper>> \in convs'
  <2> SUFFICES ASSUME payStatus'[p] \in Taken
               PROVE  <<session'[p].job, session'[p].helper>> \in convs'
    OBVIOUS
  <2>1. CASE payStatus[p] \in Taken
    <3>1. PICK j \in Jobs, h \in Helpers :
             /\ session[p].job = j /\ session'[p].job = j
             /\ session[p].helper = h /\ session'[p].helper = h
             /\ <<j, h>> \in convs
      BY <1>0, <1>a, <1>b, <2>1 DEF RowOK, Kept, TraceOK, Taken
    <3>2. ~ DeleteJob(j)
      BY <3>1 DEF DeleteJob, Taken
    <3> QED BY <1>0, <3>1, <3>2 DEF LedgerMoves
  <2>2. CASE payStatus[p] \notin Taken
    <3>1. PICK s \in Slots : req[s].pay = p /\ FulfillPayment(s)
      BY <1>0, <2>2, WhenReleased DEF RowMoves, Taken
    <3>2. session' = session /\ <<req[s].job, req[s].helper>> \in convs'
      BY <3>1 DEF FulfillPayment
    <3> QED BY <3>1, <3>2, WhenFulfilled
  <2> QED BY <2>1, <2>2
<1> QED BY <1>1, <1>2, <1>3, <1>4 DEF TraceOK, Exists

\* The invariant of every behaviour, extended with the traces.
Inv2 == Inv /\ Exclusion /\ Carried /\ Traces

LEMMA Inv2Init == Init => Inv2
<1> SUFFICES ASSUME Init PROVE Inv2
  OBVIOUS
<1>1. Inv
  BY InvInit
<1>2. NoSession.state = "unused"
  BY DEF NoSession
<1>3. \A s \in Slots : req[s].pc = "idle"
  BY IdleInOrder DEF Init
<1>4. Exclusion
  BY <1>3 DEF Exclusion
<1>5. Carried
  BY <1>3 DEF Carried, CarryOK, Paying, Settling
<1>6. Traces
  BY <1>2 DEF Init, Traces, TraceOK, Taken
<1> QED BY <1>1, <1>4, <1>5, <1>6 DEF Inv2

LEMMA Inv2Next == Inv2 /\ [Next]_vars => Inv2'
<1> SUFFICES ASSUME Inv2, [Next]_vars PROVE Inv2'
  OBVIOUS
<1>1. Inv'
  BY InvNext DEF Inv2
<1> QED BY <1>1, ExclusionStep, CarriedStep, TracesStep DEF Inv2

\* The invariant of every behaviour, with the chat and the exclusions.
THEOREM Inv2Always == Spec => []Inv2
<1> QED BY Inv2Init, Inv2Next, PTL DEF Spec

\* A payment in or out of escrow has its conversation, however webhooks,
\* chats, releases and deletions overlap (fulfillPayment's upsert of the
\* conversation against releaseEscrow and deleteJob).
THEOREM FundedOpensChatAlways == Spec => []FundedOpensChat
<1>1. Inv2 => FundedOpensChat
  BY DEF Inv2, Traces, TraceOK, Taken, FundedOpensChat
<1> QED BY <1>1, Inv2Always, PTL

\* Operations that Serialised keeps apart are never in flight together on one
\* job: what the theorems under locks rest on (Begin, MayOverlap).
THEOREM ExclusionAlways == Spec => []Exclusion
<1>1. Inv2 => Exclusion
  BY DEF Inv2
<1> QED BY <1>1, Inv2Always, PTL

-----------------------------------------------------------------------------
(* Under MoneyLocks.  A handler of the money path is then alone with the    *)
(* rows it has read until it writes (AloneOK).                              *)

CheckingOut == {"checkout_find", "checkout_delete", "checkout_session", "checkout_create"}

AloneOK(r) ==
    /\ r.pc = "fulfil_tx" => payStatus[r.pay] \in {"PENDING", "NONE"}
    /\ r.pc = "release_tx" => payStatus[r.pay] \in {"FUNDED", "NONE"}
    /\ r.pc \in CheckingOut =>
          \A q \in PaymentsOf(r.job) :
              /\ payStatus[q] \notin Taken
              /\ payStatus[q] = "PENDING" => \/ r.pc = "checkout_find"
                                             \/ r.pc = "checkout_delete" /\ r.pay = q

Alone == \A s \in Slots : AloneOK(req[s])

\* A credited payment of a job that still exists kept its row.
CreditKept == \A p \in PaymentIds : commissionRows[p] > 0 /\ Exists(session[p].job)
                                        => payStatus[p] \in Taken

LockInv == Alone /\ OneCreditPerPayment /\ OnePaymentPerJob /\ CreditKept

LEMMA KeptApart ==
    ASSUME Inv, Exclusion, MoneyLocks \subseteq Serialised,
           NEW s \in Slots, NEW t \in Slots, s # t,
           req[s].pc \in DOMAIN OpOf, req[t].pc \in DOMAIN OpOf, req[s].job = req[t].job
    PROVE  {OpOf[req[s].pc], OpOf[req[t].pc]} \notin MoneyLocks
BY ProgramCounters DEF Exclusion

\* A handler in flight stays alone with its rows through the steps of others.
LEMMA AloneStable ==
    ASSUME Inv2, LockInv, [Next]_vars, MoneyLocks \subseteq Serialised,
           NEW t \in Slots, req'[t] = req[t], ~ Ends(t)
    PROVE  AloneOK(req[t])'
<1> USE ProgramCounters DEF Inv2
<1>0. Kept /\ RowMoves
  BY KeptStep, RowMovesStep
<1>a. PICK r \in Requests : r = req[t]
  BY DEF Inv, TypeOK
<1>b. FlightOK(r) /\ CarryOK(r) /\ AloneOK(r)
  BY <1>a DEF Inv, Flights, FlightOK, Carried, CarryOK, LockInv, Alone, AloneOK
<1>c. \A s \in Slots : CheckoutCreatePayment(s) \/ FulfillPayment(s) \/ ReleaseEscrow(s) => s # t
  BY DEF Ends
<1>d. ASSUME NEW s \in Slots, ReleaseEscrow(s) PROVE payStatus[req[s].pay] = "FUNDED"
  BY <1>d, WhenReleased DEF ReleaseEscrow, At, LockInv, Alone, AloneOK, Taken
<1>1. ASSUME r.pc = "fulfil_tx" PROVE payStatus'[r.pay] \in {"PENDING", "NONE"}
  <2>1. /\ r.pay \in PaymentIds /\ payStatus[r.pay] \in {"PENDING", "NONE"}
        /\ session[r.pay].state = "paid" /\ session[r.pay].job = r.job
    BY <1>1, <1>b DEF AloneOK, FlightOK, Paying
  <2>2. ASSUME NEW s \in Slots, FulfillPayment(s), req[s].pay = r.pay PROVE FALSE
    <3>1. s # t /\ req[s].job = req[t].job /\ req[s].pc = "fulfil_tx" /\ req[t].pc = "fulfil_tx"
      BY <1>1, <1>a, <1>c, <2>1, <2>2, WhenFulfilled DEF FulfillPayment, At
    <3> QED BY <3>1, KeptApart DEF MoneyLocks, OpOf
  <2> QED BY <1>0, <1>d, <2>1, <2>2, WhenCreated DEF RowMoves
<1>2. ASSUME r.pc = "release_tx" PROVE payStatus'[r.pay] \in {"FUNDED", "NONE"}
  <2>1. /\ r.pay \in PaymentIds /\ payStatus[r.pay] \in {"FUNDED", "NONE"}
        /\ session[r.pay].state = "paid" /\ session[r.pay].job = r.job
    BY <1>2, <1>b DEF AloneOK, FlightOK, Paying, CarryOK, Settling
  <2>2. ASSUME NEW s \in Slots, ReleaseEscrow(s), req[s].pay = r.pay PROVE FALSE
    <3>1. s # t /\ req[s].job = req[t].job /\ req[s].pc = "release_tx" /\ req[t].pc = "release_tx"
      BY <1>2, <1>a, <1>c, <2>1, <2>2, WhenReleased DEF ReleaseEscrow, At
    <3> QED BY <3>1, KeptApart DEF MoneyLocks, OpOf
  <2> QED BY <1>0, <2>1, <2>2, WhenCreated DEF RowMoves
<1>3. ASSUME r.pc \in CheckingOut, NEW q \in PaymentIds, session'[q].job = r.job
      PROVE  /\ payStatus'[q] \notin Taken
             /\ payStatus'[q] = "PENDING" => \/ r.pc = "checkout_find"
                                             \/ r.pc = "checkout_delete" /\ r.pay = q
  <2>1. CASE session[q].state = "unused"
    <3>1. payStatus[q] = "NONE"
      BY <2>1 DEF Inv, Rows, RowOK
    <3>2. payStatus'[q] = "NONE"
      BY <1>0, <2>1, <3>1, WhenCreated, WhenFulfilled, WhenReleased DEF RowMoves
    <3> QED BY <3>2 DEF Taken
  <2>2. CASE session[q].state # "unused"
    <3>1. q \in PaymentsOf(r.job) /\ session[q].job = r.job
      BY <1>0, <1>3, <2>2 DEF Kept, PaymentsOf
    <3>2. /\ payStatus[q] \notin Taken
          /\ payStatus[q] = "PENDING" => \/ r.pc = "checkout_find"
                                         \/ r.pc = "checkout_delete" /\ r.pay = q
      BY <1>3, <1>b, <3>1 DEF AloneOK
    <3>3. OpOf[r.pc] = "checkout" /\ r.pc \in DOMAIN OpOf
      BY <1>3 DEF CheckingOut, OpOf
    <3>4. ASSUME NEW s \in Slots, req[s].pay = q, CheckoutCreatePayment(s) \/ FulfillPayment(s)
          PROVE  FALSE
      <4>1. s # t /\ req[s].job = req[t].job /\ req[t].pc = r.pc
        BY <1>a, <1>c, <3>1, <3>4, WhenCreated, WhenFulfilled
      <4>2. /\ req[s].pc \in {"checkout_create", "fulfil_tx"}
            /\ OpOf["checkout_create"] = "checkout" /\ OpOf["fulfil_tx"] = "fulfil"
        BY <3>4 DEF CheckoutCreatePayment, FulfillPayment, At, OpOf
      <4>3. {OpOf[req[s].pc], OpOf[req[t].pc]} \in MoneyLocks
        BY <3>3, <4>1, <4>2 DEF MoneyLocks
      <4> QED BY <3>3, <4>1, <4>2, <4>3, KeptApart
    <3> QED BY <1>0, <1>d, <3>2, <3>4 DEF RowMoves, Taken
  <2> QED BY <2>1, <2>2
<1> QED BY <1>1, <1>2, <1>3, <1>a DEF AloneOK, PaymentsOf

\* A handler that starts or goes on is alone with what it has just read.
LEMMA AloneRuns ==
    ASSUME Inv2, Inv', LockInv, NEW t \in Slots, Runs(t)
    PROVE  AloneOK(req[t])'
<1> USE ProgramCounters DEF Inv2
<1>a. req[t] \in Requests /\ AloneOK(req[t]) /\ FlightOK(req[t]) /\ CarryOK(req[t])
  BY DEF Inv, TypeOK, LockInv, Alone, Flights, Carried
<1>0. req \in [Slots -> Requests] /\ payStatus \in [PaymentIds -> PayStatuses]
  BY DEF Inv, TypeOK
<1>b. ASSUME req'[t].pc \notin CheckingOut \cup Settling PROVE AloneOK(req[t])'
  BY <1>b DEF AloneOK, CheckingOut, Settling
<1>1. CASE Arrive(t)
  <2>1. PICK j \in Jobs :
        \/ CheckoutRead(t, j) \/ RejectRead(t, j)
        \/ \E h \in Helpers : SelectRead(t, j, h) \/ AcceptRead(t, j, h)
        \/ StartRead(t, j) \/ CompleteRead(t, j) \/ ReviseRead(t, j)
        \/ ApproveRead(t, j) \/ ReviewRead(t, j)
    BY <1>1 DEF Arrive
  <2>2. CASE CheckoutRead(t, j)
    <3>1. req'[t].pc = "checkout_find" /\ req'[t].job = j
      BY <1>0, <2>2 DEF CheckoutRead, Begin
    <3>2. \A q \in PaymentsOf(j) : payStatus[q] \notin Taken
      BY <2>2 DEF CheckoutRead, PaymentsOf, Inv, Rows, RowOK, Traces, TraceOK, Taken
    <3>3. session' = session /\ payStatus' = payStatus
      BY <2>2 DEF CheckoutRead
    <3> QED BY <3>1, <3>2, <3>3 DEF AloneOK, PaymentsOf
  <2>3. CASE ~ CheckoutRead(t, j)
    <3>1. req'[t].pc \notin CheckingOut \cup Settling
      BY <1>0, <2>1, <2>3 DEF RejectRead, SelectRead, AcceptRead, StartRead, CompleteRead,
         ReviseRead, ApproveRead, ReviewRead, WorkRead, Begin, CheckingOut, Settling
    <3> QED BY <1>b, <3>1
  <2> QED BY <2>2, <2>3
<1>2. CASE \E p \in PaymentIds : WebhookCompleted(t, p)
  <2>1. PICK p \in PaymentIds : WebhookCompleted(t, p)
    BY <1>2
  <2>2. req'[t].pc = "fulfil_tx" /\ req'[t].pay = p
    BY <1>0, <2>1 DEF WebhookCompleted, Begin
  <2> QED BY <2>1, <2>2 DEF WebhookCompleted, Fulfillable, AloneOK, CheckingOut
<1>3. CASE CheckoutFind(t)
  <2>0. /\ session' = session /\ payStatus' = payStatus /\ req[t].pc = "checkout_find"
        /\ \A q \in PaymentsOf(req[t].job) : payStatus[q] \notin Taken
    BY <1>3, <1>a DEF CheckoutFind, At, AloneOK, CheckingOut
  <2>1. CASE Finish(t)
    <3>1. req'[t].pc = "idle"
      BY <2>1, <1>0, IdleInOrder DEF Finish
    <3> QED BY <3>1, <1>b DEF CheckingOut, Settling
  <2>2. CASE /\ LivePayments(req[t].job) = {}
             /\ req' = [req EXCEPT ![t] = [req[t] EXCEPT !.pc = "checkout_session"]]
    <3>1. req'[t].pc = "checkout_session" /\ req'[t].job = req[t].job
      BY <1>0, <1>a, <2>2 DEF Requests
    <3>2. \A q \in PaymentsOf(req[t].job) : payStatus[q] # "PENDING"
      BY <2>2 DEF LivePayments, RowsOf
    <3> QED BY <2>0, <3>1, <3>2 DEF AloneOK, PaymentsOf
  <2>3. ASSUME NEW p \in LivePayments(req[t].job), payStatus[p] # "FUNDED",
               req' = [req EXCEPT ![t] = [req[t] EXCEPT !.pc = "checkout_delete", !.pay = p]]
        PROVE  AloneOK(req[t])'
    <3>1. req'[t].pc = "checkout_delete" /\ req'[t].job = req[t].job /\ req'[t].pay = p
      BY <1>0, <1>a, <2>3 DEF Requests
    <3>2. p \in PaymentIds /\ session[p].job = req[t].job /\ payStatus[p] = "PENDING"
      BY <2>3 DEF LivePayments, RowsOf, PaymentsOf
    <3>3. \A q \in PaymentsOf(req[t].job) : payStatus[q] = "PENDING" => q = p
      BY <3>2 DEF LockInv, OnePaymentPerJob, PaymentsOf
    <3> QED BY <2>0, <3>1, <3>3 DEF AloneOK, PaymentsOf
  <2> QED BY <1>3, <2>1, <2>2, <2>3 DEF CheckoutFind, Advance
<1>4. CASE CheckoutDelete(t)
  <2>1. req'[t].pc = "checkout_session" /\ req'[t].job = req[t].job
    BY <1>0, <1>a, <1>4 DEF CheckoutDelete, Advance, Requests
  <2>2. /\ session' = session /\ payStatus' = [payStatus EXCEPT ![req[t].pay] = "NONE"]
        /\ req[t].pc = "checkout_delete"
    BY <1>4 DEF CheckoutDelete, At
  <2>3. \A q \in PaymentsOf(req[t].job) : payStatus'[q] \notin Taken /\ payStatus'[q] # "PENDING"
    BY <1>0, <1>a, <2>2 DEF AloneOK, CheckingOut, PaymentsOf, Taken
  <2> QED BY <2>1, <2>2, <2>3 DEF AloneOK, PaymentsOf
<1>5. CASE CheckoutCreateSession(t)
  <2>1. PICK p \in PaymentIds, a \in Amounts :
         /\ session[p].state = "unused"
         /\ session' = [session EXCEPT ![p] =
                          [state |-> "created", job |-> req[t].job,
                           helper |-> req[t].helper, amount |-> a]]
         /\ req' = [req EXCEPT ![t] = [req[t] EXCEPT !.pc = "checkout_create", !.pay = p]]
    BY <1>5 DEF CheckoutCreateSession, Advance
  <2>2. req'[t].pc = "checkout_create" /\ req'[t].job = req[t].job
    BY <1>0, <1>a, <2>1 DEF Requests
  <2>3. payStatus' = payStatus /\ req[t].pc = "checkout_session" /\ payStatus[p] = "NONE"
    BY <1>5, <2>1 DEF CheckoutCreateSession, At, Inv, Rows, RowOK
  <2>4. \A q \in PaymentIds : q # p => session'[q] = session[q]
    BY <2>1 DEF Inv, TypeOK
  <2>5. \A q \in PaymentIds : session'[q].job = req[t].job =>
            payStatus[q] \notin Taken /\ payStatus[q] # "PENDING"
    BY <1>a, <2>3, <2>4 DEF AloneOK, CheckingOut, PaymentsOf, Taken
  <2> QED BY <2>2, <2>3, <2>5 DEF AloneOK, PaymentsOf
<1>6. CASE ApproveJob(t)
  <2>1. req'[t].pc = "release_find"
    BY <1>0, <1>a, <1>6 DEF ApproveJob, Advance, Requests
  <2> QED BY <2>1, <1>b DEF CheckingOut, Settling
<1>7. CASE ReleaseFind(t)
  <2>1. PICK p \in PaymentIds :
        /\ payStatus[p] = "FUNDED"
        /\ req' = [req EXCEPT ![t] = [req[t] EXCEPT !.pc = "release_tx", !.pay = p,
                                                    !.helper = session[p].helper]]
    BY <1>7 DEF ReleaseFind, Advance, Releasable, RowsOf, PaymentsOf
  <2>2. session[p].helper \in Helpers
    BY <2>1 DEF Inv, Rows, RowOK
  <2>3. req'[t].pc = "release_tx" /\ req'[t].pay = p /\ payStatus' = payStatus
    BY <1>0, <1>a, <1>7, <2>1, <2>2 DEF Requests, ReleaseFind
  <2> QED BY <2>1, <2>3 DEF AloneOK, CheckingOut
<1> QED BY <1>1, <1>2, <1>3, <1>4, <1>5, <1>6, <1>7 DEF Runs

LEMMA AloneStep ==
    ASSUME Inv2, Inv', LockInv, [Next]_vars, MoneyLocks \subseteq Serialised
    PROVE  Alone'
<1> SUFFICES ASSUME NEW t \in Slots PROVE AloneOK(req[t])'
  BY DEF Alone
<1>1. CASE req'[t] = Idle
  BY <1>1, IdleInOrder DEF AloneOK, CheckingOut
<1>2. CASE Ends(t)
  BY <1>1, <1>2, EndsFinish DEF Finish, Inv2, Inv, TypeOK
<1> QED BY <1>1, <1>2, SlotMoves, AloneStable, AloneRuns DEF Inv2

\* Only the two transactions on the wallet move money.
LEMMA WalletMoves ==
    ASSUME [Next]_vars
    PROVE  UNCHANGED walletVars \/ \E s \in Slots : FulfillPayment(s) \/ ReleaseEscrow(s)
<1>1. ASSUME NEW s \in Slots, Arrive(s) PROVE UNCHANGED walletVars
  BY <1>1 DEF Arrive, CheckoutRead, RejectRead, SelectRead, AcceptRead, StartRead,
     CompleteRead, ReviseRead, ApproveRead, ReviewRead, WorkRead
<1>2. ASSUME NEW s \in Slots, Proceed(s), ~ FulfillPayment(s), ~ ReleaseEscrow(s)
      PROVE  UNCHANGED walletVars
  BY <1>2 DEF Proceed, CheckoutFind, CheckoutDelete, CheckoutCreateSession,
     CheckoutCreatePayment, SelectHelper, RejectApplication, AcceptLatestOffer, StartJob,
     CompleteJob, RequestRevision, WorkWrite, ApproveJob, ReleaseFind, CreateReview
<1>3. CASE UNCHANGED vars
  BY <1>3 DEF vars, walletVars
<1> QED BY <1>1, <1>2, <1>3 DEF Next, Abandon, WebhookCompleted, PaySession, ExpireSession,
        WebhookExpired, OpenConversation, DeleteJob

\* The two transactions, with the status each finds and what it writes.
LEMMA FulfilsPending ==
    ASSUME Inv2, LockInv, NEW s \in Slots, FulfillPayment(s)
    PROVE  \E p \in PaymentIds, h \in Helpers :
             /\ req[s].pay = p /\ session[p].state = "paid" /\ session[p].helper = h
             /\ payStatus[p] = "PENDING" /\ commissionRows[p] = 0 /\ earningRows[p] = 0
             /\ payStatus' = [payStatus EXCEPT ![p] = "FUNDED"]
             /\ commissionRows' = [commissionRows EXCEPT ![p] = 1]
             /\ pending' = [pending EXCEPT ![h] = @ + Payout(p)]
             /\ UNCHANGED <<session, available, earningRows>>
<1>1. PICK p \in PaymentIds, h \in Helpers :
        /\ req[s].pay = p /\ req[s].helper = h /\ session[p].state = "paid"
        /\ session[p].helper = h /\ payStatus[p] # "NONE"
  BY WhenFulfilled DEF Inv2
<1>2. payStatus[p] = "PENDING"
  BY <1>1 DEF FulfillPayment, At, LockInv, Alone, AloneOK
<1>3. commissionRows[p] = 0 /\ earningRows[p] = 0
  BY <1>2 DEF LockInv, OneCreditPerPayment
<1>4. /\ commissionRows' = [commissionRows EXCEPT ![p] = 1]
      /\ pending' = [pending EXCEPT ![h] = @ + Payout(p)]
      /\ payStatus' = [payStatus EXCEPT ![p] = "FUNDED"]
      /\ UNCHANGED <<session, available, earningRows>>
  BY <1>1, <1>3 DEF FulfillPayment
<1> QED BY <1>1, <1>2, <1>3, <1>4

LEMMA ReleasesFunded ==
    ASSUME Inv2, LockInv, NEW s \in Slots, ReleaseEscrow(s)
    PROVE  \E p \in PaymentIds, h \in Helpers :
             /\ req[s].pay = p /\ session[p].state = "paid" /\ session[p].helper = h
             /\ payStatus[p] = "FUNDED" /\ commissionRows[p] = 1 /\ earningRows[p] = 0
             /\ payStatus' = [payStatus EXCEPT ![p] = "RELEASED"]
             /\ earningRows' = [earningRows EXCEPT ![p] = 1]
             /\ pending' = [pending EXCEPT ![h] = @ - Payout(p)]
             /\ available' = [available EXCEPT ![h] = @ + Payout(p)]
             /\ UNCHANGED <<session, commissionRows>>
<1>1. PICK p \in PaymentIds, h \in Helpers :
        /\ req[s].pay = p /\ req[s].helper = h /\ session[p].state = "paid"
        /\ session[p].helper = h /\ payStatus[p] \in Taken
  BY WhenReleased DEF Inv2
<1>2. payStatus[p] = "FUNDED"
  BY <1>1 DEF ReleaseEscrow, At, LockInv, Alone, AloneOK, Taken
<1>3. commissionRows[p] = 1 /\ earningRows[p] = 0
  BY <1>2 DEF LockInv, OneCreditPerPayment
<1>4. /\ earningRows' = [earningRows EXCEPT ![p] = 1]
      /\ pending' = [pending EXCEPT ![h] = @ - Payout(p)]
      /\ available' = [available EXCEPT ![h] = @ + Payout(p)]
      /\ payStatus' = [payStatus EXCEPT ![p] = "RELEASED"]
      /\ UNCHANGED <<session, commissionRows>>
  BY <1>1, <1>3 DEF ReleaseEscrow
<1> QED BY <1>1, <1>2, <1>3, <1>4

LEMMA OneCreditStep ==
    ASSUME Inv2, LockInv, [Next]_vars
    PROVE  OneCreditPerPayment'
<1>0. /\ payStatus \in [PaymentIds -> PayStatuses]
      /\ commissionRows \in [PaymentIds -> Nat] /\ earningRows \in [PaymentIds -> Nat]
      /\ OneCreditPerPayment
  BY DEF Inv2, Inv, TypeOK, LockInv
<1>1. ASSUME NEW s \in Slots, FulfillPayment(s) PROVE OneCreditPerPayment'
  BY <1>0, <1>1, FulfilsPending DEF OneCreditPerPayment
<1>2. ASSUME NEW s \in Slots, ReleaseEscrow(s) PROVE OneCreditPerPayment'
  BY <1>0, <1>2, ReleasesFunded DEF OneCreditPerPayment
<1>3. CASE UNCHANGED walletVars /\ \A s \in Slots : ~ FulfillPayment(s) /\ ~ ReleaseEscrow(s)
  <2> SUFFICES ASSUME NEW p \in PaymentIds
               PROVE  LET c == commissionRows[p]
                          e == earningRows[p]
                      IN  CASE payStatus'[p] \in {"PENDING", "FAILED"} -> c = 0 /\ e = 0
                            [] payStatus'[p] = "FUNDED"   -> c = 1 /\ e = 0
                            [] payStatus'[p] = "RELEASED" -> c = 1 /\ e = 1
                            [] OTHER                      -> c <= 1 /\ e <= c
    BY <1>3 DEF OneCreditPerPayment, walletVars
  <2>1. CASE payStatus'[p] = payStatus[p]
    BY <1>0, <2>1 DEF OneCreditPerPayment
  <2>2. CASE payStatus'[p] = "NONE" \/ (payStatus'[p] = "FAILED" /\ payStatus[p] = "PENDING")
    <3>1. payStatus[p] \in {"NONE", "PENDING", "FAILED", "FUNDED", "RELEASED"}
      BY <1>0 DEF PayStatuses
    <3> QED BY <1>0, <2>2, <3>1 DEF OneCreditPerPayment
  <2>3. CASE payStatus'[p] = "PENDING" /\ \E s \in Slots : CheckoutCreatePayment(s) /\ req[s].pay = p
    <3>1. session[p].state = "created"
      BY <2>3, WhenCreated DEF Inv2
    <3>2. commissionRows[p] = 0 /\ earningRows[p] = 0
      BY <1>0, <3>1 DEF Inv2, Inv, MoneyTrail
    <3> QED BY <2>3, <3>2
  <2> QED BY <1>3, <2>1, <2>2, <2>3, RowMovesStep DEF Inv2, RowMoves
<1> QED BY <1>1, <1>2, <1>3, WalletMoves

\* A payment that could be funded, is funded or was released.
Live(p) == payStatus[p] \in {"PENDING", "FUNDED", "RELEASED"}

LEMMA OnePaymentStep ==
    ASSUME Inv2, LockInv, [Next]_vars
    PROVE  OnePaymentPerJob'
<1>0. Kept /\ RowMoves
  BY KeptStep, RowMovesStep DEF Inv2
<1>1. ASSUME NEW p \in PaymentIds, payStatus'[p] \in {"PENDING", "FUNDED", "RELEASED"}
      PROVE  /\ session'[p].job = session[p].job
             /\ \/ Live(p)
                \/ \E s \in Slots : CheckoutCreatePayment(s) /\ req[s].pay = p
  <2>1. CASE \E s \in Slots : CheckoutCreatePayment(s) /\ req[s].pay = p
    BY <2>1, WhenCreated DEF Inv2
  <2>2. CASE payStatus'[p] = payStatus[p]
    BY <1>0, <1>1, <2>2 DEF Live, Kept, Inv2, Inv, Rows, RowOK
  <2>3. CASE \E s \in Slots : req[s].pay = p /\ (FulfillPayment(s) \/ ReleaseEscrow(s))
    BY <2>3, FulfilsPending, ReleasesFunded DEF Live
  <2> QED BY <1>0, <1>1, <2>1, <2>2, <2>3 DEF RowMoves
<1>2. ASSUME NEW s \in Slots, CheckoutCreatePayment(s), NEW q \in PaymentIds,
             session[q].job = session[req[s].pay].job, Live(q)
      PROVE  FALSE
  <2>1. req[s].job = session[req[s].pay].job
    BY <1>2, WhenCreated DEF Inv2
  <2> QED BY <1>2, <2>1 DEF CheckoutCreatePayment, At, LockInv, Alone, AloneOK, CheckingOut,
                            PaymentsOf, Live, Taken
<1>3. ASSUME NEW s \in Slots, NEW u \in Slots, CheckoutCreatePayment(s), CheckoutCreatePayment(u)
      PROVE  req[s].pay = req[u].pay
  <2>1. payStatus' = [payStatus EXCEPT ![req[s].pay] = "PENDING"]
    BY <1>3 DEF CheckoutCreatePayment
  <2>2. payStatus' = [payStatus EXCEPT ![req[u].pay] = "PENDING"]
    BY <1>3 DEF CheckoutCreatePayment
  <2>3. /\ req[s].pay \in PaymentIds /\ payStatus[req[s].pay] = "NONE"
        /\ req[u].pay \in PaymentIds /\ payStatus[req[u].pay] = "NONE"
    BY <1>3, WhenCreated DEF Inv2, Traces, TraceOK
  <2> QED BY <2>1, <2>2, <2>3 DEF Inv2, Inv, TypeOK
<1>4. \A p, q \in PaymentIds : Live(p) /\ Live(q) /\ session[p].job = session[q].job => p = q
  BY DEF LockInv, OnePaymentPerJob, Live
<1> QED BY <1>1, <1>2, <1>3, <1>4 DEF OnePaymentPerJob

\* Only a checkout that is alone deletes rows one by one, and it deletes no
\* credited one.
LEMMA CreditKeptStep ==
    ASSUME Inv2, Inv2', LockInv, [Next]_vars
    PROVE  CreditKept'
<1>0. Kept /\ RowMoves /\ StatusMoves /\ LedgerMoves
  BY KeptStep, RowMovesStep, StatusMovesStep, LedgerMovesStep DEF Inv2
<1> SUFFICES ASSUME NEW p \in PaymentIds, commissionRows'[p] > 0,
                    status'[session'[p].job] # "DELETED"
             PROVE  payStatus'[p] \in Taken
  BY DEF CreditKept, Exists
<1>1. CASE \E s \in Slots : req[s].pay = p /\ FulfillPayment(s)
  BY <1>1, FulfilsPending DEF Taken, Inv2, Inv, TypeOK
<1>2. CASE commissionRows'[p] = commissionRows[p]
  <2>1. PICK j \in Jobs : session[p].job = j /\ session'[p].job = j
    BY <1>0, <1>2 DEF Inv2, Inv, MoneyTrail, Kept, Rows, RowOK
  <2>2. status[j] # "DELETED"
    BY <1>0, <2>1 DEF StatusMoves, Exists
  <2>3. payStatus[p] \in Taken /\ session[p].state = "paid"
    BY <1>2, <2>1, <2>2 DEF LockInv, CreditKept, Exists, Inv2, Inv, MoneyTrail
  <2>4. payStatus'[p] # "NONE"
    <3>1. ASSUME payStatus'[p] = "NONE"
          PROVE  (\E s \in Slots : CheckoutDelete(s) /\ req[s].pay = p) \/ DeleteJob(j)
      <4>1. payStatus'[p] # payStatus[p]
        BY <2>3, <3>1 DEF Taken
      <4>2. \/ \E s \in Slots : \/ CheckoutDelete(s) \/ CheckoutCreatePayment(s)
                                \/ FulfillPayment(s) \/ ReleaseEscrow(s)
            \/ \E q \in PaymentIds : WebhookExpired(q)
            \/ \E k \in Jobs : DeleteJob(k)
        BY <4>1 DEF Next, vars, Arrive, Proceed, Abandon, WebhookCompleted, PaySession,
         ExpireSession, OpenConversation, CheckoutRead, RejectRead, SelectRead, AcceptRead,
         StartRead, CompleteRead, ReviseRead, ApproveRead, ReviewRead, WorkRead,
         CheckoutFind, CheckoutCreateSession, SelectHelper, RejectApplication,
         AcceptLatestOffer, StartJob, CompleteJob, RequestRevision, WorkWrite, ApproveJob,
         ReleaseFind, CreateReview
      <4>0. payStatus \in [PaymentIds -> PayStatuses]
        BY DEF Inv2, Inv, TypeOK
      <4>3. ASSUME NEW s \in Slots, CheckoutDelete(s) PROVE req[s].pay = p
        BY <4>0, <4>1, <4>3 DEF CheckoutDelete
      <4>4. ASSUME NEW s \in Slots, CheckoutCreatePayment(s) PROVE FALSE
        BY <3>1, <4>0, <4>1, <4>4 DEF CheckoutCreatePayment
      <4>5. ASSUME NEW s \in Slots, FulfillPayment(s) PROVE FALSE
        BY <3>1, <4>0, <4>1, <4>5 DEF FulfillPayment
      <4>6. ASSUME NEW s \in Slots, ReleaseEscrow(s) PROVE FALSE
        BY <3>1, <4>0, <4>1, <4>6 DEF ReleaseEscrow
      <4>7. ASSUME NEW q \in PaymentIds, WebhookExpired(q) PROVE FALSE
        BY <3>1, <4>0, <4>1, <4>7 DEF WebhookExpired
      <4>8. ASSUME NEW k \in Jobs, DeleteJob(k) PROVE k = j
        BY <2>1, <4>0, <4>1, <4>8 DEF DeleteJob
      <4> QED BY <4>2, <4>3, <4>4, <4>5, <4>6, <4>7, <4>8
    <3>2. ASSUME NEW s \in Slots, CheckoutDelete(s), req[s].pay = p PROVE FALSE
      <4>1. req[s].pc = "checkout_delete" /\ session[p].job = req[s].job
        BY <3>2 DEF CheckoutDelete, At, Inv2, Carried, CarryOK, Paying
      <4> QED BY <2>3, <4>1 DEF LockInv, Alone, AloneOK, CheckingOut, PaymentsOf
    <3>3. ASSUME DeleteJob(j) PROVE FALSE
      BY <2>1, <3>3 DEF DeleteJob, Inv2, Inv, TypeOK
    <3> QED BY <3>1, <3>2, <3>3
  <2> QED BY <1>0, <2>3, <2>4, WhenCreated DEF RowMoves, Taken, Inv2
<1> QED BY <1>0, <1>1, <1>2 DEF LedgerMoves

LEMMA LockInvInit == Init => LockInv
<1> SUFFICES ASSUME Init PROVE LockInv
  OBVIOUS
<1>1. \A s \in Slots : req[s].pc = "idle"
  BY IdleInOrder DEF Init
<1>2. Alone
  BY <1>1 DEF Alone, AloneOK, CheckingOut
<1>3. OneCreditPerPayment /\ OnePaymentPerJob /\ CreditKept
  BY DEF Init, OneCreditPerPayment, OnePaymentPerJob, CreditKept
<1> QED BY <1>2, <1>3 DEF LockInv

LEMMA LockInvNext ==
    MoneyLocks \subseteq Serialised /\ Inv2 /\ LockInv /\ [Next]_vars => LockInv'
<1> SUFFICES ASSUME MoneyLocks \subseteq Serialised, Inv2, LockInv, [Next]_vars PROVE LockInv'
  OBVIOUS
<1>1. Inv2' /\ Inv'
  BY Inv2Next DEF Inv2
<1> QED BY <1>1, AloneStep, OneCreditStep, OnePaymentStep, CreditKeptStep DEF LockInv

\* What holds of the money path once its four overlaps are excluded.
THEOREM LockInvAlways ==
    ASSUME MoneyLocks \subseteq Serialised PROVE Spec => [](Inv2 /\ LockInv)
<1>1. Init => Inv2 /\ LockInv
  BY Inv2Init, LockInvInit
<1>2. Inv2 /\ LockInv /\ [Next]_vars => (Inv2 /\ LockInv)'
  BY Inv2Next, LockInvNext
<1> QED BY <1>1, <1>2, PTL DEF Spec

\* With the overlaps of MoneyLocks excluded a payment is credited to escrow
\* once and released once, and its row says how far it got (fulfillPayment
\* and releaseEscrow, whose updates are unconditional).
THEOREM OneCreditPerPaymentAlways ==
    ASSUME MoneyLocks \subseteq Serialised PROVE Spec => []OneCreditPerPayment
<1>1. LockInv => OneCreditPerPayment
  BY DEF LockInv
<1> QED BY <1>1, LockInvAlways, PTL

\* With them excluded no job ever has two payments that could be funded, are
\* funded or were released (createCheckoutSession's look-up and create, with
\* everything between them, against the webhook's fulfillPayment).
THEOREM OnePaymentPerJobAlways ==
    ASSUME MoneyLocks \subseteq Serialised PROVE Spec => []OnePaymentPerJob
<1>1. LockInv => OnePaymentPerJob
  BY DEF LockInv
<1> QED BY <1>1, LockInvAlways, PTL

-----------------------------------------------------------------------------
(* Escrow to the cent.  The balances are sums over sets of payments; under  *)
(* MoneyLocks these sets change at the two transactions only, by one        *)
(* payment each, and what a payment pays out never changes.                 *)

Price == [p \in PaymentIds |-> Payout(p)]

\* The payments of h credited once and released e times.
Credited(h, e) ==
    {p \in PaymentIds : Payee(p) = h /\ commissionRows[p] = 1 /\ earningRows[p] = e}

Exact ==
    \A h \in Helpers :
        /\ IsFiniteSet(Credited(h, 0)) /\ pending[h] = Total(Price, Credited(h, 0))
        /\ IsFiniteSet(Credited(h, 1)) /\ available[h] = Total(Price, Credited(h, 1))

\* The sum the property is stated with is the total of the prices.
LEMMA PayoutSum ==
    ASSUME NEW S \in SUBSET PaymentIds, IsFiniteSet(S)
    PROVE  MapThenSumSet(Payout, S) = Total(Price, S)
<1> DEFINE AddsUp(g) ==
      g = [s \in SUBSET S |-> IF s = {} THEN 0 ELSE Payout(Pick(s)) + g[s \ {Pick(s)}]]
<1>1. MapThenSumSet(Payout, S) = (CHOOSE g : AddsUp(g))[S]
  BY DEF MapThenSumSet, MapThenFoldSet, Pick
<1>2. \A s \in SUBSET S : s # {} => Price[Pick(s)] = Payout(Pick(s))
  BY DEF Price, Pick
<1>3. ASSUME NEW g PROVE AddsUp(g) <=> Adds(g, Price, S)
  <2>1. [s \in SUBSET S |-> IF s = {} THEN 0 ELSE Payout(Pick(s)) + g[s \ {Pick(s)}]]
        = [s \in SUBSET S |-> IF s = {} THEN 0 ELSE Price[Pick(s)] + g[s \ {Pick(s)}]]
    BY <1>2
  <2> QED BY <2>1 DEF Adds
<1>4. PICK h : h = CHOOSE g : AddsUp(g)
  OBVIOUS
<1>5. Adds(h, Price, S)
  <2>1. \E g : AddsUp(g)
    BY <1>3, AddsExists
  <2>2. AddsUp(h)
    <3> HIDE DEF AddsUp
    <3> QED BY <1>4, <2>1
  <2> HIDE DEF AddsUp
  <2> QED BY <1>3, <2>2
<1> HIDE DEF AddsUp
<1> QED BY <1>1, <1>4, <1>5, AddsTotal

LEMMA HeldIsCredited ==
    ASSUME TypeOK, OneCreditPerPayment, NEW h \in Helpers
    PROVE  Held(h) = Credited(h, 0) /\ Earned(h) = Credited(h, 1)
<1> SUFFICES ASSUME NEW p \in PaymentIds
             PROVE  /\ payStatus[p] = "FUNDED" \/ Orphaned(p, 1, 0)
                         <=> commissionRows[p] = 1 /\ earningRows[p] = 0
                    /\ payStatus[p] = "RELEASED" \/ Orphaned(p, 1, 1)
                         <=> commissionRows[p] = 1 /\ earningRows[p] = 1
  BY DEF Held, Earned, Credited
<1>1. payStatus[p] \in PayStatuses
  BY DEF TypeOK
<1> QED BY <1>1 DEF PayStatuses, OneCreditPerPayment, Orphaned

\* Where the ledger stays, so do the sets and what their payments pay.
LEMMA CreditedStable ==
    ASSUME Inv, Inv', Kept, UNCHANGED <<commissionRows, earningRows>>,
           NEW h \in Helpers, NEW e \in {0, 1}, IsFiniteSet(Credited(h, e))
    PROVE  /\ Credited(h, e)' = Credited(h, e)
           /\ Total(Price', Credited(h, e)) = Total(Price, Credited(h, e))
<1>1. \A p \in PaymentIds : commissionRows[p] = 1 =>
         /\ session'[p].helper = session[p].helper /\ session'[p].amount = session[p].amount
  BY DEF Kept, Inv, MoneyTrail
<1>2. Credited(h, e)' = Credited(h, e)
  BY <1>1 DEF Credited, Payee
<1>3. \A p \in Credited(h, e) : Price'[p] = Price[p]
  BY <1>1 DEF Credited, Price, Payout
<1> QED BY <1>2, <1>3, TotalSame

LEMMA PriceType == ASSUME TypeOK PROVE \A p \in PaymentIds : Price[p] \in Int
BY PayoutType DEF Price

LEMMA ExactStep ==
    ASSUME Inv2, Inv2', LockInv, Exact, [Next]_vars
    PROVE  Exact'
<1> USE DEF Inv2, Inv
<1>0. /\ Kept /\ Inv /\ Inv' /\ \A p \in PaymentIds : Price[p] \in Int
      /\ pending \in [Helpers -> Int] /\ available \in [Helpers -> Int]
      /\ commissionRows \in [PaymentIds -> Nat] /\ earningRows \in [PaymentIds -> Nat]
  BY KeptStep, PriceType DEF TypeOK
<1>1. CASE UNCHANGED walletVars
  <2> SUFFICES ASSUME NEW h \in Helpers
               PROVE  /\ IsFiniteSet(Credited(h, 0)') /\ pending[h] = Total(Price', Credited(h, 0)')
                      /\ IsFiniteSet(Credited(h, 1)') /\ available[h] = Total(Price', Credited(h, 1)')
    BY <1>1 DEF Exact, walletVars
  <2> QED BY <1>0, <1>1, CreditedStable DEF Exact, walletVars
<1>2. ASSUME NEW s \in Slots, FulfillPayment(s) PROVE Exact'
  <2>1. PICK p \in PaymentIds, k \in Helpers :
             /\ session[p].helper = k
             /\ commissionRows[p] = 0 /\ earningRows[p] = 0
             /\ commissionRows' = [commissionRows EXCEPT ![p] = 1]
             /\ pending' = [pending EXCEPT ![k] = @ + Payout(p)]
             /\ UNCHANGED <<session, available, earningRows>>
    BY <1>2, FulfilsPending
  <2>2. Price' = Price /\ Price[p] = Payout(p)
    BY <2>1 DEF Price, Payout
  <2>3. ASSUME NEW h \in Helpers
        PROVE  /\ Credited(h, 0)' = IF h = k THEN Credited(h, 0) \cup {p} ELSE Credited(h, 0)
               /\ Credited(h, 1)' = Credited(h, 1) /\ p \notin Credited(h, 0)
    BY <1>0, <2>1 DEF Credited, Payee
  <2>4. ASSUME NEW h \in Helpers
        PROVE  IsFiniteSet(Credited(h, 0)') /\ pending'[h] = Total(Price', Credited(h, 0)')
    <3>1. IsFiniteSet(Credited(h, 0)) /\ pending[h] = Total(Price, Credited(h, 0))
      BY DEF Exact
    <3>2. CASE h = k
      <4>1. IsFiniteSet(Credited(h, 0) \cup {p})
        BY <3>1, FS_AddElement
      <4>2. Total(Price, Credited(h, 0) \cup {p}) = Price[p] + Total(Price, Credited(h, 0))
        <5>1. \A x \in Credited(h, 0) \cup {p} : Price[x] \in Int
          BY <1>0 DEF Credited
        <5> QED BY <2>3, <3>1, <5>1, TotalAdd
      <4>3. pending'[h] = pending[h] + Price[p] /\ pending[h] \in Int /\ Price[p] \in Int
        BY <1>0, <2>1, <2>2, <3>2
      <4>5. Credited(h, 0)' = Credited(h, 0) \cup {p} /\ Price' = Price
        BY <2>2, <2>3, <3>2
      <4>6. Total(Price', Credited(h, 0)') = Total(Price, Credited(h, 0) \cup {p})
        BY <4>5
      <4>7. pending'[h] = Price[p] + pending[h]
        BY <4>3
      <4> QED BY <3>1, <4>1, <4>2, <4>5, <4>6, <4>7
    <3>3. CASE h # k
      BY <1>0, <2>1, <2>2, <2>3, <3>1, <3>3
    <3> QED BY <3>2, <3>3
  <2>5. ASSUME NEW h \in Helpers
        PROVE  IsFiniteSet(Credited(h, 1)') /\ available'[h] = Total(Price', Credited(h, 1)')
    BY <2>1, <2>2, <2>3 DEF Exact
  <2> QED BY <2>4, <2>5 DEF Exact
<1>3. ASSUME NEW s \in Slots, ReleaseEscrow(s) PROVE Exact'
  <2>1. PICK p \in PaymentIds, k \in Helpers :
             /\ session[p].helper = k
             /\ commissionRows[p] = 1 /\ earningRows[p] = 0
             /\ earningRows' = [earningRows EXCEPT ![p] = 1]
             /\ pending' = [pending EXCEPT ![k] = @ - Payout(p)]
             /\ available' = [available EXCEPT ![k] = @ + Payout(p)]
             /\ UNCHANGED <<session, commissionRows>>
    BY <1>3, ReleasesFunded
  <2>2. Price' = Price /\ Price[p] = Payout(p)
    BY <2>1 DEF Price, Payout
  <2>3. ASSUME NEW h \in Helpers
        PROVE  /\ Credited(h, 0)' = IF h = k THEN Credited(h, 0) \ {p} ELSE Credited(h, 0)
               /\ Credited(h, 1)' = IF h = k THEN Credited(h, 1) \cup {p} ELSE Credited(h, 1)
               /\ p \notin Credited(h, 1)
               /\ h = k => p \in Credited(h, 0)
    BY <1>0, <2>1 DEF Credited, Payee
  <2>4. ASSUME NEW h \in Helpers
        PROVE  IsFiniteSet(Credited(h, 0)') /\ pending'[h] = Total(Price', Credited(h, 0)')
    <3>1. IsFiniteSet(Credited(h, 0)) /\ pending[h] = Total(Price, Credited(h, 0))
      BY DEF Exact
    <3>2. CASE h = k
      <4>1. IsFiniteSet(Credited(h, 0) \ {p})
        BY <3>1, FS_RemoveElement
      <4>0. \A x \in Credited(h, 0) : Price[x] \in Int
        BY <1>0 DEF Credited
      <4>2. Total(Price, Credited(h, 0)) = Price[p] + Total(Price, Credited(h, 0) \ {p})
        BY <2>3, <3>1, <3>2, <4>0, TotalRemove
      <4>3. PICK rest \in Int : rest = Total(Price, Credited(h, 0) \ {p})
        BY <4>0, <4>1, TotalType
      <4>4. pending'[h] = pending[h] - Price[p] /\ pending[h] \in Int /\ Price[p] \in Int
        BY <1>0, <2>1, <2>2, <3>2
      <4>5. Credited(h, 0)' = Credited(h, 0) \ {p} /\ Price' = Price
        BY <2>2, <2>3, <3>2
      <4>6. Total(Price', Credited(h, 0)') = rest
        BY <4>3, <4>5
      <4>7. PICK a \in Int, b \in Int : a = Price[p] /\ b = pending[h]
        BY <4>4
      <4>8. b = a + rest /\ pending'[h] = b - a
        BY <3>1, <4>2, <4>3, <4>4, <4>7
      <4>9. b - a = rest
        BY <4>8
      <4> QED BY <4>1, <4>5, <4>6, <4>8, <4>9
    <3>3. CASE h # k
      BY <1>0, <2>1, <2>2, <2>3, <3>1, <3>3
    <3> QED BY <3>2, <3>3
  <2>5. ASSUME NEW h \in Helpers
        PROVE  IsFiniteSet(Credited(h, 1)') /\ available'[h] = Total(Price', Credited(h, 1)')
    <3>1. IsFiniteSet(Credited(h, 1)) /\ available[h] = Total(Price, Credited(h, 1))
      BY DEF Exact
    <3>2. CASE h = k
      <4>1. IsFiniteSet(Credited(h, 1) \cup {p})
        BY <3>1, FS_AddElement
      <4>2. Total(Price, Credited(h, 1) \cup {p}) = Price[p] + Total(Price, Credited(h, 1))
        <5>1. \A x \in Credited(h, 1) \cup {p} : Price[x] \in Int
          BY <1>0 DEF Credited
        <5> QED BY <2>3, <3>1, <5>1, TotalAdd
      <4>3. available'[h] = available[h] + Price[p] /\ available[h] \in Int /\ Price[p] \in Int
        BY <1>0, <2>1, <2>2, <3>2
      <4>5. Credited(h, 1)' = Credited(h, 1) \cup {p} /\ Price' = Price
        BY <2>2, <2>3, <3>2
      <4>6. Total(Price', Credited(h, 1)') = Total(Price, Credited(h, 1) \cup {p})
        BY <4>5
      <4>7. available'[h] = Price[p] + available[h]
        BY <4>3
      <4> QED BY <3>1, <4>1, <4>2, <4>5, <4>6, <4>7
    <3>3. CASE h # k
      BY <1>0, <2>1, <2>2, <2>3, <3>1, <3>3
    <3> QED BY <3>2, <3>3
  <2> QED BY <2>4, <2>5 DEF Exact
<1> QED BY <1>1, <1>2, <1>3, WalletMoves

\* With the overlaps of MoneyLocks excluded the pending balance of a helper is
\* to the cent what his FUNDED payments hold, the available balance what his
\* RELEASED ones paid, deleted jobs included (fulfillPayment, releaseEscrow).
THEOREM EscrowExactAlways ==
    ASSUME MoneyLocks \subseteq Serialised PROVE Spec => []EscrowExact
<1>1. Init => Exact
  <2> SUFFICES ASSUME Init, NEW h \in Helpers, NEW e \in {0, 1}
               PROVE  IsFiniteSet(Credited(h, e)) /\ 0 = Total(Price, Credited(h, e))
    BY DEF Exact, Init
  <2>1. Credited(h, e) = {}
    BY DEF Credited, Init
  <2> QED BY <2>1, TotalEmpty, FS_EmptySet
<1>2. Inv2 /\ LockInv /\ (Inv2 /\ LockInv)' /\ Exact /\ [Next]_vars => Exact'
  BY ExactStep
<1>3. Inv2 /\ LockInv /\ Exact => EscrowExact
  <2> SUFFICES ASSUME Inv2, LockInv, Exact, NEW h \in Helpers
               PROVE  /\ pending[h] = MapThenSumSet(Payout, Held(h))
                      /\ available[h] = MapThenSumSet(Payout, Earned(h))
    BY DEF EscrowExact
  <2>1. Held(h) = Credited(h, 0) /\ Earned(h) = Credited(h, 1)
    BY HeldIsCredited DEF Inv2, Inv, LockInv
  <2>2. Credited(h, 0) \in SUBSET PaymentIds /\ Credited(h, 1) \in SUBSET PaymentIds
    BY DEF Credited
  <2> QED BY <2>1, <2>2, PayoutSum DEF Exact
<1> QED BY <1>1, <1>2, <1>3, LockInvAlways, PTL DEF Spec
-----------------------------------------------------------------------------
(* The life cycle of a job.  Under StatusLocks the status a handler checked *)
(* is still the job's status when it writes (PlacedOK), unless the job was  *)
(* deleted, and a payment that waits for its customer is one of an OPEN job.*)

PlacedOK(r) ==
    /\ r.pc \in CheckingOut \cup {"fulfil_tx"} => status[r.job] \in {"OPEN", "DELETED"}
    /\ r.pc = "start_write"    => status[r.job] \in {"ASSIGNED", "DELETED"}
    /\ r.pc = "complete_write" => status[r.job] \in {"IN_PROGRESS", "REVISION_REQUESTED", "DELETED"}
    /\ r.pc \in {"revise_write", "approve_write"}
                               => status[r.job] \in {"WAITING_FOR_APPROVAL", "DELETED"}
    /\ r.pc \in {"release_find", "release_tx"} => status[r.job] \in {"COMPLETED", "DELETED"}
    /\ r.pc = "review_tx"      => status[r.job] \in {"COMPLETED", "CLOSED", "DELETED"}

Placed == \A s \in Slots : PlacedOK(req[s])

PendingOpen == \A p \in PaymentIds : payStatus[p] = "PENDING" => status[session[p].job] = "OPEN"

LifeInv == Placed /\ PendingOpen

\* The program counters of the handlers that write the status.
Writing == CheckingOut \cup {"fulfil_tx", "start_write", "complete_write", "revise_write",
                             "approve_write", "release_find", "release_tx", "review_tx"}

LEMMA WritingOps ==
    \A pc \in Writing : pc \in DOMAIN OpOf /\ OpOf[pc] \in StatusWriters
BY DEF Writing, CheckingOut, OpOf, StatusWriters

LEMMA StatusLocksCover ==
    /\ MoneyLocks \subseteq StatusLocks
    /\ \A pc, qc \in Writing : {OpOf[pc], OpOf[qc]} \in StatusLocks
<1>1. \A a, b \in StatusWriters : {a, b} \in StatusLocks
  BY DEF StatusLocks
<1>2. \A a : {a} = {a, a}
  OBVIOUS
<1>3. {"fulfil", "approve", "checkout"} \subseteq StatusWriters
  BY DEF StatusWriters
<1>4. MoneyLocks \subseteq StatusLocks
  BY <1>1, <1>2, <1>3 DEF MoneyLocks
<1> QED BY <1>1, <1>4, WritingOps

\* A handler that writes the status is the only one of its job.
LEMMA WritesAlone ==
    ASSUME Inv, Exclusion, StatusLocks \subseteq Serialised,
           NEW s \in Slots, NEW t \in Slots,
           req[s].pc \in Writing, req[t].pc \in Writing, req[s].job = req[t].job
    PROVE  s = t
<1>1. {OpOf[req[s].pc], OpOf[req[t].pc]} \in Serialised
  BY StatusLocksCover
<1>2. req[s].pc # "idle" /\ req[t].pc # "idle"
  BY WritingOps, ProgramCounters
<1> QED BY <1>1, <1>2 DEF Exclusion

LEMMA PlacedStable ==
    ASSUME Inv2, Placed, [Next]_vars, StatusLocks \subseteq Serialised,
           NEW t \in Slots, req'[t] = req[t], ~ Ends(t)
    PROVE  PlacedOK(req[t])'
<1> USE DEF Inv2
<1>0. StatusMoves
  BY StatusMovesStep
<1>a. PICK r \in Requests : r = req[t]
  BY DEF Inv, TypeOK
<1>b. PlacedOK(r) /\ (r.pc # "idle" => r.job \in Jobs)
  BY <1>a DEF Placed, PlacedOK, Inv, Flights, FlightOK
<1> SUFFICES ASSUME r.pc \in Writing
             PROVE  status'[r.job] = status[r.job] \/ status'[r.job] = "DELETED"
  BY <1>a, <1>b DEF PlacedOK, Writing
<1>c. r.job \in Jobs
  BY <1>b, WritingOps, ProgramCounters
<1>1. ASSUME NEW s \in Slots, req[s].job = r.job,
             \/ FulfillPayment(s) \/ StartJob(s) \/ CompleteJob(s)
             \/ RequestRevision(s) \/ ApproveJob(s) \/ CreateReview(s)
      PROVE  FALSE
  <2>1. req[s].pc \in Writing
    BY <1>1 DEF FulfillPayment, StartJob, CompleteJob, RequestRevision, WorkWrite,
                ApproveJob, CreateReview, At, Writing
  <2>2. s = t
    BY <1>1, <1>a, <2>1, WritesAlone
  <2>3. ApproveJob(t)
    BY <1>1, <2>2 DEF Ends
  <2>4. req[t].pc = "approve_write" /\ req'[t].pc = "release_find"
    BY <2>3, <1>a DEF ApproveJob, At, Advance, Inv, TypeOK, Requests
  <2> QED BY <2>4
<1> QED BY <1>0, <1>1, <1>c DEF StatusMoves

\* What a handler that starts or goes on has just checked, it can rely on.
LEMMA PlacedRuns ==
    ASSUME Inv2, LifeInv, NEW t \in Slots, Runs(t)
    PROVE  PlacedOK(req[t])'
<1> USE ProgramCounters DEF Inv2
<1>a. req[t] \in Requests /\ PlacedOK(req[t]) /\ FlightOK(req[t])
  BY DEF Inv, TypeOK, LifeInv, Placed, Flights
<1>0. /\ req \in [Slots -> Requests] /\ status \in [Jobs -> JobStatuses]
  BY DEF Inv, TypeOK
<1>b. ASSUME req'[t].pc \notin Writing PROVE PlacedOK(req[t])'
  BY <1>b DEF PlacedOK, Writing
<1>1. CASE Arrive(t)
  <2>1. PICK j \in Jobs :
        \/ CheckoutRead(t, j) \/ RejectRead(t, j)
        \/ \E h \in Helpers : SelectRead(t, j, h) \/ AcceptRead(t, j, h)
        \/ StartRead(t, j) \/ CompleteRead(t, j) \/ ReviseRead(t, j)
        \/ ApproveRead(t, j) \/ ReviewRead(t, j)
    BY <1>1 DEF Arrive
  <2>2. CASE CheckoutRead(t, j)
    <3>1. req'[t].pc = "checkout_find" /\ req'[t].job = j /\ status' = status /\ status[j] = "OPEN"
      BY <1>0, <2>2 DEF CheckoutRead, Begin, jobVars
    <3> QED BY <3>1 DEF PlacedOK
  <2>3. CASE RejectRead(t, j) \/ \E h \in Helpers : SelectRead(t, j, h) \/ AcceptRead(t, j, h)
    <3>1. req'[t].pc \in {"reject_tx", "select_tx", "accept_tx"}
      BY <1>0, <2>3 DEF RejectRead, SelectRead, AcceptRead, Begin
    <3> QED BY <3>1, <1>b DEF Writing, CheckingOut
  <2>4. CASE StartRead(t, j)
    <3>1. /\ req'[t].pc = "start_write" /\ req'[t].job = j /\ status' = status
          /\ status[j] = "ASSIGNED"
      BY <1>0, <2>4 DEF StartRead, WorkRead, Begin, jobVars
    <3> QED BY <3>1 DEF PlacedOK, CheckingOut
  <2>5. CASE CompleteRead(t, j)
    <3>1. /\ req'[t].pc = "complete_write" /\ req'[t].job = j /\ status' = status
          /\ status[j] \in {"IN_PROGRESS", "REVISION_REQUESTED"}
      BY <1>0, <2>5 DEF CompleteRead, WorkRead, Begin, jobVars
    <3> QED BY <3>1 DEF PlacedOK, CheckingOut
  <2>6. CASE ReviseRead(t, j)
    <3>1. /\ req'[t].pc = "revise_write" /\ req'[t].job = j /\ status' = status
          /\ status[j] = "WAITING_FOR_APPROVAL"
      BY <1>0, <2>6 DEF ReviseRead, WorkRead, Begin, jobVars
    <3> QED BY <3>1 DEF PlacedOK, CheckingOut
  <2>7. CASE ApproveRead(t, j)
    <3>1. /\ req'[t].pc = "approve_write" /\ req'[t].job = j /\ status' = status
          /\ status[j] = "WAITING_FOR_APPROVAL"
      BY <1>0, <2>7 DEF ApproveRead, Begin, jobVars
    <3> QED BY <3>1 DEF PlacedOK, CheckingOut
  <2>8. CASE ReviewRead(t, j)
    <3>1. /\ req'[t].pc = "review_tx" /\ req'[t].job = j /\ status' = status
          /\ status[j] \in {"COMPLETED", "CLOSED"}
      BY <1>0, <2>8 DEF ReviewRead, WorkRead, Begin, jobVars
    <3> QED BY <3>1 DEF PlacedOK, CheckingOut
  <2> QED BY <2>1, <2>2, <2>3, <2>4, <2>5, <2>6, <2>7, <2>8
<1>2. CASE \E p \in PaymentIds : WebhookCompleted(t, p)
  <2>1. PICK p \in PaymentIds : WebhookCompleted(t, p)
    BY <1>2
  <2>2. req'[t].pc = "fulfil_tx" /\ req'[t].job = session[p].job /\ status' = status
    BY <1>0, <2>1 DEF WebhookCompleted, Begin, jobVars
  <2>3. status[session[p].job] = "OPEN"
    BY <2>1 DEF WebhookCompleted, Fulfillable, LifeInv, PendingOpen
  <2> QED BY <2>2, <2>3 DEF PlacedOK
<1>3. ASSUME req'[t].pc \in CheckingOut, req[t].pc \in CheckingOut,
             req'[t].job = req[t].job, status' = status
      PROVE  PlacedOK(req[t])'
  BY <1>3, <1>a DEF PlacedOK, CheckingOut
<1>4. CASE CheckoutFind(t)
  <2>1. status' = status /\ req[t].pc = "checkout_find"
    BY <1>4 DEF CheckoutFind, At, jobVars
  <2>2. CASE Finish(t)
    <3>1. req'[t].pc = "idle"
      BY <2>2, <1>0, IdleInOrder DEF Finish
    <3> QED BY <3>1, <1>b DEF Writing, CheckingOut
  <2>3. ASSUME NEW p \in PaymentIds, NEW r, req' = [req EXCEPT ![t] = r],
               \/ r = [req[t] EXCEPT !.pc = "checkout_session"]
               \/ r = [req[t] EXCEPT !.pc = "checkout_delete", !.pay = p]
        PROVE  PlacedOK(req[t])'
    <3>1. req'[t] = r
      BY <1>0, <2>3
    <3>2. r.pc \in CheckingOut /\ r.job = req[t].job
      BY <1>a, <2>3 DEF Requests, CheckingOut
    <3> QED BY <1>3, <2>1, <3>1, <3>2 DEF CheckingOut
  <2>4. CASE req' = [req EXCEPT ![t] = [req[t] EXCEPT !.pc = "checkout_session"]]
    <3>1. req'[t].pc = "checkout_session" /\ req'[t].job = req[t].job
      BY <1>0, <1>a, <2>4 DEF Requests
    <3> QED BY <1>3, <2>1, <3>1 DEF CheckingOut
  <2> QED BY <1>4, <2>2, <2>3, <2>4 DEF CheckoutFind, Advance, LivePayments, RowsOf, PaymentsOf
<1>5. CASE CheckoutDelete(t)
  <2>1. req'[t].pc = "checkout_session" /\ req'[t].job = req[t].job
    BY <1>0, <1>a, <1>5 DEF CheckoutDelete, Advance, Requests
  <2>2. status' = status /\ req[t].pc = "checkout_delete"
    BY <1>5 DEF CheckoutDelete, At, jobVars
  <2> QED BY <2>1, <2>2, <1>3 DEF CheckingOut
<1>6. CASE CheckoutCreateSession(t)
  <2>1. PICK p \in PaymentIds :
          req' = [req EXCEPT ![t] = [req[t] EXCEPT !.pc = "checkout_create", !.pay = p]]
    BY <1>6 DEF CheckoutCreateSession, Advance
  <2>2. req'[t].pc = "checkout_create" /\ req'[t].job = req[t].job
    BY <1>0, <1>a, <2>1 DEF Requests
  <2>3. status' = status /\ req[t].pc = "checkout_session"
    BY <1>6 DEF CheckoutCreateSession, At, jobVars
  <2> QED BY <2>2, <2>3, <1>3 DEF CheckingOut
<1>7. CASE ApproveJob(t)
  <2>1. req'[t].pc = "release_find" /\ req'[t].job = req[t].job
    BY <1>0, <1>a, <1>7 DEF ApproveJob, Advance, Requests
  <2>2. req[t].job \in Jobs /\ status' = [status EXCEPT ![req[t].job] = "COMPLETED"]
    BY <1>7, <1>a DEF ApproveJob, At, FlightOK
  <2>3. status'[req'[t].job] = "COMPLETED"
    BY <1>0, <2>1, <2>2
  <2> QED BY <2>1, <2>3 DEF PlacedOK, CheckingOut
<1>8. CASE ReleaseFind(t)
  <2>1. PICK p \in PaymentIds :
        /\ payStatus[p] = "FUNDED"
        /\ req' = [req EXCEPT ![t] = [req[t] EXCEPT !.pc = "release_tx", !.pay = p,
                                                    !.helper = session[p].helper]]
    BY <1>8 DEF ReleaseFind, Advance, Releasable, RowsOf, PaymentsOf
  <2>2. session[p].helper \in Helpers
    BY <2>1 DEF Inv, Rows, RowOK
  <2>3. req'[t].pc = "release_tx" /\ req'[t].job = req[t].job
    BY <1>0, <1>a, <2>1, <2>2 DEF Requests
  <2>4. status' = status /\ req[t].pc = "release_find"
    BY <1>8 DEF ReleaseFind, At, jobVars
  <2> QED BY <2>3, <2>4, <1>a DEF PlacedOK, CheckingOut
<1> QED BY <1>1, <1>2, <1>4, <1>5, <1>6, <1>7, <1>8 DEF Runs

LEMMA PlacedStep ==
    ASSUME Inv2, LifeInv, [Next]_vars, StatusLocks \subseteq Serialised
    PROVE  Placed'
<1> SUFFICES ASSUME NEW t \in Slots PROVE PlacedOK(req[t])'
  BY DEF Placed
<1>1. CASE req'[t] = Idle
  BY <1>1, IdleInOrder DEF PlacedOK, CheckingOut
<1>2. CASE Ends(t)
  BY <1>1, <1>2, EndsFinish DEF Finish, Inv2, Inv, TypeOK
<1> QED BY <1>1, <1>2, SlotMoves, PlacedStable, PlacedRuns DEF Inv2, LifeInv

\* What each write of a status finds.
LEMMA WhenWritten ==
    ASSUME Inv2, Placed, NEW s \in Slots, Exists(req[s].job)
    PROVE  /\ req[s].job \in Jobs \/ req[s].pc = "idle"
           /\ FulfillPayment(s) => status[req[s].job] = "OPEN"
           /\ StartJob(s) => status[req[s].job] = "ASSIGNED"
           /\ CompleteJob(s) => status[req[s].job] \in {"IN_PROGRESS", "REVISION_REQUESTED"}
           /\ RequestRevision(s) => status[req[s].job] = "WAITING_FOR_APPROVAL"
           /\ ApproveJob(s) => status[req[s].job] = "WAITING_FOR_APPROVAL"
           /\ CreateReview(s) => status[req[s].job] \in {"COMPLETED", "CLOSED"}
<1>1. PlacedOK(req[s]) /\ FlightOK(req[s])
  BY DEF Placed, Inv2, Inv, Flights
<1>2. req[s].job \in Jobs \/ req[s].pc = "idle"
  BY <1>1 DEF FlightOK
<1> QED BY <1>1, <1>2 DEF PlacedOK, Exists, FulfillPayment, StartJob, CompleteJob,
        RequestRevision, WorkWrite, ApproveJob, CreateReview, At

LEMMA PendingOpenStep ==
    ASSUME Inv2, Inv2', LockInv, LifeInv, [Next]_vars
    PROVE  PendingOpen'
<1>0. Kept /\ RowMoves /\ StatusMoves
  BY KeptStep, RowMovesStep, StatusMovesStep DEF Inv2
<1> SUFFICES ASSUME NEW p \in PaymentIds, payStatus'[p] = "PENDING"
             PROVE  status'[session'[p].job] = "OPEN"
  BY DEF PendingOpen
<1>1. CASE \E s \in Slots : req[s].pay = p /\ CheckoutCreatePayment(s)
  <2>1. PICK s \in Slots : req[s].pay = p /\ CheckoutCreatePayment(s)
    BY <1>1
  <2>2. PICK j \in Jobs : /\ session[p].job = j /\ session'[p].job = j /\ req[s].job = j
                          /\ Exists(j) /\ status' = status
    BY <2>1, WhenCreated DEF Inv2
  <2>3. status[j] = "OPEN"
    BY <2>1, <2>2 DEF LifeInv, Placed, PlacedOK, CheckingOut, CheckoutCreatePayment, At, Exists
  <2> QED BY <2>2, <2>3
<1>2. CASE payStatus[p] = "PENDING"
  <2>1. PICK j \in Jobs : session[p].job = j /\ session'[p].job = j /\ status[j] = "OPEN"
    BY <1>0, <1>2 DEF Inv2, Inv, Rows, RowOK, Kept, LifeInv, PendingOpen
  <2>2. ~ DeleteJob(j)
    BY <2>1 DEF DeleteJob, Inv2, Inv, Traces, TraceOK, Exists, TypeOK
  <2>3. ASSUME NEW s \in Slots, FulfillPayment(s), req[s].job = j PROVE FALSE
    <3>1. PICK q \in PaymentIds : /\ req[s].pay = q /\ payStatus[q] = "PENDING"
                                  /\ payStatus' = [payStatus EXCEPT ![q] = "FUNDED"]
      BY <2>3, FulfilsPending
    <3>2. session[q].job = j
      BY <2>3, <3>1, WhenFulfilled DEF Inv2
    <3>3. q = p
      BY <1>2, <2>1, <3>1, <3>2 DEF LockInv, OnePaymentPerJob
    <3> QED BY <3>1, <3>3 DEF Inv2, Inv, TypeOK
  <2>4. ASSUME NEW s \in Slots, req[s].job = j,
               \/ StartJob(s) \/ CompleteJob(s) \/ RequestRevision(s)
               \/ ApproveJob(s) \/ CreateReview(s)
        PROVE  FALSE
    BY <2>1, <2>4, WhenWritten DEF LifeInv, Exists
  <2> QED BY <1>0, <2>1, <2>2, <2>3, <2>4 DEF StatusMoves
<1> QED BY <1>0, <1>1, <1>2 DEF RowMoves

LEMMA LifeInvInit == Init => LifeInv
<1> SUFFICES ASSUME Init PROVE LifeInv
  OBVIOUS
<1>1. \A s \in Slots : req[s].pc = "idle"
  BY IdleInOrder DEF Init
<1>2. Placed
  BY <1>1 DEF Placed, PlacedOK, CheckingOut
<1>3. PendingOpen
  BY DEF Init, PendingOpen
<1> QED BY <1>2, <1>3 DEF LifeInv

\* What holds of the job's status once the overlaps of its writers are excluded.
THEOREM LifeInvAlways ==
    ASSUME StatusLocks \subseteq Serialised PROVE Spec => [](Inv2 /\ LockInv /\ LifeInv)
<1>0. MoneyLocks \subseteq Serialised
  BY StatusLocksCover
<1>1. Init => Inv2 /\ LockInv /\ LifeInv
  BY Inv2Init, LockInvInit, LifeInvInit
<1>2. Inv2 /\ LockInv /\ LifeInv /\ [Next]_vars => (Inv2 /\ LockInv /\ LifeInv)'
  <2> SUFFICES ASSUME Inv2, LockInv, LifeInv, [Next]_vars PROVE (Inv2 /\ LockInv /\ LifeInv)'
    OBVIOUS
  <2>1. Inv2' /\ LockInv'
    BY <1>0, Inv2Next, LockInvNext
  <2>2. Placed' /\ PendingOpen'
    BY <2>1, PlacedStep, PendingOpenStep
  <2> QED BY <2>1, <2>2 DEF LifeInv
<1> QED BY <1>1, <1>2, PTL DEF Spec
-----------------------------------------------------------------------------
(* The refinement.  Which jobs are paid and paid out is what the wallet     *)
(* transactions of their payments say.                                      *)

PaidJobs    == {j \in Jobs : \E p \in PaymentsOf(j) : commissionRows[p] > 0}
PaidOutJobs == {j \in Jobs : \E p \in PaymentsOf(j) : earningRows[p] > 0}

\* Drawing a payment id, and whatever else happens to sessions, leaves both
\* sets alone.
LEMMA LedgersKept ==
    ASSUME Inv, Inv', Kept
    PROVE  /\ UNCHANGED commissionRows => UNCHANGED PaidJobs
           /\ UNCHANGED earningRows => UNCHANGED PaidOutJobs
<1>1. \A p \in PaymentIds :
         /\ commissionRows[p] > 0 => session'[p].job = session[p].job
         /\ earningRows[p] > 0 => session'[p].job = session[p].job
  BY DEF Inv, MoneyTrail, Kept
<1>2. ASSUME UNCHANGED commissionRows PROVE UNCHANGED PaidJobs
  BY <1>1, <1>2 DEF PaidJobs, PaymentsOf
<1>3. ASSUME UNCHANGED earningRows PROVE UNCHANGED PaidOutJobs
  BY <1>1, <1>3 DEF PaidOutJobs, PaymentsOf
<1> QED BY <1>2, <1>3

\* The steps a job post sees.
LEMMA VisibleSteps ==
    ASSUME Inv, [Next]_vars
    PROVE  \/ UNCHANGED <<status, commissionRows, earningRows>>
           \/ \E j \in Jobs : DeleteJob(j)
           \/ \E s \in Slots : \/ FulfillPayment(s) \/ ReleaseEscrow(s) \/ StartJob(s)
                               \/ CompleteJob(s) \/ RequestRevision(s) \/ ApproveJob(s)
                               \/ CreateReview(s)
<1>1. UNCHANGED walletVars => UNCHANGED <<commissionRows, earningRows>>
  BY DEF walletVars
<1>2. \/ UNCHANGED status
      \/ \E j \in Jobs : DeleteJob(j)
      \/ \E s \in Slots : \/ FulfillPayment(s) \/ StartJob(s) \/ CompleteJob(s)
                          \/ RequestRevision(s) \/ ApproveJob(s) \/ CreateReview(s)
  <2>1. status \in [Jobs -> JobStatuses] /\ StatusMoves
    BY StatusMovesStep DEF Inv, TypeOK
  <2>2. DOMAIN status' = Jobs
    BY InvNext DEF Inv, TypeOK
  <2>3. ASSUME \A j \in Jobs : status'[j] = status[j] PROVE UNCHANGED status
    <3>1. status' \in [Jobs -> JobStatuses]
      BY InvNext DEF Inv, TypeOK
    <3> QED BY <2>1, <2>3, <3>1
  <2> QED BY <2>1, <2>3 DEF StatusMoves
<1> QED BY <1>1, <1>2, WalletMoves

LEMMA PayMaps ==
    ASSUME Inv2, Inv2', LockInv, LifeInv, Kept, NEW s \in Slots, FulfillPayment(s)
    PROVE  \E j \in Jobs : Lifecycle!Pay(j)
<1>1. PICK p \in PaymentIds :
        /\ req[s].pay = p /\ UNCHANGED <<session, earningRows>>
        /\ commissionRows' = [commissionRows EXCEPT ![p] = 1]
  BY FulfilsPending
<1>2. PICK j \in Jobs : req[s].job = j /\ session[p].job = j /\ Exists(j)
  BY <1>1, WhenFulfilled DEF Inv2
<1>3. status[j] = "OPEN" /\ status' = [status EXCEPT ![j] = "ASSIGNED"]
  BY <1>2, WhenWritten DEF LifeInv, FulfillPayment
<1>4. j \notin PaidJobs
  BY <1>3 DEF PaidJobs, PaymentsOf, Inv2, Traces, TraceOK
<1>5. commissionRows \in [PaymentIds -> Nat]
  BY DEF Inv2, Inv, TypeOK
<1>6. PaidJobs' = PaidJobs \cup {j}
  <2>1. p \in PaymentsOf(j)' /\ commissionRows'[p] > 0
    BY <1>1, <1>2, <1>5 DEF PaymentsOf
  <2>2. \A k \in Jobs : PaymentsOf(k)' = PaymentsOf(k)
    BY <1>1 DEF PaymentsOf
  <2>3. \A k \in Jobs : k # j => p \notin PaymentsOf(k)
    BY <1>2 DEF PaymentsOf
  <2>4. \A k \in Jobs : k # j => \A q \in PaymentsOf(k) : commissionRows'[q] = commissionRows[q]
    BY <1>1, <1>5, <2>3 DEF PaymentsOf
  <2> QED BY <2>1, <2>2, <2>4 DEF PaidJobs
<1>7. UNCHANGED PaidOutJobs
  BY <1>1, LedgersKept DEF Inv2
<1> QED BY <1>3, <1>4, <1>6, <1>7 DEF Lifecycle!Pay, Lifecycle!Move, PaidJobs, PaidOutJobs

LEMMA PayOutMaps ==
    ASSUME Inv2, Inv2', LockInv, LifeInv, Kept, NEW s \in Slots, ReleaseEscrow(s)
    PROVE  \E j \in Jobs : Lifecycle!PayOut(j)
<1>1. PICK p \in PaymentIds :
        /\ req[s].pay = p /\ payStatus[p] = "FUNDED" /\ UNCHANGED <<session, commissionRows>>
        /\ commissionRows[p] = 1 /\ earningRows[p] = 0
        /\ earningRows' = [earningRows EXCEPT ![p] = 1]
  BY ReleasesFunded
<1>2. PICK j \in Jobs : req[s].job = j /\ session[p].job = j
  BY <1>1, WhenReleased DEF Inv2
<1>3. Exists(j)
  BY <1>1, <1>2 DEF Inv2, Traces, TraceOK
<1>4. status[j] = "COMPLETED" /\ UNCHANGED status
  BY <1>2, <1>3 DEF LifeInv, Placed, PlacedOK, ReleaseEscrow, At, Exists, jobVars
<1>5. j \in PaidJobs
  BY <1>1, <1>2 DEF PaidJobs, PaymentsOf
<1>6. j \notin PaidOutJobs
  <2> SUFFICES ASSUME NEW q \in PaymentIds, session[q].job = j, earningRows[q] > 0
               PROVE  FALSE
    BY DEF PaidOutJobs, PaymentsOf
  <2>1. payStatus[q] \in Taken
    BY <1>3 DEF Inv2, Inv, MoneyTrail, LockInv, CreditKept
  <2>2. q = p
    BY <1>1, <1>2, <2>1 DEF LockInv, OnePaymentPerJob, Taken
  <2> QED BY <1>1, <2>2
<1>7. earningRows \in [PaymentIds -> Nat]
  BY DEF Inv2, Inv, TypeOK
<1>8. PaidOutJobs' = PaidOutJobs \cup {j}
  <2>1. p \in PaymentsOf(j)' /\ earningRows'[p] > 0
    BY <1>1, <1>2, <1>7 DEF PaymentsOf
  <2>2. \A k \in Jobs : PaymentsOf(k)' = PaymentsOf(k)
    BY <1>1 DEF PaymentsOf
  <2>3. \A k \in Jobs : k # j => p \notin PaymentsOf(k)
    BY <1>2 DEF PaymentsOf
  <2>4. \A k \in Jobs : k # j => \A q \in PaymentsOf(k) : earningRows'[q] = earningRows[q]
    BY <1>1, <1>7, <2>3 DEF PaymentsOf
  <2> QED BY <2>1, <2>2, <2>4 DEF PaidOutJobs
<1>9. UNCHANGED PaidJobs
  BY <1>1, LedgersKept DEF Inv2
<1> QED BY <1>4, <1>5, <1>6, <1>8, <1>9 DEF Lifecycle!PayOut, PaidJobs, PaidOutJobs

LEMMA WorkMaps ==
    ASSUME Inv2, LifeInv, UNCHANGED <<PaidJobs, PaidOutJobs>>, NEW s \in Slots,
           \/ StartJob(s) \/ CompleteJob(s) \/ RequestRevision(s)
           \/ ApproveJob(s) \/ CreateReview(s)
    PROVE  UNCHANGED status \/ \E j \in Jobs : Lifecycle!Work(j)
<1>0. status \in [Jobs -> JobStatuses]
  BY DEF Inv2, Inv, TypeOK
<1>1. PICK j : req[s].job = j /\ Exists(j)
  BY DEF StartJob, CompleteJob, RequestRevision, WorkWrite, ApproveJob, CreateReview
<1>2. j \in Jobs
  BY <1>1, WhenWritten DEF LifeInv, StartJob, CompleteJob, RequestRevision, WorkWrite,
     ApproveJob, CreateReview, At
<1>3. ASSUME NEW from \in JobStatuses, NEW to, status[j] = from,
             status' = [status EXCEPT ![j] = to],
             \/ from = "ASSIGNED" /\ to = "IN_PROGRESS"
             \/ from \in {"IN_PROGRESS", "REVISION_REQUESTED"} /\ to = "WAITING_FOR_APPROVAL"
             \/ from = "WAITING_FOR_APPROVAL" /\ to \in {"REVISION_REQUESTED", "COMPLETED"}
             \/ from = "COMPLETED" /\ to = "CLOSED"
      PROVE  Lifecycle!Work(j)
  BY <1>3 DEF Lifecycle!Work, Lifecycle!Move, PaidJobs, PaidOutJobs
<1>4. CASE StartJob(s)
  BY <1>0, <1>1, <1>2, <1>3, <1>4, WhenWritten DEF LifeInv, StartJob, WorkWrite
<1>5. CASE CompleteJob(s)
  BY <1>0, <1>1, <1>2, <1>3, <1>5, WhenWritten DEF LifeInv, CompleteJob, WorkWrite
<1>6. CASE RequestRevision(s)
  BY <1>0, <1>1, <1>2, <1>3, <1>6, WhenWritten DEF LifeInv, RequestRevision, WorkWrite
<1>7. CASE ApproveJob(s)
  BY <1>0, <1>1, <1>2, <1>3, <1>7, WhenWritten DEF LifeInv, ApproveJob
<1>8. CASE CreateReview(s)
  <2>1. status[j] \in {"COMPLETED", "CLOSED"} /\ status' = [status EXCEPT ![j] = "CLOSED"]
    BY <1>1, <1>8, WhenWritten DEF LifeInv, CreateReview
  <2>2. CASE status[j] = "CLOSED"
    BY <1>0, <1>2, <2>1, <2>2
  <2>3. CASE status[j] = "COMPLETED"
    BY <1>0, <1>2, <1>3, <2>1, <2>3
  <2> QED BY <2>1, <2>2, <2>3
<1> QED BY <1>4, <1>5, <1>6, <1>7, <1>8

LEMMA LifecycleStep ==
    ASSUME Inv2, Inv2', LockInv, LifeInv, [Next]_vars
    PROVE  [Lifecycle!Next]_(Lifecycle!vars)
<1>0. Kept /\ Inv /\ Inv'
  BY KeptStep DEF Inv2
<1>1. ASSUME UNCHANGED <<status, PaidJobs, PaidOutJobs>> PROVE UNCHANGED Lifecycle!vars
  BY <1>1 DEF Lifecycle!vars, PaidJobs, PaidOutJobs
<1>2. CASE UNCHANGED <<status, commissionRows, earningRows>>
  BY <1>0, <1>1, <1>2, LedgersKept
<1>3. ASSUME NEW j \in Jobs, DeleteJob(j) PROVE Lifecycle!Delete(j)
  <2>1. UNCHANGED <<PaidJobs, PaidOutJobs>>
    BY <1>0, <1>3, LedgersKept DEF DeleteJob, walletVars
  <2> QED BY <1>3, <2>1 DEF DeleteJob, Exists, Lifecycle!Delete, PaidJobs, PaidOutJobs
<1>4. ASSUME NEW s \in Slots,
             \/ StartJob(s) \/ CompleteJob(s) \/ RequestRevision(s)
             \/ ApproveJob(s) \/ CreateReview(s)
      PROVE  [Lifecycle!Next]_(Lifecycle!vars)
  <2>1. UNCHANGED walletVars
    BY <1>4 DEF StartJob, CompleteJob, RequestRevision, WorkWrite, ApproveJob, CreateReview
  <2>2. UNCHANGED <<PaidJobs, PaidOutJobs>>
    BY <1>0, <2>1, LedgersKept DEF walletVars
  <2> QED BY <1>1, <1>4, <2>2, WorkMaps DEF Lifecycle!Next
<1> QED BY <1>0, <1>2, <1>3, <1>4, VisibleSteps, PayMaps, PayOutMaps DEF Lifecycle!Next

\* With the overlaps of the status writers excluded every step of every
\* handler is a step of a job's life cycle or leaves it: paid before it is
\* assigned, worked on in the documented order, paid out after completion and
\* once (fulfillPayment, startJob, completeJob, requestRevision, approveJob,
\* releaseEscrow, createReview and deleteJob against one another).
THEOREM ImplementsLifecycleHolds ==
    ASSUME StatusLocks \subseteq Serialised PROVE Spec => ImplementsLifecycle
<1>1. Init => Lifecycle!Init
  <2> SUFFICES ASSUME Init PROVE Lifecycle!Init
    OBVIOUS
  <2>1. \A p \in PaymentIds : commissionRows[p] = 0 /\ earningRows[p] = 0
    BY DEF Init
  <2>2. \A j \in Jobs : \A p \in PaymentsOf(j) : ~ (commissionRows[p] > 0) /\ ~ (earningRows[p] > 0)
    BY <2>1 DEF PaymentsOf
  <2>3. status = [j \in Jobs |-> "OPEN"]
    BY DEF Init
  <2> QED BY <2>2, <2>3 DEF Lifecycle!Init
<1>2. Inv2 /\ Inv2' /\ LockInv /\ LifeInv /\ [Next]_vars => [Lifecycle!Next]_(Lifecycle!vars)
  BY LifecycleStep
<1> QED BY <1>1, <1>2, LifeInvAlways, PTL DEF Spec, ImplementsLifecycle, Lifecycle!Spec
=============================================================================
