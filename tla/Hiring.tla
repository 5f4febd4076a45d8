------------------------------- MODULE Hiring -------------------------------
(***************************************************************************)
(* How one job finds its helper and its price: applications, negotiation,  *)
(* selection, checkout price and assignment.  It models                    *)
(*   Job/job.services.ts                  updateJob, applyToJob,           *)
(*       withdrawApplication, selectHelper, acceptApplication,             *)
(*       rejectApplication                                                 *)
(*   Negotiation/negotiation.services.ts, socket/negotiation.handler.ts    *)
(*       send, accept and reject an offer                                  *)
(*   Payment/payment.services.ts          the price of a checkout and what *)
(*       fulfillPayment does to the applications                           *)
(* XRead and XFind are look-ups with their checks and early returns; the   *)
(* action named after the function is its write.  Deleting the job takes   *)
(* every row away and is left to Escrow, which also has the races between  *)
(* two checkouts.                                                          *)
(***************************************************************************)
EXTENDS Handlers

CONSTANTS Helpers,   \* helper accounts that may apply
          Budgets,   \* budgets the customer may post
          Offers,    \* amounts the two sides may offer
          PaymentIds \* payments of the job that exist at once (a bound)

ASSUME HiringAssumption ==
    /\ None \notin Helpers \cup Budgets \cup Offers
    /\ Budgets \subseteq Nat \ {0} /\ Offers \subseteq Nat \ {0}

VARIABLES
    job,        \* job_posts: status, budget, is_negotiable, selected helper
    apps,       \* job_applications: status, negotiation_status, final amount
    latest,     \* the newest negotiation_offers row of an application
    payments,   \* the job's payments rows: status, helper, amount
    consented   \* amounts the customer posted, offered or accepted (history)

hiringData == <<job, apps, latest, payments, consented>>
hiringVars == <<hiringData, handlers>>

-----------------------------------------------------------------------------
(* Data *)

Amounts == Budgets \cup Offers

AppStatuses == {"NONE", "PENDING", "SELECTED", "REJECTED", "WITHDRAWN"}
NegStatuses == {"NULL", "PENDING", "ACCEPTED", "REJECTED", "CANCELLED"}

JobRows  == [status: {"OPEN", "ASSIGNED"}, budget: Amounts,
             negotiable: BOOLEAN, selected: Helpers \cup {None}]
Applications == [status: AppStatuses, neg: NegStatuses, final: Amounts \cup {None}]
NoApplication == [status |-> "NONE", neg |-> "NULL", final |-> None]

Sides     == {"customer", "helper"}
OfferRows == [from: Sides, amount: Offers]
NoOffer   == [from |-> "nobody", amount |-> 0]

NoPayment == [status |-> "NONE", helper |-> None, amount |-> 0]
Payments  == [status: {"PENDING", "FUNDED"}, helper: Helpers, amount: Amounts]

\* The value given, or the one there when it is null or undefined.
Or(given, otherwise) == IF given = None THEN otherwise ELSE given

HiringInit ==
    /\ \E b \in Budgets, n \in BOOLEAN :
         /\ job = [status |-> "OPEN", budget |-> b, negotiable |-> n, selected |-> None]
         /\ consented = {b}
    /\ apps = [h \in Helpers |-> NoApplication]
    /\ latest = [h \in Helpers |-> NoOffer]
    /\ payments = [p \in PaymentIds |-> NoPayment]

-----------------------------------------------------------------------------
(* updateJob *)

\* The request gives a new budget, a new is_negotiable, both or neither.
UpdateRead(s, b, n) ==
    /\ job.status = "OPEN"
    /\ LET opens == Or(n, job.negotiable) /\ job.selected # None
       IN  Begin(s, [op |-> "update", pc |-> "update_tx", budget |-> b, negotiable |-> n,
                     h     |-> IF opens THEN job.selected ELSE None,
                     final |-> IF opens THEN Or(b, job.budget) ELSE None])
    /\ UNCHANGED hiringData

UpdateJob_Null(s) ==
    /\ At(s, "update_tx")
    /\ job' = [job EXCEPT !.budget = req[s].budget]
    /\ Finish(s)
    /\ UNCHANGED <<apps, latest, payments, consented>>
\* After the uploads.  The selected application, as it was read, is given a
\* negotiation if it has none, at the price as it was read.
UpdateJob(s) ==
    /\ At(s, "update_tx")
    /\ LET r == req[s]
       IN  /\ apps' = IF r.h # None /\ apps[r.h].neg = "NULL"
                      THEN [apps EXCEPT ![r.h] = [@ EXCEPT !.neg = "PENDING", !.final = r.final]]
                      ELSE apps
           /\ job' = [job EXCEPT !.budget = Or(r.budget, @),
                                 !.negotiable = Or(r.negotiable, @)]
           /\ consented' = consented \cup ({r.budget} \ {None})
    /\ Finish(s)
    /\ UNCHANGED <<latest, payments>>

-----------------------------------------------------------------------------
(* Applications *)

ApplyRead_AnyStatus(s, h) ==
    /\ Begin(s, [op |-> "apply", pc |-> "apply_find", h |-> h])
    /\ UNCHANGED hiringData
ApplyRead(s, h) ==
    /\ job.status = "OPEN"
    /\ Begin(s, [op |-> "apply", pc |-> "apply_find", h |-> h])
    /\ UNCHANGED hiringData

\* Only a withdrawn application may be made again.
ApplyFind(s) ==
    /\ At(s, "apply_find")
    /\ IF apps[req[s].h].status \in {"NONE", "WITHDRAWN"}
       THEN Goto(s, [op |-> "apply", pc |-> "apply_write", h |-> req[s].h,
                     new |-> apps[req[s].h].status = "NONE"])
       ELSE Finish(s)
    /\ UNCHANGED hiringData

\* create fails on the unique key when the row has come to exist; an update of
\* the old row keeps its negotiation.
ApplyToJob(s) ==
    /\ At(s, "apply_write")
    /\ apps' = IF req[s].new /\ apps[req[s].h].status # "NONE" THEN apps
               ELSE [apps EXCEPT ![req[s].h].status = "PENDING"]
    /\ Finish(s)
    /\ UNCHANGED <<job, latest, payments, consented>>

\* Whatever the job's status is.  The look-up and the update are one step:
\* what happens between them does not change where the row ends.
WithdrawApplication(h) ==
    /\ apps[h].status \notin {"NONE", "WITHDRAWN"}
    /\ apps' = [apps EXCEPT ![h].status = "WITHDRAWN"]
    /\ AtOnce("withdraw")
    /\ UNCHANGED <<job, latest, payments, consented>>

\* acceptApplication opens the negotiation, whatever the statuses of the job
\* and of the application are.  Its look-ups decide nothing.
AcceptApplication(h) ==
    /\ apps[h].status # "NONE"
    /\ apps' = [apps EXCEPT ![h].neg = "PENDING"]
    /\ AtOnce("open")
    /\ UNCHANGED <<job, latest, payments, consented>>

-----------------------------------------------------------------------------
(* selectHelper and rejectApplication: the job is read, then the            *)
(* application, and the transaction trusts both.                            *)

SelectRead(s, h) ==
    /\ job.status = "OPEN"
    /\ Begin(s, [op |-> "select", pc |-> "select_find", h |-> h, before |-> job.selected,
                 negotiable |-> job.negotiable, budget |-> job.budget])
    /\ UNCHANGED hiringData

SelectFind(s) ==
    /\ At(s, "select_find")
    /\ LET r == req[s]
           app == apps[r.h]
           row == [status |-> "SELECTED",
                   neg |-> IF app.neg = "ACCEPTED" \/ r.negotiable
                           THEN "ACCEPTED" ELSE "NULL",
                   final |-> Or(app.final, r.budget)]
       IN  IF app.status \in {"PENDING", "SELECTED"}
           THEN Goto(s, [op |-> "select", pc |-> "select_tx", h |-> r.h,
                         before |-> r.before, row |-> row])
           ELSE Finish(s)
    /\ UNCHANGED hiringData

\* The application seen selected before goes back to PENDING.
SelectHelper(s) ==
    /\ At(s, "select_tx")
    /\ LET r == req[s]
       IN  /\ apps' = [h \in Helpers |->
                 IF h = r.h THEN r.row
                 ELSE IF h = r.before THEN [apps[h] EXCEPT !.status = "PENDING"]
                 ELSE apps[h]]
           /\ job' = [job EXCEPT !.selected = r.h]
    /\ Finish(s)
    /\ UNCHANGED <<latest, payments, consented>>

RejectRead(s, h) ==
    /\ job.status = "OPEN"
    /\ Begin(s, [op |-> "reject", pc |-> "reject_find", h |-> h,
                 chosen |-> job.selected = h])
    /\ UNCHANGED hiringData

RejectFind(s) ==
    /\ At(s, "reject_find")
    /\ IF apps[req[s].h].status \in {"PENDING", "SELECTED"}
       THEN Goto(s, [req[s] EXCEPT !.pc = "reject_tx"])
       ELSE Finish(s)
    /\ UNCHANGED hiringData

RejectApplication_KeepsChoice(s) ==
    /\ At(s, "reject_tx")
    /\ apps' = [apps EXCEPT ![req[s].h].status = "REJECTED"]
    /\ Finish(s)
    /\ UNCHANGED <<job, latest, payments, consented>>
\* The job loses its choice when it was this application as it was read.
RejectApplication(s) ==
    /\ At(s, "reject_tx")
    /\ job' = IF req[s].chosen THEN [job EXCEPT !.selected = None] ELSE job
    /\ apps' = [apps EXCEPT ![req[s].h].status = "REJECTED"]
    /\ Finish(s)
    /\ UNCHANGED <<latest, payments, consented>>

-----------------------------------------------------------------------------
(* Negotiation: each event first verifies that it is PENDING. *)

VerifyPending(s, r) ==
    /\ apps[r.h].status # "NONE"
    /\ apps[r.h].neg = "PENDING"
    /\ Begin(s, r)
    /\ UNCHANGED hiringData

SendOfferRead(s, h, side, a) ==
    VerifyPending(s, [op |-> "offer", pc |-> "offer_write", h |-> h,
                      side |-> side, amount |-> a])

SaveOffer(s) ==
    /\ At(s, "offer_write")
    /\ LET r == req[s]
       IN  /\ latest' = [latest EXCEPT ![r.h] = [from |-> r.side, amount |-> r.amount]]
           /\ consented' = IF r.side = "customer" THEN consented \cup {r.amount}
                           ELSE consented
    /\ Finish(s)
    /\ UNCHANGED <<job, apps, payments>>

AcceptRead(s, h, side) ==
    VerifyPending(s, [op |-> "accept", pc |-> "accept_find", h |-> h, side |-> side])

\* Nobody accepts his own offer.
Acceptable_OwnToo(h, side) == latest[h] # NoOffer
Acceptable(h, side) == latest[h] # NoOffer /\ latest[h].from # side

AcceptFind(s) ==
    /\ At(s, "accept_find")
    /\ IF Acceptable(req[s].h, req[s].side)
       THEN Goto(s, [op |-> "accept", pc |-> "accept_tx", h |-> req[s].h,
                     side |-> req[s].side, amount |-> latest[req[s].h].amount])
       ELSE Finish(s)
    /\ UNCHANGED hiringData

\* Accepting the price selects the helper too, whatever the statuses of the
\* job and of the application are, and resets no earlier selection.
AcceptLatestOffer(s) ==
    /\ At(s, "accept_tx")
    /\ LET r == req[s]
       IN  /\ apps' = [apps EXCEPT ![r.h] = [status |-> "SELECTED", neg |-> "ACCEPTED",
                                             final |-> r.amount]]
           /\ job' = [job EXCEPT !.budget = r.amount, !.selected = r.h]
           /\ consented' = IF r.side = "customer" THEN consented \cup {r.amount}
                           ELSE consented
    /\ Finish(s)
    /\ UNCHANGED <<latest, payments>>

RejectOfferRead(s, h, side) ==
    VerifyPending(s, [op |-> "refuse", pc |-> "refuse_write", h |-> h, side |-> side])

RejectNegotiation(s) ==
    /\ At(s, "refuse_write")
    /\ apps' = [apps EXCEPT ![req[s].h].neg =
                  IF req[s].side = "customer" THEN "REJECTED" ELSE "CANCELLED"]
    /\ Finish(s)
    /\ UNCHANGED <<job, latest, payments, consented>>

-----------------------------------------------------------------------------
(* Checkout and payment *)

\* Of the job's payments one is looked at: a FUNDED one refuses the checkout, a
\* PENDING one is deleted.
CheckoutRead(s) ==
    /\ job.status = "OPEN"
    /\ job.selected # None
    /\ Begin(s, [op |-> "checkout", pc |-> "price_job", h |-> job.selected])
    /\ \/ /\ \A p \in PaymentIds : payments[p] = NoPayment
          /\ UNCHANGED payments
       \/ \E p \in PaymentIds :
             /\ payments[p].status = "PENDING"
             /\ payments' = [payments EXCEPT ![p] = NoPayment]
    /\ UNCHANGED <<job, apps, latest, consented>>

\* The payment is created with the price; the call to Stripe before it is left
\* to Escrow.
Charge(s, amount) ==
    /\ \E p \in PaymentIds :
         /\ payments[p] = NoPayment
         /\ payments' = [payments EXCEPT ![p] =
                           [status |-> "PENDING", helper |-> req[s].h, amount |-> amount]]
    /\ Finish(s)

\* resolveAgreedAmount: a fixed price is the budget.
PriceOfJob(s) ==
    /\ At(s, "price_job")
    /\ IF job.negotiable
       THEN /\ Goto(s, [op |-> "checkout", pc |-> "price_app", h |-> req[s].h,
                        budget |-> job.budget])
            /\ UNCHANGED payments
       ELSE Charge(s, job.budget)
    /\ UNCHANGED <<job, apps, latest, consented>>

\* A negotiated one must be accepted.
PriceOfApplication(s) ==
    /\ At(s, "price_app")
    /\ IF apps[req[s].h].neg = "ACCEPTED"
       THEN Charge(s, Or(apps[req[s].h].final, req[s].budget))
       ELSE Finish(s) /\ UNCHANGED payments
    /\ UNCHANGED <<job, apps, latest, consented>>

\* fulfillPayment, for a payment the customer made: the applications that are
\* still PENDING, the payee's excepted, are rejected.
FulfillPayment(p) ==
    /\ payments[p].status = "PENDING"
    /\ payments' = [payments EXCEPT ![p].status = "FUNDED"]
    /\ job' = [job EXCEPT !.status = "ASSIGNED"]
    /\ apps' = [h \in Helpers |->
                  IF h # payments[p].helper /\ apps[h].status = "PENDING"
                  THEN [apps[h] EXCEPT !.status = "REJECTED"] ELSE apps[h]]
    /\ AtOnce("fulfil")
    /\ UNCHANGED <<latest, consented>>

-----------------------------------------------------------------------------
HiringAbandon(s) == Stops(s) /\ UNCHANGED hiringData

HiringStep(s) ==
    \/ UpdateJob(s)
    \/ ApplyFind(s) \/ ApplyToJob(s)
    \/ SelectFind(s) \/ SelectHelper(s)
    \/ RejectFind(s) \/ RejectApplication(s)
    \/ SaveOffer(s) \/ AcceptFind(s) \/ AcceptLatestOffer(s) \/ RejectNegotiation(s)
    \/ PriceOfJob(s) \/ PriceOfApplication(s)

HiringRequest(s) ==
    \/ \E b \in Budgets \cup {None}, n \in BOOLEAN \cup {None} : UpdateRead(s, b, n)
    \/ \E h \in Helpers : ApplyRead(s, h) \/ SelectRead(s, h) \/ RejectRead(s, h)
    \/ \E h \in Helpers, side \in Sides :
         \/ \E a \in Offers : SendOfferRead(s, h, side, a)
         \/ AcceptRead(s, h, side)
         \/ RejectOfferRead(s, h, side)
    \/ CheckoutRead(s)

HiringNext ==
    \/ \E s \in Slots : HiringRequest(s) \/ HiringStep(s) \/ HiringAbandon(s)
    \/ \E h \in Helpers : WithdrawApplication(h) \/ AcceptApplication(h)
    \/ \E p \in PaymentIds : FulfillPayment(p)

HiringSpec == HiringInit /\ HandlersInit /\ [][HiringNext]_hiringVars

-----------------------------------------------------------------------------
(* Properties *)

\* Where a handler relies on an application it, or the one before it, has found.
Informed == {"select_tx", "reject_tx", "offer_write", "accept_find", "accept_tx",
             "refuse_write", "price_job", "price_app"}

\* Type invariant: the rows of schema.prisma stay rows, no handler that relies
\* on an application is left without it.
HiringTypeOK ==
    /\ job \in JobRows
    /\ apps \in [Helpers -> Applications]
    /\ latest \in [Helpers -> OfferRows \cup {NoOffer}]
    /\ payments \in [PaymentIds -> Payments \cup {NoPayment}]
    /\ consented \subseteq Amounts
    /\ \A s \in Slots : req[s].pc \in Informed => apps[req[s].h].status # "NONE"

\* Whoever negotiates, edits and selects at the same time, what the customer is
\* charged is an amount he posted, offered or accepted, and so is every price
\* on its way to a checkout (resolveAgreedAmount): no interleaving passes a
\* helper's unanswered offer off as the agreed price.
CustomerAgreedPrice ==
    /\ job.budget \in consented
    /\ \A h \in Helpers : apps[h].final \in consented \cup {None}
    /\ \A p \in PaymentIds : payments[p] # NoPayment => payments[p].amount \in consented

\* With rejectApplication kept apart from selectHelper and acceptLatestOffer, an
\* open job never points to a rejected application, whose helper the next
\* checkout would pay.
RejectedNotHired ==
    (/\ Apart({{"reject", "select"}, {"reject", "accept"}})
     /\ job.status = "OPEN" /\ job.selected # None)
        => apps[job.selected].status # "REJECTED"

\* The helpers whose payment is in escrow.
Payees == {payments[p].helper : p \in {q \in PaymentIds : payments[q].status = "FUNDED"}}

\* With applyToJob and selectHelper kept apart from fulfillPayment, an assigned
\* job has no application left PENDING but the payee's: every other applicant
\* knows where he stands.
NoneLeftPending ==
    (Apart({{"apply", "fulfil"}, {"select", "fulfil"}}) /\ job.status = "ASSIGNED")
        => \A h \in Helpers \ Payees : apps[h].status # "PENDING"
=============================================================================
