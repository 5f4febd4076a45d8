---------------------------- MODULE HiringProofs ----------------------------
(***************************************************************************)
(* What Hiring guarantees for every set of helpers, prices, payments and   *)
(* slots: type correctness and CustomerAgreedPrice whatever overlaps and   *)
(* stops, RejectedNotHired and NoneLeftPending under their locks.          *)
(*                                                                         *)
(* A handler in flight will write what it has read, so none of them is     *)
(* inductive.  Sound says what each handler still has right, given the     *)
(* amounts consented to and the applications; both only grow, which is why *)
(* no step of another handler takes it away.                               *)
(***************************************************************************)
EXTENDS Hiring, TLAPS

Selecting == {"select_find", "select_tx"}
Rejecting == {"reject_find", "reject_tx"}
Applying  == {"apply_find", "apply_write"}
Accepting == {"accept_find", "accept_tx"}
OnHelper  == Selecting \cup Rejecting \cup Applying \cup Accepting
               \cup {"offer_write", "refuse_write", "price_job", "price_app"}

\* What a handler stopped at r.pc relies on, c being the amounts consented to
\* and a the applications.
Sound(r, c, a) ==
    /\ r.pc \in OnHelper => r.h \in Helpers
    /\ r.pc \in Informed => a[r.h].status # "NONE"
    /\ r.op = "select" <=> r.pc \in Selecting
    /\ r.op = "reject" <=> r.pc \in Rejecting
    /\ r.op = "apply" <=> r.pc \in Applying
    /\ r.op = "accept" <=> r.pc \in Accepting
    /\ r.pc = "update_tx" =>
         /\ r.h \in Helpers \cup {None}
         /\ r.budget \in Budgets \cup {None}
         /\ r.negotiable \in BOOLEAN \cup {None}
         /\ r.final \in Amounts \cup {None}
         /\ r.final \in c \cup {None, r.budget}
    /\ r.pc = "select_find" =>
         /\ r.before \in Helpers \cup {None}
         /\ r.budget \in Amounts \cap c
    /\ r.pc = "select_tx" =>
         /\ r.before \in Helpers \cup {None}
         /\ r.row \in Applications /\ r.row.status = "SELECTED"
         /\ r.row.final \in c
    /\ r.pc \in Rejecting =>
         r \in [op: {"reject"}, pc: Rejecting, h: Helpers, chosen: BOOLEAN]
    /\ r.pc \in {"offer_write", "accept_find", "accept_tx", "refuse_write"} => r.side \in Sides
    /\ r.pc \in {"offer_write", "accept_tx"} => r.amount \in Offers
    /\ (r.pc = "accept_tx" /\ r.side = "helper") => r.amount \in c
    /\ r.pc = "price_app" => r.budget \in Amounts \cap c

InFlight == \A s \in Slots : Sound(req[s], consented, apps)

\* The types, without what HiringTypeOK says of the handlers.
Rows ==
    /\ job \in JobRows
    /\ apps \in [Helpers -> Applications]
    /\ latest \in [Helpers -> OfferRows \cup {NoOffer}]
    /\ payments \in [PaymentIds -> Payments \cup {NoPayment}]
    /\ consented \subseteq Amounts
    /\ DOMAIN req = Slots

\* An offer of the customer's is one he consented to; a selected helper has an
\* application.
Offered ==
    /\ \A h \in Helpers : latest[h].from = "customer" => latest[h].amount \in consented
    /\ job.selected # None => apps[job.selected].status # "NONE"

Inv == Rows /\ Offered /\ CustomerAgreedPrice /\ InFlight

-----------------------------------------------------------------------------
(* Lemmas *)

\* Consent is not withdrawn and no application row disappears.
Growing(c, d, a, b) ==
    /\ c \subseteq d
    /\ \A h \in Helpers : a[h].status # "NONE" => b[h].status # "NONE"

LEMMA SoundStable ==
    ASSUME NEW r, NEW c, NEW d, NEW a, NEW b, Growing(c, d, a, b), Sound(r, c, a)
    PROVE  Sound(r, d, b)
BY DEF Sound, Growing, Informed, OnHelper, Selecting, Rejecting, Applying, Accepting

\* A step that moves the handler of slot s to r leaves all handlers sound.
LEMMA SlotStep ==
    ASSUME DOMAIN req = Slots, InFlight, NEW s \in Slots, NEW r,
           req' = [req EXCEPT ![s] = r],
           Growing(consented, consented', apps, apps'),
           Sound(r, consented', apps')
    PROVE  InFlight' /\ DOMAIN req' = Slots
<1>1. SUFFICES ASSUME NEW t \in Slots PROVE Sound(req'[t], consented', apps')
  BY DEF InFlight
<1>2. CASE t = s
  <2>1. req'[t] = r
    BY <1>2
  <2> QED BY <2>1
<1>3. CASE t # s
  <2>1. req'[t] = req[t]
    BY <1>3
  <2>2. Sound(req[t], consented, apps)
    BY DEF InFlight
  <2> QED BY <2>1, <2>2, SoundStable
<1> QED BY <1>2, <1>3

\* A step of no handler, likewise.
LEMMA NoSlotStep ==
    ASSUME DOMAIN req = Slots, InFlight, req' = req,
           Growing(consented, consented', apps, apps')
    PROVE  InFlight' /\ DOMAIN req' = Slots
BY SoundStable DEF InFlight

LEMMA IdleSound == ASSUME NEW c, NEW a PROVE Sound(Idle, c, a)
BY DEF Sound, Idle, Informed, OnHelper, Selecting, Rejecting, Applying, Accepting

LEMMA NothingNew == Growing(consented, consented, apps, apps)
BY DEF Growing

\* A look-up changes nothing but its handler.
LEMMA ReadStep ==
    ASSUME Inv, UNCHANGED hiringData, NEW s \in Slots, NEW r,
           req' = [req EXCEPT ![s] = r], Sound(r, consented, apps)
    PROVE  Inv'
<1>1. InFlight' /\ DOMAIN req' = Slots
  BY SlotStep, NothingNew DEF Inv, Rows, hiringData
<1>2. (Rows /\ Offered /\ CustomerAgreedPrice)'
  BY <1>1 DEF Inv, Rows, Offered, CustomerAgreedPrice, hiringData
<1> QED BY <1>1, <1>2 DEF Inv

\* A write ends its handler, or belongs to none.
LEMMA WriteStep ==
    ASSUME Inv, Rows', Offered', CustomerAgreedPrice',
           Growing(consented, consented', apps, apps'),
           req' = req \/ \E s \in Slots : req' = [req EXCEPT ![s] = Idle]
    PROVE  Inv'
<1>1. CASE req' = req
  BY <1>1, NoSlotStep DEF Inv, Rows
<1>2. CASE \E s \in Slots : req' = [req EXCEPT ![s] = Idle]
  BY <1>2, SlotStep, IdleSound DEF Inv, Rows
<1> QED BY <1>1, <1>2

LEMMA InitInv == HiringInit /\ HandlersInit => Inv
<1> SUFFICES ASSUME HiringInit, HandlersInit PROVE Inv
  OBVIOUS
<1> USE HiringAssumption
<1>1. Rows
  BY DEF Rows, HiringInit, HandlersInit, JobRows, Amounts, Applications, NoApplication,
         AppStatuses, NegStatuses
<1>2. Offered
  BY DEF Offered, HiringInit, NoOffer
<1>3. CustomerAgreedPrice
  BY DEF CustomerAgreedPrice, HiringInit, NoApplication
<1>4. InFlight
  BY IdleSound DEF InFlight, HandlersInit
<1> QED BY <1>1, <1>2, <1>3, <1>4 DEF Inv

-----------------------------------------------------------------------------
(* The steps that read *)

LEMMA UpdateReads ==
    ASSUME Inv, NEW s \in Slots, NEW b \in Budgets \cup {None}, NEW n \in BOOLEAN \cup {None},
           UpdateRead(s, b, n)
    PROVE  Inv'
<1> DEFINE opens == Or(n, job.negotiable) /\ job.selected # None
           r == [op |-> "update", pc |-> "update_tx", budget |-> b, negotiable |-> n,
                 h     |-> IF opens THEN job.selected ELSE None,
                 final |-> IF opens THEN Or(b, job.budget) ELSE None]
<1>1. req' = [req EXCEPT ![s] = r] /\ UNCHANGED hiringData
  BY DEF UpdateRead, Begin
<1>2. job \in JobRows /\ job.budget \in consented
  BY DEF Inv, Rows, CustomerAgreedPrice
<1>3. r.h \in Helpers \cup {None}
  BY <1>2 DEF JobRows
<1>4. r.final \in Amounts \cup {None} /\ r.final \in consented \cup {None, b}
  BY <1>2 DEF JobRows, Or, Amounts
<1>5. r.op = "update" /\ r.pc = "update_tx" /\ r.budget = b /\ r.negotiable = n
  OBVIOUS
<1> HIDE DEF r
<1>6. Sound(r, consented, apps)
  BY <1>3, <1>4, <1>5 DEF Sound, Informed, OnHelper, Selecting, Rejecting, Applying, Accepting
<1> QED BY <1>1, <1>6, ReadStep

\* What a read handler was before it moves on.
LEMMA SoundAt == ASSUME Inv, NEW s \in Slots PROVE Sound(req[s], consented, apps)
BY DEF Inv, InFlight

LEMMA ApplyReads ==
    ASSUME Inv, NEW s \in Slots,
           (\E h \in Helpers : ApplyRead(s, h)) \/ ApplyFind(s)
    PROVE  Inv'
<1> USE DEF Sound, Informed, OnHelper, Selecting, Rejecting, Applying, Accepting
<1>1. ASSUME NEW h \in Helpers, ApplyRead(s, h) PROVE Inv'
  <2> DEFINE r == [op |-> "apply", pc |-> "apply_find", h |-> h]
  <2>1. Sound(r, consented, apps)
    OBVIOUS
  <2>2. req' = [req EXCEPT ![s] = r] /\ UNCHANGED hiringData
    BY <1>1 DEF ApplyRead, Begin
  <2> HIDE DEF r, Sound
  <2> QED BY <2>1, <2>2, ReadStep
<1>2. ASSUME ApplyFind(s) PROVE Inv'
  <2> DEFINE r == [op |-> "apply", pc |-> "apply_write", h |-> req[s].h,
                   new |-> apps[req[s].h].status = "NONE"]
  <2>1. Sound(r, consented, apps)
    BY <1>2, SoundAt DEF ApplyFind, At
  <2>2. UNCHANGED hiringData /\ (req' = [req EXCEPT ![s] = r] \/ req' = [req EXCEPT ![s] = Idle])
    BY <1>2 DEF ApplyFind, Goto, Finish
  <2> HIDE DEF r, Sound
  <2> QED BY <2>1, <2>2, ReadStep, IdleSound
<1> QED BY <1>1, <1>2

LEMMA SelectReads ==
    ASSUME Inv, NEW s \in Slots,
           (\E h \in Helpers : SelectRead(s, h)) \/ SelectFind(s)
    PROVE  Inv'
<1> USE DEF Sound, Informed, OnHelper, Selecting, Rejecting, Applying, Accepting
<1>1. ASSUME NEW h \in Helpers, SelectRead(s, h) PROVE Inv'
  <2> DEFINE r == [op |-> "select", pc |-> "select_find", h |-> h, before |-> job.selected,
                   negotiable |-> job.negotiable, budget |-> job.budget]
  <2>1. Sound(r, consented, apps)
    BY DEF Inv, Rows, CustomerAgreedPrice, JobRows
  <2> QED BY <1>1, <2>1, ReadStep DEF SelectRead, Begin
<1>2. ASSUME SelectFind(s) PROVE Inv'
  <2> DEFINE q == req[s]
             app == apps[q.h]
             row == [status |-> "SELECTED",
                     neg |-> IF app.neg = "ACCEPTED" \/ q.negotiable
                             THEN "ACCEPTED" ELSE "NULL",
                     final |-> Or(app.final, q.budget)]
             r == [op |-> "select", pc |-> "select_tx", h |-> q.h, before |-> q.before,
                   row |-> row]
  <2>1. /\ UNCHANGED hiringData
        /\ \/ req' = [req EXCEPT ![s] = Idle]
           \/ /\ req' = [req EXCEPT ![s] = r]
              /\ app.status \in {"PENDING", "SELECTED"}
    BY <1>2 DEF SelectFind, Goto, Finish
  <2>2. /\ q.h \in Helpers /\ q.before \in Helpers \cup {None}
        /\ q.budget \in Amounts /\ q.budget \in consented
    BY <1>2, SoundAt DEF SelectFind, At
  <2>3. app \in Applications /\ app.final \in consented \cup {None}
    BY <2>2 DEF Inv, Rows, CustomerAgreedPrice
  <2>4. row.final \in consented /\ row.final \in Amounts
    BY <2>2, <2>3 DEF Or, Applications
  <2>5. row \in Applications /\ row.status = "SELECTED"
    BY <2>4 DEF Applications, AppStatuses, NegStatuses
  <2>6. CASE app.status \in {"PENDING", "SELECTED"}
    <3>1. r.h = q.h /\ r.op = "select" /\ r.pc = "select_tx" /\ r.before = q.before /\ r.row = row
      OBVIOUS
    <3> HIDE DEF r, row
    <3>2. Sound(r, consented, apps)
      BY <2>2, <2>4, <2>5, <2>6, <3>1
    <3> HIDE DEF Sound
    <3> QED BY <2>1, <3>2, ReadStep, IdleSound
  <2>7. CASE app.status \notin {"PENDING", "SELECTED"}
    <3> HIDE DEF Sound, r
    <3> QED BY <2>1, <2>7, ReadStep, IdleSound
  <2> QED BY <2>6, <2>7
<1> QED BY <1>1, <1>2

LEMMA RejectReads ==
    ASSUME Inv, NEW s \in Slots,
           (\E h \in Helpers : RejectRead(s, h)) \/ RejectFind(s)
    PROVE  Inv'
<1> USE DEF Sound, Informed, OnHelper, Selecting, Rejecting, Applying, Accepting
<1>1. ASSUME NEW h \in Helpers, RejectRead(s, h) PROVE Inv'
  <2> DEFINE r == [op |-> "reject", pc |-> "reject_find", h |-> h, chosen |-> job.selected = h]
  <2>1. Sound(r, consented, apps)
    OBVIOUS
  <2> QED BY <1>1, <2>1, ReadStep DEF RejectRead, Begin
<1>2. ASSUME RejectFind(s) PROVE Inv'
  <2> DEFINE r == [req[s] EXCEPT !.pc = "reject_tx"]
  <2>1. /\ UNCHANGED hiringData
        /\ \/ req' = [req EXCEPT ![s] = Idle]
           \/ /\ req' = [req EXCEPT ![s] = r]
              /\ apps[req[s].h].status \in {"PENDING", "SELECTED"}
    BY <1>2 DEF RejectFind, Goto, Finish
  <2>2. req[s] \in [op: {"reject"}, pc: Rejecting, h: Helpers, chosen: BOOLEAN]
    BY <1>2, SoundAt DEF RejectFind, At
  <2>3. CASE apps[req[s].h].status \in {"PENDING", "SELECTED"}
    <3>1. Sound(r, consented, apps)
      BY <2>2, <2>3
    <3> HIDE DEF r, Sound
    <3> QED BY <2>1, <3>1, ReadStep, IdleSound
  <2>4. CASE apps[req[s].h].status \notin {"PENDING", "SELECTED"}
    <3> HIDE DEF Sound, r
    <3> QED BY <2>1, <2>4, ReadStep, IdleSound
  <2> QED BY <2>3, <2>4
<1> QED BY <1>1, <1>2

LEMMA NegotiationReads ==
    ASSUME Inv, NEW s \in Slots, NEW h \in Helpers, NEW side \in Sides,
           \/ \E a \in Offers : SendOfferRead(s, h, side, a)
           \/ AcceptRead(s, h, side)
           \/ RejectOfferRead(s, h, side)
    PROVE  Inv'
<1> PICK r : /\ UNCHANGED hiringData /\ req' = [req EXCEPT ![s] = r]
             /\ apps[h].status # "NONE"
             /\ \/ \E a \in Offers : r = [op |-> "offer", pc |-> "offer_write", h |-> h,
                                          side |-> side, amount |-> a]
                \/ r = [op |-> "accept", pc |-> "accept_find", h |-> h, side |-> side]
                \/ r = [op |-> "refuse", pc |-> "refuse_write", h |-> h, side |-> side]
  BY DEF SendOfferRead, AcceptRead, RejectOfferRead, VerifyPending, Begin
<1>1. Sound(r, consented, apps)
  BY DEF Sound, Informed, OnHelper, Selecting, Rejecting, Applying, Accepting
<1> QED BY <1>1, ReadStep

\* An offer of the customer's that the helper accepts was consented to.
LEMMA AcceptFinds == ASSUME Inv, NEW s \in Slots, AcceptFind(s) PROVE Inv'
<1> DEFINE q == req[s]
           r == [op |-> "accept", pc |-> "accept_tx", h |-> q.h, side |-> q.side,
                 amount |-> latest[q.h].amount]
<1>1. q.pc = "accept_find" /\ UNCHANGED hiringData
  BY DEF AcceptFind, At
<1>2. q.h \in Helpers /\ q.side \in Sides /\ apps[q.h].status # "NONE"
  BY <1>1, SoundAt DEF Sound, Informed, OnHelper, Accepting
<1>3. CASE Acceptable(q.h, q.side)
  <2>1. req' = [req EXCEPT ![s] = r]
    BY <1>3 DEF AcceptFind, Goto
  <2>2. latest[q.h] \in OfferRows /\ latest[q.h].from # q.side
    BY <1>2, <1>3 DEF Acceptable, Inv, Rows
  <2>3. r.amount \in Offers /\ (q.side = "helper" => r.amount \in consented)
    BY <1>2, <2>2 DEF OfferRows, Sides, Inv, Offered
  <2>4. r.op = "accept" /\ r.pc = "accept_tx" /\ r.h = q.h /\ r.side = q.side
    OBVIOUS
  <2> HIDE DEF r
  <2>5. Sound(r, consented, apps)
    BY <1>2, <2>3, <2>4
    DEF Sound, Informed, OnHelper, Selecting, Rejecting, Applying, Accepting
  <2> QED BY <1>1, <2>1, <2>5, ReadStep
<1>4. CASE ~Acceptable(q.h, q.side)
  <2>1. req' = [req EXCEPT ![s] = Idle]
    BY <1>4 DEF AcceptFind, Goto, Finish
  <2> QED BY <1>1, <2>1, ReadStep, IdleSound
<1> QED BY <1>3, <1>4

-----------------------------------------------------------------------------
(* The checkout *)

\* A checkout leaves the job, the applications and the offers alone; the
\* payments rows it leaves are consented to.
LEMMA PaymentStep ==
    ASSUME Inv, UNCHANGED <<job, apps, latest, consented>>,
           payments' \in [PaymentIds -> Payments \cup {NoPayment}],
           \A p \in PaymentIds : payments'[p] # NoPayment => payments'[p].amount \in consented,
           NEW s \in Slots, NEW r,
           req' = [req EXCEPT ![s] = r], Sound(r, consented, apps)
    PROVE  Inv'
<1>1. InFlight' /\ DOMAIN req' = Slots
  BY SlotStep, NothingNew DEF Inv, Rows
<1>2. Rows'
  BY <1>1 DEF Inv, Rows
<1>3. Offered' /\ CustomerAgreedPrice'
  BY DEF Inv, Offered, CustomerAgreedPrice
<1> QED BY <1>1, <1>2, <1>3 DEF Inv

LEMMA CheckoutReads == ASSUME Inv, NEW s \in Slots, CheckoutRead(s) PROVE Inv'
<1> DEFINE r == [op |-> "checkout", pc |-> "price_job", h |-> job.selected]
<1>1. req' = [req EXCEPT ![s] = r] /\ UNCHANGED <<job, apps, latest, consented>>
  BY DEF CheckoutRead, Begin
<1>2. r.h \in Helpers /\ apps[r.h].status # "NONE"
  BY DEF CheckoutRead, Inv, Rows, Offered, JobRows
<1>3. Sound(r, consented, apps)
  BY <1>2 DEF Sound, Informed, OnHelper, Selecting, Rejecting, Applying, Accepting
<1>4. \/ payments' = payments
      \/ \E p \in PaymentIds : /\ payments[p].status = "PENDING"
                               /\ payments' = [payments EXCEPT ![p] = NoPayment]
  BY Zenon DEF CheckoutRead
<1>5. /\ payments' \in [PaymentIds -> Payments \cup {NoPayment}]
      /\ \A p \in PaymentIds : payments'[p] # NoPayment => payments'[p].amount \in consented
  BY <1>4 DEF Inv, Rows, CustomerAgreedPrice
<1> HIDE DEF r
<1> QED BY <1>1, <1>3, <1>5, PaymentStep

\* A charge of an amount consented to.
LEMMA Charges ==
    ASSUME Inv, NEW s \in Slots, NEW amount \in Amounts, amount \in consented,
           req[s].h \in Helpers, Charge(s, amount), UNCHANGED <<job, apps, latest, consented>>
    PROVE  Inv'
<1> PICK p \in PaymentIds :
      payments' = [payments EXCEPT ![p] =
                     [status |-> "PENDING", helper |-> req[s].h, amount |-> amount]]
  BY DEF Charge
<1>1. req' = [req EXCEPT ![s] = Idle]
  BY DEF Charge, Finish, Goto
<1>2. payments' \in [PaymentIds -> Payments \cup {NoPayment}]
  BY DEF Inv, Rows, Payments
<1>3. \A q \in PaymentIds : payments'[q] # NoPayment => payments'[q].amount \in consented
  BY DEF Inv, Rows, CustomerAgreedPrice
<1> QED BY <1>1, <1>2, <1>3, PaymentStep, IdleSound

LEMMA Pricing ==
    ASSUME Inv, NEW s \in Slots, PriceOfJob(s) \/ PriceOfApplication(s)
    PROVE  Inv'
<1> DEFINE q == req[s]
<1>1. q.pc \in {"price_job", "price_app"} /\ UNCHANGED <<job, apps, latest, consented>>
  BY DEF PriceOfJob, PriceOfApplication, At
<1>2. q.h \in Helpers /\ apps[q.h].status # "NONE"
  BY <1>1, SoundAt DEF Sound, Informed, OnHelper
<1>3. CASE PriceOfJob(s)
  <2> DEFINE r == [op |-> "checkout", pc |-> "price_app", h |-> q.h, budget |-> job.budget]
  <2>1. job.budget \in Amounts /\ job.budget \in consented
    BY DEF Inv, Rows, CustomerAgreedPrice, JobRows
  <2>2. CASE job.negotiable
    <3>1. req' = [req EXCEPT ![s] = r] /\ UNCHANGED hiringData
      BY <1>3, <2>2 DEF PriceOfJob, Goto, hiringData
    <3>2. Sound(r, consented, apps)
      BY <1>2, <2>1
      DEF Sound, Informed, OnHelper, Selecting, Rejecting, Applying, Accepting
    <3> HIDE DEF r
    <3> QED BY <3>1, <3>2, ReadStep
  <2>3. CASE ~job.negotiable
    <3>1. Charge(s, job.budget)
      BY <1>3, <2>3 DEF PriceOfJob
    <3> QED BY <1>1, <1>2, <2>1, <3>1, Charges
  <2> QED BY <2>2, <2>3
<1>4. CASE PriceOfApplication(s)
  <2>1. q.budget \in Amounts /\ q.budget \in consented
    BY <1>4, SoundAt DEF Sound, PriceOfApplication, At
  <2>2. Or(apps[q.h].final, q.budget) \in Amounts \cap consented
    BY <1>2, <2>1 DEF Or, Inv, Rows, CustomerAgreedPrice, Applications
  <2>3. CASE apps[q.h].neg = "ACCEPTED"
    <3>1. Charge(s, Or(apps[q.h].final, q.budget))
      BY <1>4, <2>3 DEF PriceOfApplication
    <3> QED BY <1>1, <1>2, <2>2, <3>1, Charges
  <2>4. CASE apps[q.h].neg # "ACCEPTED"
    <3>1. req' = [req EXCEPT ![s] = Idle] /\ UNCHANGED hiringData
      BY <1>4, <2>4 DEF PriceOfApplication, Finish, Goto, hiringData
    <3> QED BY <3>1, ReadStep, IdleSound
  <2> QED BY <2>3, <2>4
<1> QED BY <1>3, <1>4

-----------------------------------------------------------------------------
(* The steps that write *)

LEMMA UpdateWrites == ASSUME Inv, NEW s \in Slots, UpdateJob(s) PROVE Inv'
<1> USE DEF Inv
<1> DEFINE r == req[s]
<1>1. /\ r.h \in Helpers \cup {None} /\ r.budget \in Budgets \cup {None}
      /\ r.negotiable \in BOOLEAN \cup {None} /\ r.final \in Amounts \cup {None}
      /\ r.final \in consented \cup {None, r.budget}
  BY SoundAt DEF UpdateJob, At, Sound
<1>2. /\ consented' = consented \cup ({r.budget} \ {None})
      /\ job' = [job EXCEPT !.budget = Or(r.budget, @), !.negotiable = Or(r.negotiable, @)]
      /\ \/ apps' = apps
         \/ /\ r.h \in Helpers
            /\ apps' = [apps EXCEPT ![r.h] = [@ EXCEPT !.neg = "PENDING", !.final = r.final]]
      /\ UNCHANGED <<latest, payments>> /\ req' = [req EXCEPT ![s] = Idle]
  BY <1>1 DEF UpdateJob, Finish, Goto
<1> HIDE DEF r
<1>3. job' \in JobRows /\ job'.budget \in consented' /\ job'.selected = job.selected
  BY <1>1, <1>2 DEF Rows, JobRows, Or, Amounts, CustomerAgreedPrice
<1>4. /\ apps' \in [Helpers -> Applications]
      /\ \A h \in Helpers : apps'[h].status = apps[h].status
      /\ \A h \in Helpers : apps'[h].final \in consented' \cup {None}
  <2>1. r.final \in consented' \cup {None} /\ consented \subseteq consented'
    BY <1>1, <1>2
  <2>2. \A h \in Helpers : /\ apps[h] \in Applications
                           /\ apps[h].final \in consented \cup {None}
    BY DEF Rows, CustomerAgreedPrice
  <2>3. CASE apps' = apps
    BY <2>1, <2>2, <2>3 DEF Rows
  <2>4. CASE /\ r.h \in Helpers
             /\ apps' = [apps EXCEPT ![r.h] = [@ EXCEPT !.neg = "PENDING", !.final = r.final]]
    <3> DEFINE row == [apps[r.h] EXCEPT !.neg = "PENDING", !.final = r.final]
    <3>1. row \in Applications /\ row.status = apps[r.h].status /\ row.final = r.final
      BY <1>1, <2>2, <2>4 DEF Applications, NegStatuses
    <3>2. apps' = [apps EXCEPT ![r.h] = row]
      BY <2>4
    <3> HIDE DEF row
    <3> QED BY <2>1, <2>2, <2>4, <3>1, <3>2 DEF Rows
  <2> QED BY <1>2, <2>3, <2>4
<1>5. Rows'
  BY <1>1, <1>2, <1>3, <1>4 DEF Rows, Amounts
<1>6. Offered'
  BY <1>2, <1>3, <1>4 DEF Rows, JobRows, Offered
<1>7. CustomerAgreedPrice'
  BY <1>2, <1>3, <1>4 DEF CustomerAgreedPrice
<1>8. Growing(consented, consented', apps, apps')
  BY <1>2, <1>4 DEF Growing
<1> QED BY <1>2, <1>5, <1>6, <1>7, <1>8, WriteStep

\* A write of one application, with a status other than NONE and a price that
\* was there or is consented to.
LEMMA ApplicationStep ==
    ASSUME Inv, NEW h \in Helpers, NEW row \in Applications, row.status # "NONE",
           row.final \in consented \cup {None},
           apps' = [apps EXCEPT ![h] = row],
           UNCHANGED <<latest, payments, consented>>,
           job' \in JobRows, job'.budget = job.budget, job'.selected \in {job.selected, None, h},
           req' = req \/ \E s \in Slots : req' = [req EXCEPT ![s] = Idle]
    PROVE  Inv'
<1> USE DEF Inv
<1>1. Rows'
  BY DEF Rows
<1>2. Offered'
  BY DEF Rows, Offered
<1>3. CustomerAgreedPrice'
  BY DEF Rows, CustomerAgreedPrice
<1>4. Growing(consented, consented', apps, apps')
  BY DEF Rows, Growing
<1> QED BY <1>1, <1>2, <1>3, <1>4, WriteStep

LEMMA ApplicationWrites ==
    ASSUME Inv,
           \/ \E s \in Slots : ApplyToJob(s) \/ RejectApplication(s) \/ RejectNegotiation(s)
           \/ \E h \in Helpers : WithdrawApplication(h) \/ AcceptApplication(h)
    PROVE  Inv'
<1>1. \A h \in Helpers : apps[h] \in Applications /\ apps[h].final \in consented \cup {None}
  BY DEF Inv, Rows, CustomerAgreedPrice
<1>2. job \in JobRows /\ job.selected \in Helpers \cup {None}
  BY DEF Inv, Rows, JobRows
<1>3. ASSUME NEW s \in Slots, ApplyToJob(s) PROVE Inv'
  <2> DEFINE h == req[s].h
  <2>1. h \in Helpers
    BY <1>3, SoundAt DEF ApplyToJob, At, Sound, OnHelper, Applying
  <2>2. req' = [req EXCEPT ![s] = Idle] /\ UNCHANGED <<job, latest, payments, consented>>
    BY <1>3 DEF ApplyToJob, Finish, Goto
  <2>3. CASE apps' = apps
    BY <2>2, <2>3, IdleSound, ReadStep DEF hiringData
  <2>4. CASE apps' = [apps EXCEPT ![h] = [apps[h] EXCEPT !.status = "PENDING"]]
    <3> DEFINE row == [apps[h] EXCEPT !.status = "PENDING"]
    <3>1. row \in Applications /\ row.status # "NONE" /\ row.final \in consented \cup {None}
      BY <1>1, <2>1 DEF Applications, AppStatuses
    <3> HIDE DEF row
    <3> QED BY <1>2, <2>1, <2>2, <2>4, <3>1, ApplicationStep DEF row
  <2>5. apps' = apps \/ apps' = [apps EXCEPT ![h] = [apps[h] EXCEPT !.status = "PENDING"]]
    BY <1>3 DEF ApplyToJob
  <2> QED BY <2>3, <2>4, <2>5
<1>4. ASSUME NEW s \in Slots, RejectApplication(s) PROVE Inv'
  <2> DEFINE h == req[s].h
             row == [apps[h] EXCEPT !.status = "REJECTED"]
  <2>1. h \in Helpers
    BY <1>4, SoundAt DEF RejectApplication, At, Sound, OnHelper, Rejecting
  <2>2. /\ req' = [req EXCEPT ![s] = Idle] /\ UNCHANGED <<latest, payments, consented>>
        /\ apps' = [apps EXCEPT ![h] = row]
        /\ job' = job \/ job' = [job EXCEPT !.selected = None]
    BY <1>4 DEF RejectApplication, Finish, Goto
  <2>3. job' \in JobRows /\ job'.budget = job.budget /\ job'.selected \in {job.selected, None}
    BY <2>2, <1>2 DEF JobRows
  <2>4. row \in Applications /\ row.status # "NONE" /\ row.final \in consented \cup {None}
    BY <1>1, <2>1 DEF Applications, AppStatuses
  <2> HIDE DEF row
  <2> QED BY <2>1, <2>2, <2>3, <2>4, ApplicationStep
<1>5. ASSUME NEW s \in Slots, RejectNegotiation(s) PROVE Inv'
  <2> DEFINE h == req[s].h
             row == [apps[h] EXCEPT !.neg = IF req[s].side = "customer" THEN "REJECTED"
                                            ELSE "CANCELLED"]
  <2>1. h \in Helpers /\ apps[h].status # "NONE"
    BY <1>5, SoundAt DEF RejectNegotiation, At, Sound, OnHelper, Informed
  <2>2. /\ req' = [req EXCEPT ![s] = Idle] /\ UNCHANGED <<job, latest, payments, consented>>
        /\ apps' = [apps EXCEPT ![h] = row]
    BY <1>5 DEF RejectNegotiation, Finish, Goto
  <2>3. row \in Applications /\ row.status # "NONE" /\ row.final \in consented \cup {None}
    BY <1>1, <2>1 DEF Applications, NegStatuses
  <2> HIDE DEF row
  <2> QED BY <1>2, <2>1, <2>2, <2>3, ApplicationStep
<1>6. ASSUME NEW h \in Helpers, WithdrawApplication(h) PROVE Inv'
  <2> DEFINE row == [apps[h] EXCEPT !.status = "WITHDRAWN"]
  <2>1. row \in Applications /\ row.status # "NONE" /\ row.final \in consented \cup {None}
    BY <1>1 DEF Applications, AppStatuses
  <2>2. apps' = [apps EXCEPT ![h] = row] /\ UNCHANGED <<job, latest, payments, consented, req>>
    BY <1>6 DEF WithdrawApplication, AtOnce
  <2> HIDE DEF row
  <2> QED BY <1>2, <2>1, <2>2, ApplicationStep
<1>7. ASSUME NEW h \in Helpers, AcceptApplication(h) PROVE Inv'
  <2> DEFINE row == [apps[h] EXCEPT !.neg = "PENDING"]
  <2>1. row \in Applications /\ row.status # "NONE" /\ row.final \in consented \cup {None}
    BY <1>1, <1>7 DEF AcceptApplication, Applications, NegStatuses
  <2>2. apps' = [apps EXCEPT ![h] = row] /\ UNCHANGED <<job, latest, payments, consented, req>>
    BY <1>7 DEF AcceptApplication, AtOnce
  <2> HIDE DEF row
  <2> QED BY <1>2, <2>1, <2>2, ApplicationStep
<1> QED BY <1>3, <1>4, <1>5, <1>6, <1>7

LEMMA SelectWrites == ASSUME Inv, NEW s \in Slots, SelectHelper(s) PROVE Inv'
<1> DEFINE r == req[s]
<1>1. /\ r.h \in Helpers /\ r.before \in Helpers \cup {None}
      /\ r.row \in Applications /\ r.row.status = "SELECTED" /\ r.row.final \in consented
  BY SoundAt DEF SelectHelper, At, Sound, OnHelper, Selecting
<1>2. /\ apps' = [h \in Helpers |->
                    IF h = r.h THEN r.row
                    ELSE IF h = r.before THEN [apps[h] EXCEPT !.status = "PENDING"]
                    ELSE apps[h]]
      /\ job' = [job EXCEPT !.selected = r.h]
      /\ UNCHANGED <<latest, payments, consented>> /\ req' = [req EXCEPT ![s] = Idle]
  BY DEF SelectHelper, Finish, Goto
<1> HIDE DEF r
<1>3. \A h \in Helpers : /\ apps[h] \in Applications
                         /\ apps[h].final \in consented \cup {None}
  BY DEF Inv, Rows, CustomerAgreedPrice
<1>4. \A h \in Helpers : /\ apps'[h] \in Applications
                         /\ apps'[h].final \in consented \cup {None}
                         /\ apps[h].status # "NONE" => apps'[h].status # "NONE"
  BY <1>1, <1>2, <1>3 DEF Applications, AppStatuses
<1>5. job' \in JobRows /\ job'.selected = r.h /\ job'.budget = job.budget
  BY <1>1, <1>2 DEF Inv, Rows, JobRows
<1>6. Rows'
  BY <1>2, <1>4, <1>5 DEF Inv, Rows
<1>7. Offered'
  BY <1>1, <1>2, <1>5 DEF Inv, Offered
<1>8. CustomerAgreedPrice'
  <2>1. UNCHANGED <<payments, consented>> /\ CustomerAgreedPrice
    BY <1>2 DEF Inv
  <2> QED BY <1>4, <1>5, <2>1 DEF CustomerAgreedPrice
<1>9. Growing(consented, consented', apps, apps')
  BY <1>2, <1>4 DEF Growing
<1> QED BY <1>2, <1>6, <1>7, <1>8, <1>9, WriteStep

LEMMA OfferWrites == ASSUME Inv, NEW s \in Slots, SaveOffer(s) PROVE Inv'
<1> DEFINE r == req[s]
<1>1. r.h \in Helpers /\ r.side \in Sides /\ r.amount \in Offers
  BY SoundAt DEF SaveOffer, At, Sound, OnHelper
<1>2. /\ latest' = [latest EXCEPT ![r.h] = [from |-> r.side, amount |-> r.amount]]
      /\ consented' = IF r.side = "customer" THEN consented \cup {r.amount} ELSE consented
      /\ UNCHANGED <<job, apps, payments>> /\ req' = [req EXCEPT ![s] = Idle]
  BY DEF SaveOffer, Finish, Goto
<1> HIDE DEF r
<1>3. consented \subseteq consented' /\ (r.side = "customer" => r.amount \in consented')
  BY <1>2
<1>4. Rows'
  BY <1>1, <1>2 DEF Inv, Rows, Amounts, OfferRows
<1>5. Offered'
  BY <1>1, <1>2, <1>3 DEF Inv, Rows, Offered
<1>6. CustomerAgreedPrice'
  <2>1. UNCHANGED <<job, apps, payments>> /\ CustomerAgreedPrice
    BY <1>2 DEF Inv
  <2> QED BY <1>3, <2>1 DEF CustomerAgreedPrice
<1>7. Growing(consented, consented', apps, apps')
  BY <1>2, <1>3 DEF Growing
<1> QED BY <1>2, <1>4, <1>5, <1>6, <1>7, WriteStep

\* Accepting an offer consents to it, or it was the customer's.
LEMMA AcceptWrites == ASSUME Inv, NEW s \in Slots, AcceptLatestOffer(s) PROVE Inv'
<1> DEFINE r == req[s]
<1>1. /\ r.h \in Helpers /\ r.side \in Sides /\ r.amount \in Offers
      /\ r.side = "helper" => r.amount \in consented
  BY SoundAt DEF AcceptLatestOffer, At, Sound, OnHelper, Accepting
<1>2. /\ apps' = [apps EXCEPT ![r.h] = [status |-> "SELECTED", neg |-> "ACCEPTED",
                                        final |-> r.amount]]
      /\ job' = [job EXCEPT !.budget = r.amount, !.selected = r.h]
      /\ consented' = IF r.side = "customer" THEN consented \cup {r.amount} ELSE consented
      /\ UNCHANGED <<latest, payments>> /\ req' = [req EXCEPT ![s] = Idle]
  BY DEF AcceptLatestOffer, Finish, Goto
<1> HIDE DEF r
<1>3. consented \subseteq consented' /\ r.amount \in consented'
  BY <1>1, <1>2 DEF Sides
<1>4. job' \in JobRows /\ job'.budget = r.amount /\ job'.selected = r.h
  BY <1>1, <1>2 DEF Inv, Rows, JobRows, Amounts
<1>5. /\ apps' \in [Helpers -> Applications] /\ apps'[r.h].status = "SELECTED"
      /\ \A h \in Helpers : apps'[h].final \in consented' \cup {None}
  BY <1>1, <1>2, <1>3
  DEF Inv, Rows, CustomerAgreedPrice, Applications, AppStatuses, NegStatuses, Amounts
<1>6. Rows'
  BY <1>1, <1>2, <1>4, <1>5 DEF Inv, Rows, Amounts
<1>7. Offered'
  BY <1>1, <1>2, <1>3, <1>4, <1>5 DEF Inv, Offered
<1>8. CustomerAgreedPrice'
  BY <1>2, <1>3, <1>4, <1>5 DEF Inv, CustomerAgreedPrice
<1>9. Growing(consented, consented', apps, apps')
  BY <1>1, <1>2, <1>3 DEF Inv, Rows, Growing
<1> QED BY <1>2, <1>6, <1>7, <1>8, <1>9, WriteStep

LEMMA FulfilWrites == ASSUME Inv, NEW p \in PaymentIds, FulfillPayment(p) PROVE Inv'
<1>1. /\ payments[p].status = "PENDING"
      /\ payments' = [payments EXCEPT ![p].status = "FUNDED"]
      /\ job' = [job EXCEPT !.status = "ASSIGNED"]
      /\ apps' = [h \in Helpers |->
                    IF h # payments[p].helper /\ apps[h].status = "PENDING"
                    THEN [apps[h] EXCEPT !.status = "REJECTED"] ELSE apps[h]]
      /\ UNCHANGED <<latest, consented, req>>
  BY DEF FulfillPayment, AtOnce
<1>2. payments[p] \in Payments /\ payments[p].amount \in consented
  BY <1>1 DEF Inv, Rows, NoPayment, CustomerAgreedPrice
<1>3. /\ payments' \in [PaymentIds -> Payments \cup {NoPayment}]
      /\ \A q \in PaymentIds : payments'[q] # NoPayment => payments'[q].amount \in consented
  BY <1>1, <1>2 DEF Inv, Rows, Payments, CustomerAgreedPrice
<1>4. \A h \in Helpers : /\ apps[h] \in Applications
                         /\ apps[h].final \in consented \cup {None}
  BY DEF Inv, Rows, CustomerAgreedPrice
<1>5. \A h \in Helpers : /\ apps'[h] \in Applications
                         /\ apps'[h].final \in consented \cup {None}
                         /\ apps[h].status # "NONE" => apps'[h].status # "NONE"
  BY <1>1, <1>4 DEF Applications, AppStatuses
<1>6. job' \in JobRows /\ job'.budget = job.budget /\ job'.selected = job.selected
  BY <1>1 DEF Inv, Rows, JobRows
<1>7. Rows'
  BY <1>1, <1>3, <1>5, <1>6 DEF Inv, Rows
<1>8. Offered'
  BY <1>1, <1>5, <1>6 DEF Inv, Rows, JobRows, Offered
<1>9. CustomerAgreedPrice'
  BY <1>1, <1>3, <1>5, <1>6 DEF Inv, CustomerAgreedPrice
<1>10. Growing(consented, consented', apps, apps')
  BY <1>1, <1>5 DEF Growing
<1> QED BY <1>1, <1>7, <1>8, <1>9, <1>10, WriteStep

-----------------------------------------------------------------------------
LEMMA NextInv == Inv /\ [HiringNext]_hiringVars => Inv'
<1> SUFFICES ASSUME Inv, [HiringNext]_hiringVars PROVE Inv'
  OBVIOUS
<1>1. ASSUME NEW s \in Slots, HiringRequest(s) PROVE Inv'
  BY <1>1, UpdateReads, ApplyReads, SelectReads, RejectReads, NegotiationReads, CheckoutReads
  DEF HiringRequest
<1>2. ASSUME NEW s \in Slots, HiringStep(s) PROVE Inv'
  BY <1>2, UpdateWrites, ApplyReads, ApplicationWrites, SelectReads, SelectWrites,
     RejectReads, OfferWrites, AcceptFinds, AcceptWrites, Pricing
  DEF HiringStep
<1>3. ASSUME NEW s \in Slots, HiringAbandon(s) PROVE Inv'
  BY <1>3, ReadStep, IdleSound DEF HiringAbandon, Stops, Finish, Goto
<1>4. ASSUME NEW h \in Helpers, WithdrawApplication(h) \/ AcceptApplication(h) PROVE Inv'
  BY <1>4, ApplicationWrites
<1>5. ASSUME NEW p \in PaymentIds, FulfillPayment(p) PROVE Inv'
  BY <1>5, FulfilWrites
<1>6. ASSUME UNCHANGED hiringVars PROVE Inv'
  BY <1>6, NoSlotStep, NothingNew
  DEF hiringVars, handlers, hiringData, Inv, Rows, Offered, CustomerAgreedPrice
<1> QED BY <1>1, <1>2, <1>3, <1>4, <1>5, <1>6 DEF HiringNext

THEOREM HiringInvariant == HiringSpec => []Inv
<1>1. HiringInit /\ HandlersInit => Inv
  BY InitInv
<1>2. Inv /\ [HiringNext]_hiringVars => Inv'
  BY NextInv
<1> QED BY <1>1, <1>2, PTL DEF HiringSpec

\* Type correctness, whatever handlers overlap or stop.
THEOREM TypeCorrect == HiringSpec => []HiringTypeOK
<1>1. Inv => HiringTypeOK
  BY DEF Inv, Rows, InFlight, Sound, HiringTypeOK
<1> QED BY <1>1, HiringInvariant, PTL

\* Every price on its way to a checkout, and every amount charged, is one the
\* customer posted, offered or accepted.
THEOREM CustomerAgreedPriceAlways == HiringSpec => []CustomerAgreedPrice
<1>1. Inv => CustomerAgreedPrice
  BY DEF Inv
<1> QED BY <1>1, HiringInvariant, PTL

-----------------------------------------------------------------------------
(* What the locks are for: which operations the handlers of a step belong   *)
(* to, and which steps touch the selection and the statuses.                *)

Tracked == {"select", "reject", "accept", "apply"}

\* The handler in slot s goes on, ends or is new; r is what it becomes.
Moves(s, r) ==
    \/ r = Idle
    \/ r.op \notin Tracked
    \/ /\ r.op = req[s].op
       /\ r.op = "reject" => r.h = req[s].h /\ r.chosen = req[s].chosen
    \/ /\ MayRun(r.op) /\ UNCHANGED job
       /\ r.op \in {"apply", "select"} => job.status = "OPEN"
       /\ r.op = "reject" /\ job.selected = r.h => r.chosen

Moving == /\ UNCHANGED apart
          /\ \/ UNCHANGED req
             \/ \E s \in Slots : \E r : req' = [req EXCEPT ![s] = r] /\ Moves(s, r)

LEMMA RequestsMove == ASSUME NEW s \in Slots, HiringRequest(s) PROVE Moving
<1> USE DEF Moving, Moves, Tracked, Begin, Arrives, hiringData
<1>1. ASSUME NEW b, NEW n, UpdateRead(s, b, n) PROVE Moving
  BY <1>1 DEF UpdateRead
<1>2. ASSUME NEW h, ApplyRead(s, h) PROVE Moving
  BY <1>2 DEF ApplyRead
<1>3. ASSUME NEW h, SelectRead(s, h) PROVE Moving
  BY <1>3 DEF SelectRead
<1>4. ASSUME NEW h, RejectRead(s, h) PROVE Moving
  BY <1>4 DEF RejectRead
<1>5. ASSUME NEW h, NEW side, NEW a, SendOfferRead(s, h, side, a) PROVE Moving
  BY <1>5 DEF SendOfferRead, VerifyPending
<1>6. ASSUME NEW h, NEW side, AcceptRead(s, h, side) PROVE Moving
  BY <1>6 DEF AcceptRead, VerifyPending
<1>7. ASSUME NEW h, NEW side, RejectOfferRead(s, h, side) PROVE Moving
  BY <1>7 DEF RejectOfferRead, VerifyPending
<1>8. ASSUME CheckoutRead(s) PROVE Moving
  BY <1>8 DEF CheckoutRead
<1> HIDE DEF Moving
<1> QED BY <1>1, <1>2, <1>3, <1>4, <1>5, <1>6, <1>7, <1>8 DEF HiringRequest

LEMMA StepsMove == ASSUME Inv, NEW s \in Slots, HiringStep(s) PROVE Moving
<1> USE DEF Moving, Moves, Finish, Goto, At
<1>1. ASSUME req' = [req EXCEPT ![s] = Idle], UNCHANGED apart PROVE Moving
  BY <1>1
<1>2. ASSUME UpdateJob(s) \/ ApplyToJob(s) \/ SelectHelper(s) \/ RejectApplication(s)
             \/ SaveOffer(s) \/ AcceptLatestOffer(s) \/ RejectNegotiation(s)
      PROVE  Moving
  <2>1. req' = [req EXCEPT ![s] = Idle] /\ UNCHANGED apart
    BY <1>2 DEF UpdateJob, ApplyToJob, SelectHelper, RejectApplication, SaveOffer,
                AcceptLatestOffer, RejectNegotiation
  <2> QED BY <2>1, <1>1
<1>3. ASSUME NEW r, r.op = req[s].op, r.op # "reject", req' = [req EXCEPT ![s] = r],
             UNCHANGED apart
      PROVE  Moving
  BY <1>3
<1> HIDE DEF Moving
<1>4. ASSUME ApplyFind(s) PROVE Moving
  <2> DEFINE r == [op |-> "apply", pc |-> "apply_write", h |-> req[s].h,
                   new |-> apps[req[s].h].status = "NONE"]
  <2>1. req[s].op = "apply"
    BY <1>4, SoundAt DEF ApplyFind, Sound, Applying
  <2>2. r.op = "apply"
    OBVIOUS
  <2>3. UNCHANGED apart /\ (req' = [req EXCEPT ![s] = r] \/ req' = [req EXCEPT ![s] = Idle])
    BY <1>4 DEF ApplyFind
  <2> HIDE DEF r
  <2> QED BY <1>1, <1>3, <2>1, <2>2, <2>3
<1>5. ASSUME SelectFind(s) PROVE Moving
  <2>1. req[s].op = "select"
    BY <1>5, SoundAt DEF SelectFind, Sound, Selecting
  <2>2. UNCHANGED apart
    BY <1>5 DEF SelectFind
  <2>3. req' # [req EXCEPT ![s] = Idle] => \E r : r.op = "select" /\ req' = [req EXCEPT ![s] = r]
    BY <1>5 DEF SelectFind
  <2> QED BY <1>1, <1>3, <2>1, <2>2, <2>3
<1>6. ASSUME RejectFind(s) PROVE Moving
  <2> DEFINE r == [req[s] EXCEPT !.pc = "reject_tx"]
  <2>1. req[s] \in [op: {"reject"}, pc: Rejecting, h: Helpers, chosen: BOOLEAN]
    BY <1>6, SoundAt DEF RejectFind, Sound, Rejecting
  <2>2. r.op = req[s].op /\ r.h = req[s].h /\ r.chosen = req[s].chosen
    BY <2>1
  <2>3. UNCHANGED apart /\ (req' = [req EXCEPT ![s] = r] \/ req' = [req EXCEPT ![s] = Idle])
    BY <1>6 DEF RejectFind
  <2> HIDE DEF r
  <2> QED BY <2>2, <2>3 DEF Moving
<1>7. ASSUME AcceptFind(s) PROVE Moving
  <2>1. req[s].op = "accept"
    BY <1>7, SoundAt DEF AcceptFind, Sound, Accepting
  <2> QED BY <1>7, <2>1 DEF AcceptFind, Moving
<1>8. ASSUME PriceOfJob(s) \/ PriceOfApplication(s) PROVE Moving
  BY <1>8 DEF PriceOfJob, PriceOfApplication, Charge, Tracked, Moving
<1> QED BY <1>2, <1>4, <1>5, <1>6, <1>7, <1>8 DEF HiringStep

LEMMA NextMoves == ASSUME Inv, [HiringNext]_hiringVars PROVE Moving
<1>1. ASSUME NEW s \in Slots, HiringAbandon(s) PROVE Moving
  BY <1>1 DEF HiringAbandon, Stops, Finish, Goto, Moving, Moves
<1>2. ASSUME NEW h, WithdrawApplication(h) \/ AcceptApplication(h) PROVE Moving
  BY <1>2 DEF WithdrawApplication, AcceptApplication, AtOnce, Arrives, Moving
<1>3. ASSUME NEW p, FulfillPayment(p) PROVE Moving
  BY <1>3 DEF FulfillPayment, AtOnce, Arrives, Moving
<1>4. ASSUME UNCHANGED hiringVars PROVE Moving
  BY <1>4 DEF hiringVars, handlers, Moving
<1> QED BY <1>1, <1>2, <1>3, <1>4, RequestsMove, StepsMove DEF HiringNext

\* A step that neither selects nor rejects anybody nor pays for the job.
Still ==
    /\ job'.selected = job.selected /\ job'.status = job.status
    /\ \A h \in Helpers : apps'[h].status = "REJECTED" => apps[h].status = "REJECTED"
    /\ \A h \in Helpers : apps'[h].status = "PENDING" =>
          apps[h].status = "PENDING" \/ \E s \in Slots : req[s].op = "apply"

Chooses(s) == SelectHelper(s) \/ AcceptLatestOffer(s) \/ RejectApplication(s)

LEMMA NextStill ==
    ASSUME Inv, [HiringNext]_hiringVars
    PROVE  \/ Still
           \/ \E s \in Slots : Chooses(s)
           \/ \E p \in PaymentIds : FulfillPayment(p)
<1>1. job \in JobRows /\ apps \in [Helpers -> Applications]
  BY DEF Inv, Rows
<1>2. ASSUME UNCHANGED <<job, apps>> PROVE Still
  BY <1>2 DEF Still
<1>3. ASSUME NEW s \in Slots, HiringRequest(s) PROVE Still
  <2>1. UNCHANGED <<job, apps>>
    BY <1>3 DEF HiringRequest, UpdateRead, ApplyRead, SelectRead, RejectRead, SendOfferRead,
                AcceptRead, RejectOfferRead, VerifyPending, CheckoutRead, hiringData
  <2> QED BY <2>1, <1>2
<1>4. ASSUME NEW s \in Slots, HiringStep(s), ~Chooses(s) PROVE Still
  <2>1. CASE UpdateJob(s)
    <3>1. job'.selected = job.selected /\ job'.status = job.status
      BY <1>1, <2>1 DEF UpdateJob, JobRows
    <3>2. \A h \in Helpers : apps'[h].status = apps[h].status
      <4>1. CASE apps' = apps
        BY <4>1
      <4>2. CASE apps' = [apps EXCEPT ![req[s].h] =
                            [@ EXCEPT !.neg = "PENDING", !.final = req[s].final]]
        BY <1>1, <4>2 DEF Applications
      <4> QED BY <2>1, <4>1, <4>2 DEF UpdateJob
    <3> QED BY <3>1, <3>2 DEF Still
  <2>2. CASE ApplyToJob(s)
    <3>1. req[s].op = "apply"
      BY <2>2, SoundAt DEF ApplyToJob, At, Sound, Applying
    <3>2. UNCHANGED job /\ \A h \in Helpers : apps'[h].status \in {apps[h].status, "PENDING"}
      BY <1>1, <2>2 DEF ApplyToJob, Applications
    <3> QED BY <3>1, <3>2 DEF Still
  <2>3. CASE RejectNegotiation(s)
    <3>1. UNCHANGED job /\ \A h \in Helpers : apps'[h].status = apps[h].status
      BY <1>1, <2>3 DEF RejectNegotiation, Applications
    <3> QED BY <3>1 DEF Still
  <2>4. CASE ApplyFind(s) \/ SelectFind(s) \/ RejectFind(s) \/ SaveOffer(s) \/ AcceptFind(s)
             \/ PriceOfJob(s) \/ PriceOfApplication(s)
    <3>1. UNCHANGED <<job, apps>>
      BY <2>4 DEF ApplyFind, SelectFind, RejectFind, SaveOffer, AcceptFind,
                  PriceOfJob, PriceOfApplication, hiringData
    <3> QED BY <3>1, <1>2
  <2> QED BY <1>4, <2>1, <2>2, <2>3, <2>4 DEF HiringStep, Chooses
<1>5. ASSUME NEW s \in Slots, HiringAbandon(s) PROVE Still
  BY <1>2, <1>5 DEF HiringAbandon, hiringData
<1>6. ASSUME NEW h \in Helpers, WithdrawApplication(h) \/ AcceptApplication(h) PROVE Still
  <2>1. UNCHANGED job /\ \A g \in Helpers : apps'[g].status \in {apps[g].status, "WITHDRAWN"}
    BY <1>1, <1>6 DEF WithdrawApplication, AcceptApplication, Applications
  <2> QED BY <2>1 DEF Still
<1>7. ASSUME UNCHANGED hiringVars PROVE Still
  BY <1>2, <1>7 DEF hiringVars, hiringData
<1> QED BY <1>3, <1>4, <1>5, <1>6, <1>7 DEF HiringNext, Chooses

-----------------------------------------------------------------------------
(* rejectApplication apart from the selections *)

RejectLocks == Apart({{"reject", "select"}, {"reject", "accept"}})

\* Nobody is selected while an application is being rejected, and the handler
\* that rejects the selected one knows it.
RejectAlone ==
    \A s, t \in Slots : req[s].op = "reject" => req[t].op \notin {"select", "accept"}
RejectKnows ==
    \A s \in Slots : (req[s].op = "reject" /\ job.selected = req[s].h) => req[s].chosen
ChosenStands ==
    (job.status = "OPEN" /\ job.selected # None) => apps[job.selected].status # "REJECTED"

RejectInv == RejectLocks => RejectAlone /\ RejectKnows /\ ChosenStands

LEMMA RejectAloneStep ==
    ASSUME Inv, RejectLocks, RejectAlone, Moving PROVE RejectAlone'
<1>1. DOMAIN req = Slots
  BY DEF Inv, Rows
<1>2. CASE UNCHANGED req
  BY <1>2 DEF RejectAlone
<1>3. ASSUME NEW s \in Slots, NEW r, req' = [req EXCEPT ![s] = r], Moves(s, r)
      PROVE  RejectAlone'
  <2>1. \A t \in Slots : req'[t] = IF t = s THEN r ELSE req[t]
    BY <1>1, <1>3
  <2>2. CASE r = Idle \/ r.op \notin Tracked \/ r.op = req[s].op
    BY <2>1, <2>2 DEF RejectAlone, Tracked, Idle
  <2>3. CASE MayRun(r.op)
    <3>1. \A t \in Slots : {req[t].op, r.op} \notin apart
      BY <2>3 DEF MayRun
    <3>2. {"reject", "select"} \in apart /\ {"reject", "accept"} \in apart
      BY DEF RejectLocks, Apart
    <3>3. \A t \in Slots : r.op = "reject" => req[t].op \notin {"select", "accept"}
      BY <3>1, <3>2
    <3>4. \A t \in Slots : r.op \in {"select", "accept"} => req[t].op # "reject"
      <4> SUFFICES ASSUME NEW t \in Slots, r.op \in {"select", "accept"}, req[t].op = "reject"
                   PROVE  FALSE
        OBVIOUS
      <4>1. {req[t].op, r.op} \in apart
        BY <3>2
      <4> QED BY <3>1, <4>1
    <3> QED BY <2>1, <3>3, <3>4 DEF RejectAlone
  <2> QED BY <1>3, <2>2, <2>3 DEF Moves
<1> QED BY <1>2, <1>3 DEF Moving

\* What moves a handler leaves what rejecting handlers know, as long as nobody
\* is newly selected.
LEMMA RejectKnowsStep ==
    ASSUME Inv, RejectKnows, Moving, job'.selected \in {job.selected, None},
           \A h \in Helpers : h # None
    PROVE  RejectKnows'
<1>1. DOMAIN req = Slots
  BY DEF Inv, Rows
<1>2. \A s \in Slots : req[s].op = "reject" =>
         req[s].h \in Helpers /\ (job'.selected = req[s].h => req[s].chosen)
  <2> SUFFICES ASSUME NEW s \in Slots, req[s].op = "reject"
               PROVE  req[s].h \in Helpers /\ (job'.selected = req[s].h => req[s].chosen)
    OBVIOUS
  <2>1. req[s].h \in Helpers
    BY SoundAt DEF Sound, OnHelper, Rejecting
  <2> QED BY <2>1 DEF RejectKnows
<1>3. CASE UNCHANGED req
  BY <1>2, <1>3 DEF RejectKnows
<1>4. ASSUME NEW s \in Slots, NEW r, req' = [req EXCEPT ![s] = r], Moves(s, r)
      PROVE  RejectKnows'
  <2>1. \A t \in Slots : req'[t] = IF t = s THEN r ELSE req[t]
    BY <1>1, <1>4
  <2>2. (r.op = "reject" /\ job'.selected = r.h) => r.chosen
    <3>1. CASE r.op = req[s].op /\ (r.op = "reject" => r.h = req[s].h /\ r.chosen = req[s].chosen)
      BY <1>2, <3>1
    <3>2. CASE UNCHANGED job /\ (r.op = "reject" /\ job.selected = r.h => r.chosen)
      BY <3>2
    <3>3. CASE r = Idle \/ r.op \notin Tracked
      BY <3>3 DEF Tracked, Idle
    <3> QED BY <1>4, <3>1, <3>2, <3>3 DEF Moves
  <2> QED BY <1>2, <2>1, <2>2 DEF RejectKnows
<1> QED BY <1>3, <1>4 DEF Moving

LEMMA RejectInvStep ==
    ASSUME Inv, Inv', RejectInv, [HiringNext]_hiringVars PROVE RejectInv'
<1> SUFFICES ASSUME RejectLocks' PROVE (RejectAlone /\ RejectKnows /\ ChosenStands)'
  BY DEF RejectInv
<1>1. Moving
  BY NextMoves
<1>2. RejectLocks /\ RejectAlone /\ RejectKnows /\ ChosenStands
  BY <1>1 DEF Moving, RejectLocks, Apart, RejectInv
<1>3. RejectAlone'
  BY <1>1, <1>2, RejectAloneStep
<1>4. \A h \in Helpers : h # None
  BY HiringAssumption
<1>5. job \in JobRows /\ apps \in [Helpers -> Applications] /\ DOMAIN req = Slots
  BY DEF Inv, Rows
<1>6. CASE Still
  <2>1. RejectKnows'
    BY <1>1, <1>2, <1>4, <1>6, RejectKnowsStep DEF Still
  <2>2. ChosenStands'
    BY <1>2, <1>5, <1>6 DEF Still, ChosenStands, JobRows
  <2> QED BY <1>3, <2>1, <2>2
<1>7. ASSUME NEW s \in Slots, SelectHelper(s) \/ AcceptLatestOffer(s)
      PROVE  (RejectKnows /\ ChosenStands)'
  <2>1. req[s].op \in {"select", "accept"} /\ req[s].h \in Helpers
    BY <1>7, SoundAt
    DEF SelectHelper, AcceptLatestOffer, At, Sound, Selecting, Accepting, OnHelper
  <2>2. \A t \in Slots : req[t].op # "reject"
    BY <1>2, <2>1 DEF RejectAlone
  <2>3. req' = [req EXCEPT ![s] = Idle]
    BY <1>7 DEF SelectHelper, AcceptLatestOffer, Finish, Goto
  <2>4. RejectKnows'
    BY <1>5, <2>2, <2>3 DEF RejectKnows, Idle
  <2>5. job'.selected = req[s].h
    BY <1>5, <1>7 DEF SelectHelper, AcceptLatestOffer, JobRows
  <2>6. apps'[req[s].h].status = "SELECTED"
    <3>1. CASE SelectHelper(s)
      <4>1. req[s].row.status = "SELECTED"
        BY <3>1, SoundAt DEF SelectHelper, At, Sound
      <4>2. apps'[req[s].h] = req[s].row
        BY <2>1, <3>1 DEF SelectHelper
      <4> QED BY <4>1, <4>2
    <3>2. CASE AcceptLatestOffer(s)
      BY <1>5, <2>1, <3>2 DEF AcceptLatestOffer
    <3> QED BY <1>7, <3>1, <3>2
  <2>7. ChosenStands'
    BY <2>5, <2>6 DEF ChosenStands
  <2> QED BY <2>4, <2>7
<1>8. ASSUME NEW s \in Slots, RejectApplication(s)
      PROVE  (RejectKnows /\ ChosenStands)'
  <2>1. req[s].op = "reject" /\ req[s].h \in Helpers
    BY <1>8, SoundAt DEF RejectApplication, At, Sound, Rejecting, OnHelper
  <2>2. job'.selected \in {job.selected, None} /\ job'.status = job.status
    BY <1>5, <1>8 DEF RejectApplication, JobRows
  <2>3. RejectKnows'
    BY <1>1, <1>2, <1>4, <2>2, RejectKnowsStep
  <2>4. job.selected = req[s].h => job'.selected = None
    BY <1>2, <1>5, <1>8, <2>1 DEF RejectApplication, RejectKnows, JobRows
  <2>5. \A h \in Helpers \ {req[s].h} : apps'[h] = apps[h]
    BY <1>5, <1>8 DEF RejectApplication
  <2>6. job.selected # None => job.selected \in Helpers
    BY <1>5 DEF JobRows
  <2>7. ChosenStands'
    BY <1>2, <2>2, <2>4, <2>5, <2>6 DEF ChosenStands
  <2> QED BY <2>3, <2>7
<1>9. ASSUME NEW p \in PaymentIds, FulfillPayment(p)
      PROVE  (RejectKnows /\ ChosenStands)'
  <2>1. job'.selected = job.selected /\ job'.status = "ASSIGNED"
    BY <1>5, <1>9 DEF FulfillPayment, JobRows
  <2> QED BY <1>1, <1>2, <1>4, <2>1, RejectKnowsStep DEF ChosenStands
<1> QED BY <1>3, <1>6, <1>7, <1>8, <1>9, NextStill DEF Chooses

\* With rejectApplication apart from selectHelper and acceptLatestOffer, an open
\* job never points to a rejected application.
THEOREM RejectedNotHiredAlways == HiringSpec => []RejectedNotHired
<1>1. HiringInit /\ HandlersInit => RejectInv
  BY DEF HiringInit, HandlersInit, Idle, RejectInv, RejectAlone, RejectKnows, ChosenStands
<1>2. Inv /\ Inv' /\ RejectInv /\ [HiringNext]_hiringVars => RejectInv'
  BY RejectInvStep
<1>3. RejectInv => RejectedNotHired
  BY DEF RejectInv, RejectLocks, RejectedNotHired, ChosenStands
<1> QED BY <1>1, <1>2, <1>3, HiringInvariant, PTL DEF HiringSpec

-----------------------------------------------------------------------------
(* applyToJob and selectHelper apart from fulfillPayment *)

FulfilLocks == Apart({{"apply", "fulfil"}, {"select", "fulfil"}})

\* Of an assigned job no application is being made or selected.
AssignedAlone ==
    job.status = "ASSIGNED" => \A s \in Slots : req[s].op \notin {"apply", "select"}
Informedly ==
    job.status = "ASSIGNED" => \A h \in Helpers \ Payees : apps[h].status # "PENDING"

FulfilInv == FulfilLocks => AssignedAlone /\ Informedly

\* Payments in escrow are not touched.
LEMMA PayeesKept ==
    ASSUME Inv, [HiringNext]_hiringVars PROVE Payees \subseteq Payees'
<1>1. payments \in [PaymentIds -> Payments \cup {NoPayment}]
  BY DEF Inv, Rows
<1>2. ASSUME \A p \in PaymentIds : payments[p].status = "FUNDED" => payments'[p] = payments[p]
      PROVE  Payees \subseteq Payees'
  BY <1>2 DEF Payees
<1>3. ASSUME UNCHANGED payments PROVE Payees \subseteq Payees'
  BY <1>3 DEF Payees
<1>4. ASSUME NEW s \in Slots, HiringRequest(s) PROVE Payees \subseteq Payees'
  <2>1. CASE CheckoutRead(s)
    <3>1. \/ UNCHANGED payments
          \/ \E p \in PaymentIds : /\ payments[p].status = "PENDING"
                                   /\ payments' = [payments EXCEPT ![p] = NoPayment]
      BY <2>1, Zenon DEF CheckoutRead
    <3>2. \A p \in PaymentIds : payments[p].status = "FUNDED" => payments'[p] = payments[p]
      BY <1>1, <3>1
    <3> QED BY <1>2, <3>2
  <2>2. CASE ~CheckoutRead(s)
    <3>1. UNCHANGED payments
      BY <1>4, <2>2 DEF HiringRequest, UpdateRead, ApplyRead, SelectRead, RejectRead,
           SendOfferRead, AcceptRead, RejectOfferRead, VerifyPending, hiringData
    <3> QED BY <1>3, <3>1
  <2> QED BY <2>1, <2>2
<1>5. ASSUME NEW s \in Slots, HiringStep(s) PROVE Payees \subseteq Payees'
  <2>1. ASSUME NEW amount, Charge(s, amount) PROVE Payees \subseteq Payees'
    <3>1. \A p \in PaymentIds : payments[p].status = "FUNDED" => payments'[p] = payments[p]
      BY <1>1, <2>1 DEF Charge, NoPayment
    <3> QED BY <1>2, <3>1
  <2>2. CASE PriceOfJob(s) \/ PriceOfApplication(s)
    <3>1. UNCHANGED payments \/ \E amount : Charge(s, amount)
      BY <2>2 DEF PriceOfJob, PriceOfApplication
    <3> QED BY <1>3, <2>1, <3>1
  <2>3. CASE ~(PriceOfJob(s) \/ PriceOfApplication(s))
    <3>1. UNCHANGED payments
      BY <1>5, <2>3 DEF HiringStep, UpdateJob, ApplyFind, ApplyToJob, SelectFind, SelectHelper,
           RejectFind, RejectApplication, SaveOffer, AcceptFind, AcceptLatestOffer,
           RejectNegotiation, hiringData
    <3> QED BY <1>3, <3>1
  <2> QED BY <2>2, <2>3
<1>6. ASSUME NEW p \in PaymentIds, FulfillPayment(p) PROVE Payees \subseteq Payees'
  <2>1. \A q \in PaymentIds : payments[q].status = "FUNDED" => payments'[q] = payments[q]
    BY <1>1, <1>6 DEF FulfillPayment
  <2> QED BY <1>2, <2>1
<1>7. ASSUME NEW s \in Slots, HiringAbandon(s) PROVE Payees \subseteq Payees'
  BY <1>3, <1>7 DEF HiringAbandon, hiringData
<1>8. ASSUME NEW h \in Helpers, WithdrawApplication(h) \/ AcceptApplication(h)
      PROVE  Payees \subseteq Payees'
  BY <1>3, <1>8 DEF WithdrawApplication, AcceptApplication
<1>9. ASSUME UNCHANGED hiringVars PROVE Payees \subseteq Payees'
  BY <1>3, <1>9 DEF hiringVars, hiringData
<1> QED BY <1>4, <1>5, <1>6, <1>7, <1>8, <1>9 DEF HiringNext

LEMMA FulfilInvStep ==
    ASSUME Inv, FulfilInv, [HiringNext]_hiringVars PROVE FulfilInv'
<1> SUFFICES ASSUME FulfilLocks' PROVE (AssignedAlone /\ Informedly)'
  BY DEF FulfilInv
<1>1. Moving
  BY NextMoves
<1>2. FulfilLocks /\ AssignedAlone /\ Informedly
  BY <1>1 DEF Moving, FulfilLocks, Apart, FulfilInv
<1>3. /\ job \in JobRows /\ apps \in [Helpers -> Applications]
      /\ payments \in [PaymentIds -> Payments \cup {NoPayment}] /\ DOMAIN req = Slots
  BY DEF Inv, Rows
<1>4. Payees \subseteq Payees'
  BY PayeesKept
<1>5. ASSUME job'.status = job.status PROVE AssignedAlone'
  <2> SUFFICES ASSUME job'.status = "ASSIGNED", NEW t \in Slots
               PROVE  req'[t].op \notin {"apply", "select"}
    BY DEF AssignedAlone
  <2>1. \A u \in Slots : req[u].op \notin {"apply", "select"}
    BY <1>2, <1>5 DEF AssignedAlone
  <2>2. ASSUME NEW s \in Slots, NEW r, req' = [req EXCEPT ![s] = r], Moves(s, r)
        PROVE  req'[t].op \notin {"apply", "select"}
    <3>1. r.op \notin {"apply", "select"}
      BY <1>5, <2>1, <2>2 DEF Moves, Tracked, Idle
    <3> QED BY <1>3, <2>1, <2>2, <3>1
  <2> QED BY <1>1, <2>1, <2>2 DEF Moving
<1>6. ASSUME job'.status = job.status, job.status = "ASSIGNED",
             \A h \in Helpers : apps'[h].status = "PENDING" => apps[h].status = "PENDING"
      PROVE  Informedly'
  BY <1>2, <1>4, <1>6 DEF Informedly
<1>7. CASE Still
  <2>1. ASSUME job.status = "ASSIGNED" PROVE Informedly'
    BY <1>2, <1>6, <1>7, <2>1 DEF Still, AssignedAlone
  <2>2. ASSUME job.status # "ASSIGNED" PROVE Informedly'
    BY <1>7, <2>2 DEF Still, Informedly
  <2> QED BY <1>5, <1>7, <2>1, <2>2 DEF Still
<1>8. ASSUME NEW s \in Slots, Chooses(s) PROVE (AssignedAlone /\ Informedly)'
  <2>1. job'.status = job.status
    BY <1>3, <1>8 DEF Chooses, SelectHelper, AcceptLatestOffer, RejectApplication, JobRows
  <2>2. CASE job.status # "ASSIGNED"
    BY <1>5, <2>1, <2>2 DEF Informedly
  <2>3. CASE job.status = "ASSIGNED"
    <3>1. ~SelectHelper(s)
      BY <1>2, <2>3, SoundAt DEF AssignedAlone, SelectHelper, At, Sound, Selecting
    <3>2. \A h \in Helpers : apps'[h].status \in {apps[h].status, "SELECTED", "REJECTED"}
      BY <1>3, <1>8, <3>1 DEF Chooses, AcceptLatestOffer, RejectApplication, Applications
    <3> QED BY <1>5, <1>6, <2>1, <2>3, <3>2
  <2> QED BY <2>2, <2>3
<1>9. ASSUME NEW p \in PaymentIds, FulfillPayment(p) PROVE (AssignedAlone /\ Informedly)'
  <2>1. \A s \in Slots : {req[s].op, "fulfil"} \notin apart
    BY <1>9 DEF FulfillPayment, AtOnce, Arrives, MayRun
  <2>2. {"apply", "fulfil"} \in apart /\ {"select", "fulfil"} \in apart
    BY <1>2 DEF FulfilLocks, Apart
  <2>3. AssignedAlone'
    BY <1>9, <2>1, <2>2 DEF FulfillPayment, AtOnce, AssignedAlone
  <2>4. payments[p].helper \in Payees'
    <3>1. payments'[p].status = "FUNDED" /\ payments'[p].helper = payments[p].helper
      <4>1. payments[p] \in Payments
        BY <1>3, <1>9 DEF FulfillPayment, NoPayment
      <4> QED BY <1>3, <1>9, <4>1 DEF FulfillPayment, Payments
    <3> QED BY <3>1 DEF Payees
  <2>5. \A h \in Helpers : h # payments[p].helper => apps'[h].status # "PENDING"
    BY <1>3, <1>9 DEF FulfillPayment, Applications
  <2> QED BY <2>3, <2>4, <2>5 DEF Informedly
<1> QED BY <1>7, <1>8, <1>9, NextStill

\* With applyToJob and selectHelper apart from fulfillPayment, an assigned job
\* leaves no applicant but the payee without an answer.
THEOREM NoneLeftPendingAlways == HiringSpec => []NoneLeftPending
<1>1. HiringInit /\ HandlersInit => FulfilInv
  BY DEF HiringInit, FulfilInv, AssignedAlone, Informedly
<1>2. Inv /\ FulfilInv /\ [HiringNext]_hiringVars => FulfilInv'
  BY FulfilInvStep
<1>3. FulfilInv => NoneLeftPending
  BY DEF FulfilInv, FulfilLocks, NoneLeftPending, Informedly
<1> QED BY <1>1, <1>2, <1>3, HiringInvariant, PTL DEF HiringSpec
=============================================================================
