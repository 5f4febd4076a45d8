------------------------------ MODULE Mailbox -------------------------------
(***************************************************************************)
(* What the notification queue promises: a notification that was accepted  *)
(* is delivered once and in the order of acceptance, or lost because its   *)
(* write failed or the process died; and none waits for ever.              *)
(***************************************************************************)
EXTENDS Sequences

CONSTANT Notices

VARIABLES waiting,   \* accepted, not yet delivered
          delivered, \* in the order of delivery
          lossy      \* whether anything may be lost

mailVars == <<waiting, delivered, lossy>>

MailInit == waiting = << >> /\ delivered = << >> /\ lossy \in BOOLEAN

Accept == \E n \in Notices : /\ waiting' = Append(waiting, n)
                             /\ UNCHANGED <<delivered, lossy>>

Deliver == /\ waiting # << >>
           /\ delivered' = Append(delivered, Head(waiting))
           /\ waiting' = Tail(waiting)
           /\ UNCHANGED lossy

Lose == /\ lossy
        /\ waiting # << >>
        /\ waiting' \in {Tail(waiting), << >>}
        /\ UNCHANGED <<delivered, lossy>>

MailNext == Accept \/ Deliver \/ Lose

MailSpec == MailInit /\ [][MailNext]_mailVars
MailFairSpec == MailSpec /\ WF_mailVars(Deliver \/ Lose)
=============================================================================
