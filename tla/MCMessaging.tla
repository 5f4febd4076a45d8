----------------------------- MODULE MCMessaging ----------------------------
(***************************************************************************)
(* Delivery and the notification queue side by side: a behaviour is one of *)
(* the two, as focus says, since they share no state but the process.      *)
(***************************************************************************)
EXTENDS Delivery, NotificationQueue, TLC

CONSTANTS u1, u2, n1, n2, n3, t1, s1, s2

VARIABLE focus

messagingVars == <<deliveryVars, noticeVars, focus>>

\* The program, and the program with locks on which nothing fails.
MessagingRegimes ==
    {[apart |-> {}, failing |-> TRUE],
     [apart |-> {{"send", "connect"}, {"open"}, {"fulfil"}, {"open", "fulfil"}},
      failing |-> FALSE]}

MessagingInit == /\ focus \in {"delivery", "notices"}
                 /\ HandlersInit /\ DeliveryInit /\ NotificationInit

InDelivery(A) == focus = "delivery" /\ A /\ UNCHANGED <<queueData, tokenData, focus>>
InNotices(A)  == focus = "notices" /\ A /\ UNCHANGED <<deliveryData, focus>>

MessagingNext == InDelivery(DeliveryNext) \/ InNotices(NotificationNext)

MessagingSpec ==
    /\ MessagingInit /\ [][MessagingNext]_messagingVars
    /\ \A s \in Slots : WF_messagingVars(InNotices(NotificationStep(s)))
=============================================================================
