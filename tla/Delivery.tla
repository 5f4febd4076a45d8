------------------------------ MODULE Delivery ------------------------------
(***************************************************************************)
(* Who is online and what has reached him: the presence map, the messages  *)
(* and offers of one customer and helper pair, their delivered and read    *)
(* marks, and the pair's conversation.  It models                          *)
(*   socket/socketHandler.ts       connection with its sweep, disconnect   *)
(*   socket/chat.handler.ts, Chat/chat.services.ts                         *)
(*   socket/negotiation.handler.ts, Negotiation/negotiation.services.ts    *)
(*                                 offers, as far as they are delivered    *)
(*   Job/job.services.ts           the notices completeJob and             *)
(*                                 requestRevision leave in the chat       *)
(* The status of the negotiation is the business of Hiring.                *)
(***************************************************************************)
EXTENDS Handlers, Sequences

CONSTANTS Users,       \* the customer and the helper
          MaxSockets,  \* sockets a user has open at once (a bound)
          MaxItems     \* messages and offers sent in all (a bound)

ASSUME DeliveryAssumption == /\ None \notin Users /\ MaxSockets \in Nat /\ MaxItems \in Nat
                             /\ \A u \in Users : \E v \in Users : v # u

VARIABLES
    sockets, \* onlineUsers: how many sockets each user has, no entry for none
    items,   \* messages and negotiation_offers rows, as they were stored
    convs    \* number of conversations rows of the pair

deliveryData == <<sockets, items, convs>>
deliveryVars == <<deliveryData, handlers>>

-----------------------------------------------------------------------------
(* Data *)

\* A notice is a message stored by a service rather than by a socket event.
Kinds  == {"chat", "offer", "notice"}
Tables == [chat |-> "messages", notice |-> "messages", offer |-> "offers"]
ItemRows == [kind: Kinds, to: Users, delivered: BOOLEAN, read: BOOLEAN]

IsOnline(u) == sockets[u] > 0
Peer(u) == CHOOSE v \in Users : v # u

\* A row in a table sent to u by the other.
Incoming(item, u, table) == item.to = u /\ Tables[item.kind] = table

DeliveryInit ==
    /\ sockets = [u \in Users |-> 0]
    /\ items = << >>
    /\ convs = 0

-----------------------------------------------------------------------------
(* Presence *)

\* The first socket of a user starts a sweep that nobody waits for.
Connect(s, u) ==
    /\ sockets[u] < MaxSockets
    /\ sockets' = [sockets EXCEPT ![u] = @ + 1]
    /\ IF IsOnline(u) THEN AtOnce("socket")
       ELSE Begin(s, [op |-> "connect", pc |-> "sweep", u |-> u, table |-> "messages"])
    /\ UNCHANGED <<items, convs>>

Disconnect_Twice(u) ==
    /\ sockets' = [sockets EXCEPT ![u] = @ - 1]
    /\ AtOnce("socket")
    /\ UNCHANGED <<items, convs>>
Disconnect(u) ==
    /\ IsOnline(u)
    /\ sockets' = [sockets EXCEPT ![u] = @ - 1]
    /\ AtOnce("socket")
    /\ UNCHANGED <<items, convs>>

\* updateMany over the rows of a table that u received.
MarkIncoming(u, table, Mark(_)) ==
    items' = [i \in DOMAIN items |-> IF Incoming(items[i], u, table)
                                     THEN Mark(items[i]) ELSE items[i]]
Delivered(item) == [item EXCEPT !.delivered = TRUE]
Read(item) == [item EXCEPT !.read = TRUE, !.delivered = TRUE]

Sweep_MessagesOnly(s) ==
    /\ At(s, "sweep")
    /\ MarkIncoming(req[s].u, "messages", Delivered)
    /\ Finish(s)
    /\ UNCHANGED <<sockets, convs>>
\* All messages first, all offers next.
Sweep(s) ==
    /\ At(s, "sweep")
    /\ LET r == req[s]
       IN  /\ MarkIncoming(r.u, r.table, Delivered)
           /\ IF r.table = "messages" THEN Goto(s, [r EXCEPT !.table = "offers"])
                                      ELSE Finish(s)
    /\ UNCHANGED <<sockets, convs>>

-----------------------------------------------------------------------------
(* Messages and offers *)

\* send_message and send_offer: the sender is a participant of a conversation
\* or of a negotiation.
SendRead(s, u, kind) ==
    /\ IsOnline(u)
    /\ kind = "chat" => convs > 0
    /\ Begin(s, [op |-> "send", pc |-> "send_presence", u |-> u, kind |-> kind])
    /\ UNCHANGED deliveryData

\* Whether the other is online is seen now, and stored after the next await.
SendPresence(s) ==
    /\ At(s, "send_presence")
    /\ Goto(s, [op |-> "send", pc |-> "send_store", kind |-> req[s].kind,
                to |-> Peer(req[s].u), seen |-> IsOnline(Peer(req[s].u))])
    /\ UNCHANGED deliveryData

Store(kind, to, delivered) ==
    /\ Len(items) < MaxItems
    /\ items' = Append(items, [kind |-> kind, to |-> to,
                               delivered |-> delivered, read |-> FALSE])

SendStore(s) ==
    /\ At(s, "send_store")
    /\ Store(req[s].kind, req[s].to, req[s].seen)
    /\ Finish(s)
    /\ UNCHANGED <<sockets, convs>>

\* completeJob and requestRevision leave a message in the conversation, and
\* never mark it delivered.
LeaveNotice(to) ==
    /\ convs > 0
    /\ Store("notice", to, FALSE)
    /\ AtOnce("notice")
    /\ UNCHANGED <<sockets, convs>>

\* join and seen events: after the look-ups the incoming rows become read.
SeenRead(s, u, table) ==
    /\ IsOnline(u)
    /\ table = "messages" => convs > 0
    /\ Begin(s, [op |-> "seen", pc |-> "mark_read", u |-> u, table |-> table])
    /\ UNCHANGED deliveryData

MarkRead(s) ==
    /\ At(s, "mark_read")
    /\ MarkIncoming(req[s].u, req[s].table, Read)
    /\ Finish(s)
    /\ UNCHANGED <<sockets, convs>>

-----------------------------------------------------------------------------
(* The pair's conversation: getOrCreateConversationByJobId of a selected     *)
(* helper's job, and fulfillPayment.  Both look for one and create it later. *)

OpenRead(s, op) ==
    /\ Begin(s, [op |-> op, pc |-> "open_find"])
    /\ UNCHANGED deliveryData

OpenFind_Never(s) ==
    /\ At(s, "open_find")
    /\ Goto(s, [req[s] EXCEPT !.pc = "open_create"])
    /\ UNCHANGED deliveryData
OpenFind(s) ==
    /\ At(s, "open_find")
    /\ IF convs > 0 THEN Finish(s) ELSE Goto(s, [req[s] EXCEPT !.pc = "open_create"])
    /\ UNCHANGED deliveryData

OpenCreate(s) ==
    /\ At(s, "open_create")
    /\ convs' = convs + 1
    /\ Finish(s)
    /\ UNCHANGED <<sockets, items>>

-----------------------------------------------------------------------------
DeliveryAbandon(s) == Stops(s) /\ UNCHANGED deliveryData

DeliveryStep(s) ==
    \/ Sweep(s) \/ SendPresence(s) \/ SendStore(s) \/ MarkRead(s)
    \/ OpenFind(s) \/ OpenCreate(s)

DeliveryRequest(s) ==
    \/ \E u \in Users : \/ Connect(s, u)
                        \/ \E kind \in {"chat", "offer"} : SendRead(s, u, kind)
                        \/ \E table \in {"messages", "offers"} : SeenRead(s, u, table)
    \/ \E op \in {"open", "fulfil"} : OpenRead(s, op)

DeliveryNext ==
    \/ \E s \in Slots : DeliveryRequest(s) \/ DeliveryStep(s) \/ DeliveryAbandon(s)
    \/ \E u \in Users : Disconnect(u) \/ LeaveNotice(u)

DeliverySpec == DeliveryInit /\ HandlersInit /\ [][DeliveryNext]_deliveryVars

-----------------------------------------------------------------------------
(* Properties *)

\* Type invariant.
DeliveryTypeOK ==
    /\ sockets \in [Users -> 0 .. MaxSockets]
    /\ items \in Seq(ItemRows)
    /\ convs \in 0 .. MaxRequests

\* With sends kept apart from the sweep of a connection, and no handler
\* stopping, one who is online has every message and offer delivered once
\* nothing is under way.  Notices are left out: they wait for the next
\* connection or visit, online or not.
OnlineHasAll ==
    (Apart({{"send", "connect"}}) /\ ~failing /\ Quiet) =>
        \A i \in DOMAIN items :
            IsOnline(items[i].to) => items[i].delivered \/ items[i].kind = "notice"

\* With the two operations that open a conversation kept apart, the pair has one
\* conversation for the job at most, as the schema does not forbid a second.
OneConversation ==
    Apart({{"open"}, {"open", "fulfil"}, {"fulfil"}}) => convs <= 1
=============================================================================
