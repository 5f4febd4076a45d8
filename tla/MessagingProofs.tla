--------------------------- MODULE MessagingProofs --------------------------
(***************************************************************************)
(* What Delivery and NotificationQueue guarantee for every set of users,   *)
(* notifications and tokens, bound on sockets and items, and number of     *)
(* handlers.  Of Delivery: type correctness, and under their locks         *)
(* OneConversation and OnlineHasAll.  Of the queue, whatever overlaps,     *)
(* fails or restarts: type correctness, LiveTokenKept, and that its steps  *)
(* are those of a Mailbox.                                                 *)
(*                                                                         *)
(* One module holds both because the two run in one process, and MCMessa-  *)
(* ging checks them in one run; neither proof uses the other.              *)
(***************************************************************************)
EXTENDS Delivery, NotificationQueue, FiniteSetTheorems, TLAPS

-----------------------------------------------------------------------------
(* OneConversation.  The argument is mutual exclusion: with the two          *)
(* operations that open a conversation kept apart one handler at a time is   *)
(* between the look-up and the create, and nobody else creates one.          *)

Opens == {"open", "fulfil"}

OpenLocks == Apart({{"open"}, {"open", "fulfil"}, {"fulfil"}})

\* Who is looking for the conversation, or about to create it.
Opening(r) == r.pc \in {"open_find", "open_create"}

Openers == [op: Opens, pc: {"open_find", "open_create"}]

Shape ==
    /\ DOMAIN req = Slots
    /\ \A s \in Slots : Opening(req[s]) <=> req[s].op \in Opens
    /\ \A s \in Slots : Opening(req[s]) => req[s] \in Openers

OpenAlone ==
    /\ \A s, t \in Slots : req[s].op \in Opens /\ req[t].op \in Opens => s = t
    /\ \A s \in Slots : req[s].pc = "open_create" => convs = 0

OneInv == OpenLocks => OpenAlone /\ convs \in 0 .. 1

OpenersInv == Shape /\ OneInv


LEMMA IdleOpensNothing == ~Opening(Idle) /\ Idle.op \notin Opens /\ Idle.pc # "open_create"
BY DEF Opening, Idle, Opens

LEMMA OpenersInit == DeliveryInit /\ HandlersInit => OpenersInv
BY DEF DeliveryInit, HandlersInit, OpenersInv, Shape, OneInv, OpenAlone, Idle, Opening, Opens

\* A handler that has nothing to do with the conversation, or stays who it was.
Bystands(s, r) == /\ ~Opening(r) /\ r.op \notin Opens
                  /\ req' = [req EXCEPT ![s] = r]

LEMMA BystandKeeps ==
    ASSUME OpenersInv, NEW s \in Slots, NEW r, Bystands(s, r), UNCHANGED <<apart, convs>>
    PROVE  OpenersInv'
BY DEF OpenersInv, Shape, OneInv, OpenAlone, Bystands, Opening, OpenLocks, Apart

LEMMA NothingKeeps == ASSUME OpenersInv, UNCHANGED <<req, apart, convs>> PROVE OpenersInv'
BY DEF OpenersInv, Shape, OneInv, OpenAlone, Opening, OpenLocks, Apart


\* An operation that opens a conversation starts when none is under way.
LEMMA OpenReads ==
    ASSUME OpenersInv, NEW s \in Slots, NEW op \in Opens, OpenRead(s, op)
    PROVE  OpenersInv'
<1> DEFINE r == [op |-> op, pc |-> "open_find"]
<1>1. /\ req' = [req EXCEPT ![s] = r] /\ MayRun(op)
      /\ UNCHANGED <<apart, convs>>
  BY DEF OpenRead, Begin, Arrives, deliveryData
<1>2. ASSUME OpenLocks PROVE \A t \in Slots : req[t].op \notin Opens
  <2> SUFFICES ASSUME NEW t \in Slots, req[t].op \in Opens PROVE FALSE
    OBVIOUS
  <2>1. {req[t].op, op} \in {{"open"}, {"open", "fulfil"}, {"fulfil"}}
    BY DEF Opens
  <2> QED BY <1>1, <1>2, <2>1 DEF OpenLocks, Apart, MayRun
<1>3. r.op \in Opens /\ r.pc = "open_find" /\ r \in Openers
  BY DEF Openers
<1> HIDE DEF r
<1>4. Shape'
  BY <1>1, <1>3 DEF OpenersInv, Shape, Opening
<1>5. OneInv'
  <2> SUFFICES ASSUME OpenLocks' PROVE (OpenAlone /\ convs \in 0 .. 1)'
    BY DEF OneInv
  <2>1. OpenLocks /\ OpenAlone /\ convs \in 0 .. 1
    BY <1>1 DEF OpenLocks, Apart, OpenersInv, OneInv
  <2> QED BY <1>1, <1>2, <1>3, <2>1 DEF OpenAlone, OpenersInv, Shape
<1> QED BY <1>4, <1>5 DEF OpenersInv

LEMMA OpenSteps ==
    ASSUME OpenersInv, NEW s \in Slots, OpenFind(s) \/ OpenCreate(s) PROVE OpenersInv'
<1> USE DEF Goto, Finish, At
<1>1. CASE OpenFind(s) /\ convs > 0
  <2>1. Bystands(s, Idle) /\ UNCHANGED <<apart, convs>>
    BY <1>1, IdleOpensNothing DEF OpenFind, deliveryData, Bystands
  <2> QED BY <2>1, BystandKeeps
<1>2. CASE OpenFind(s) /\ ~(convs > 0)
  <2> DEFINE r == [req[s] EXCEPT !.pc = "open_create"]
  <2>1. req' = [req EXCEPT ![s] = r] /\ UNCHANGED <<apart, convs>>
    BY <1>2 DEF OpenFind, deliveryData
  <2>2. req[s] \in Openers
    BY <1>2 DEF OpenFind, Opening, OpenersInv, Shape
  <2>3. r.op = req[s].op /\ r.pc = "open_create" /\ r \in Openers
    BY <2>2 DEF Openers
  <2> HIDE DEF r
  <2>4. Shape'
    BY <2>1, <2>2, <2>3 DEF OpenersInv, Shape, Opening, Openers
  <2>5. OneInv'
    <3> SUFFICES ASSUME OpenLocks' PROVE (OpenAlone /\ convs \in 0 .. 1)'
      BY DEF OneInv
    <3>1. OpenLocks /\ OpenAlone /\ convs \in 0 .. 1
      BY <2>1 DEF OpenLocks, Apart, OpenersInv, OneInv
    <3>2. convs = 0
      BY <3>1, <1>2
    <3> QED BY <2>1, <2>3, <3>1, <3>2 DEF OpenAlone, OpenersInv, Shape
  <2> QED BY <2>4, <2>5 DEF OpenersInv
<1>3. CASE OpenCreate(s)
  <2>1. /\ req' = [req EXCEPT ![s] = Idle] /\ UNCHANGED apart
        /\ convs' = convs + 1 /\ req[s].pc = "open_create"
    BY <1>3 DEF OpenCreate
  <2>2. req[s].op \in Opens
    BY <2>1 DEF OpenersInv, Shape, Opening
  <2>3. Shape'
    BY <2>1, IdleOpensNothing DEF OpenersInv, Shape
  <2>4. OneInv'
    <3> SUFFICES ASSUME OpenLocks' PROVE (OpenAlone /\ convs \in 0 .. 1)'
      BY DEF OneInv
    <3>1. OpenAlone /\ convs = 0
      BY <2>1 DEF OpenLocks, Apart, OpenersInv, OneInv, OpenAlone
    <3>2. \A t \in Slots : t # s => req[t].pc # "open_create"
      <4> SUFFICES ASSUME NEW t \in Slots, t # s, req[t].pc = "open_create" PROVE FALSE
        OBVIOUS
      <4>1. req[t].op \in Opens
        BY DEF OpenersInv, Shape, Opening
      <4> QED BY <4>1, <2>2, <3>1 DEF OpenAlone
    <3> QED BY <2>1, <3>1, <3>2, IdleOpensNothing DEF OpenAlone, OpenersInv, Shape
  <2> QED BY <2>3, <2>4 DEF OpenersInv
<1> QED BY <1>1, <1>2, <1>3

\* The rest of the steps leave the conversation and its openers alone.
LEMMA OtherSteps ==
    ASSUME OpenersInv, NEW s \in Slots,
           Sweep(s) \/ SendPresence(s) \/ SendStore(s) \/ MarkRead(s) \/ DeliveryAbandon(s)
    PROVE  OpenersInv'
<1> SUFFICES (\E r : Bystands(s, r)) /\ UNCHANGED <<apart, convs>>
  BY BystandKeeps
<1> USE IdleOpensNothing DEF Goto, Finish, At, deliveryData
<1>1. CASE Sweep(s)
  <2>1. CASE req[s].table = "messages"
    <3> DEFINE r == [req[s] EXCEPT !.table = "offers"]
    <3>1. /\ req' = [req EXCEPT ![s] = r] /\ UNCHANGED <<apart, convs>>
          /\ req[s].pc = "sweep"
      BY <1>1, <2>1 DEF Sweep
    <3>2. r.op = req[s].op /\ r.pc = req[s].pc
      OBVIOUS
    <3>3. ~Opening(req[s]) /\ req[s].op \notin Opens
      BY <3>1 DEF OpenersInv, Shape, Opening
    <3> HIDE DEF r
    <3>4. Bystands(s, r)
      BY <3>1, <3>2, <3>3 DEF Bystands, Opening
    <3> QED BY <3>1, <3>4
  <2>2. CASE req[s].table # "messages"
    BY <1>1, <2>2 DEF Sweep, Bystands
  <2> QED BY <2>1, <2>2
<1>2. CASE SendPresence(s)
  BY <1>2 DEF SendPresence, Bystands, Opening, Opens
<1>3. CASE SendStore(s)
  BY <1>3 DEF SendStore, Bystands
<1>4. CASE MarkRead(s)
  BY <1>4 DEF MarkRead, Bystands
<1>5. CASE DeliveryAbandon(s)
  BY <1>5 DEF DeliveryAbandon, Stops, Bystands
<1> QED BY <1>1, <1>2, <1>3, <1>4, <1>5

\* So do the requests: whatever starts without opening is a bystander.
LEMMA Requests ==
    ASSUME OpenersInv, NEW s \in Slots, DeliveryRequest(s) PROVE OpenersInv'
<1>1. CASE \E op \in {"open", "fulfil"} : OpenRead(s, op)
  BY <1>1, OpenReads DEF Opens
<1>2. ASSUME NEW u \in Users, Connect(s, u) PROVE OpenersInv'
  <2>1. CASE IsOnline(u)
    BY <1>2, <2>1, NothingKeeps DEF Connect, AtOnce, Arrives
  <2>2. CASE ~IsOnline(u)
    <3> DEFINE r == [op |-> "connect", pc |-> "sweep", u |-> u, table |-> "messages"]
    <3>1. Bystands(s, r) /\ UNCHANGED <<apart, convs>>
      BY <1>2, <2>2 DEF Connect, Begin, Arrives, Bystands, Opening, Opens
    <3> QED BY <3>1, BystandKeeps
  <2> QED BY <2>1, <2>2
<1>3. ASSUME NEW u \in Users, NEW kind, SendRead(s, u, kind) PROVE OpenersInv'
  <2> DEFINE r == [op |-> "send", pc |-> "send_presence", u |-> u, kind |-> kind]
  <2>1. Bystands(s, r) /\ UNCHANGED <<apart, convs>>
    BY <1>3 DEF SendRead, Begin, Arrives, Bystands, Opening, Opens, deliveryData
  <2> QED BY <2>1, BystandKeeps
<1>4. ASSUME NEW u \in Users, NEW table, SeenRead(s, u, table) PROVE OpenersInv'
  <2> DEFINE r == [op |-> "seen", pc |-> "mark_read", u |-> u, table |-> table]
  <2>1. Bystands(s, r) /\ UNCHANGED <<apart, convs>>
    BY <1>4 DEF SeenRead, Begin, Arrives, Bystands, Opening, Opens, deliveryData
  <2> QED BY <2>1, BystandKeeps
<1> QED BY <1>1, <1>2, <1>3, <1>4 DEF DeliveryRequest

LEMMA OpenersNext == OpenersInv /\ [DeliveryNext]_deliveryVars => OpenersInv'
<1> SUFFICES ASSUME OpenersInv, [DeliveryNext]_deliveryVars PROVE OpenersInv'
  OBVIOUS
<1>1. ASSUME NEW s \in Slots, DeliveryStep(s) PROVE OpenersInv'
  BY <1>1, OpenSteps, OtherSteps DEF DeliveryStep
<1>2. ASSUME NEW u \in Users, Disconnect(u) \/ LeaveNotice(u) PROVE OpenersInv'
  BY <1>2, NothingKeeps DEF Disconnect, LeaveNotice, AtOnce, Arrives
<1>3. CASE UNCHANGED deliveryVars
  BY <1>3, NothingKeeps DEF deliveryVars, deliveryData, handlers
<1> QED BY <1>1, <1>2, <1>3, Requests, OtherSteps DEF DeliveryNext


\* With the operations that open a conversation kept apart, a pair has one
\* conversation of a job at most, however many handlers there are and wherever
\* they stop.
THEOREM OneConversationAlways == DeliverySpec => []OneConversation
<1>1. OpenersInv => OneConversation
  BY DEF OpenersInv, OneInv, OpenLocks, OneConversation
<1> QED BY <1>1, OpenersInit, OpenersNext, PTL DEF DeliverySpec

-----------------------------------------------------------------------------
(* Type correctness.  What is bounded by the requests is counted: each       *)
(* conversation, and each handler that may still create one, is a request of *)
(* its own.                                                                  *)

InTables == {"messages", "offers"}

Sweepers == [op: {"connect"}, pc: {"sweep"}, u: Users, table: InTables]
Senders  == [op: {"send"}, pc: {"send_presence"}, u: Users, kind: {"chat", "offer"}]
Storers  == [op: {"send"}, pc: {"send_store"}, kind: {"chat", "offer"}, to: Users, seen: BOOLEAN]

\* What a handler stopped at r.pc carries.
Carries(r) ==
    /\ r.op = "connect" \/ r.pc = "sweep" => r \in Sweepers
    /\ r.op = "send" => r \in Senders \cup Storers
    /\ r.pc = "send_presence" => r \in Senders
    /\ r.pc = "send_store" => r \in Storers

OpenSlots == {s \in Slots : req[s].op \in Opens}

Counted == /\ requests \in 0 .. MaxRequests /\ convs \in Nat
           /\ IsFiniteSet(OpenSlots) /\ convs + Cardinality(OpenSlots) <= requests

Stored == /\ sockets \in [Users -> 0 .. MaxSockets] /\ items \in Seq(ItemRows)
          /\ \A s \in Slots : Carries(req[s])

TypeInv == Shape /\ Stored /\ Counted

LEMMA IdleCarries == Carries(Idle)
BY DEF Carries, Idle

LEMMA TypeInit == DeliveryInit /\ HandlersInit => TypeInv
<1> SUFFICES ASSUME DeliveryInit, HandlersInit PROVE TypeInv
  OBVIOUS
<1>1. Shape
  BY OpenersInit DEF OpenersInv
<1>2. Stored
  <2>1. sockets \in [Users -> 0 .. MaxSockets]
    BY DeliveryAssumption DEF DeliveryInit
  <2> QED BY <2>1, IdleCarries DEF DeliveryInit, HandlersInit, Stored
<1>3. Counted
  <2>1. OpenSlots = {}
    BY DEF HandlersInit, OpenSlots, Idle, Opens
  <2> QED BY <2>1, FS_EmptySet, HandlersAssumption DEF DeliveryInit, HandlersInit, Counted
<1> QED BY <1>1, <1>2, <1>3 DEF TypeInv

\* Fewer handlers that may create a conversation, and no more conversations.
LEMMA FewerCounted ==
    ASSUME Counted, OpenSlots' \subseteq OpenSlots, UNCHANGED convs,
           requests' \in requests .. MaxRequests
    PROVE  Counted'
<1>1. IsFiniteSet(OpenSlots') /\ Cardinality(OpenSlots') <= Cardinality(OpenSlots)
  BY FS_Subset DEF Counted
<1>2. Cardinality(OpenSlots) \in Nat /\ Cardinality(OpenSlots') \in Nat
  BY <1>1, FS_CardinalityType DEF Counted
<1> HIDE DEF OpenSlots
<1> QED BY <1>1, <1>2 DEF Counted

\* A new handler is a new request.
LEMMA OneMoreCounted ==
    ASSUME Counted, NEW s, OpenSlots' \subseteq OpenSlots \cup {s}, UNCHANGED convs,
           requests < MaxRequests, requests' = requests + 1
    PROVE  Counted'
<1> DEFINE more == OpenSlots \cup {s}
<1>1. IsFiniteSet(more) /\ Cardinality(more) <= Cardinality(OpenSlots) + 1
  <2>1. Cardinality(OpenSlots) \in Nat
    BY FS_CardinalityType DEF Counted
  <2> HIDE DEF OpenSlots
  <2>2. IsFiniteSet(more) /\ (\/ Cardinality(more) = Cardinality(OpenSlots)
                              \/ Cardinality(more) = Cardinality(OpenSlots) + 1)
    BY FS_AddElement DEF Counted
  <2> QED BY <2>1, <2>2
<1>2. IsFiniteSet(OpenSlots') /\ Cardinality(OpenSlots') <= Cardinality(more)
  BY <1>1, FS_Subset
<1>3. /\ Cardinality(OpenSlots) \in Nat /\ Cardinality(OpenSlots') \in Nat
      /\ Cardinality(more) \in Nat
  BY <1>1, <1>2, FS_CardinalityType DEF Counted
<1> HIDE DEF OpenSlots, more
<1> QED BY <1>1, <1>2, <1>3, HandlersAssumption DEF Counted

\* The conversation a handler creates takes the handler's place in the count.
LEMMA CreatedCounted ==
    ASSUME Counted, NEW s \in OpenSlots, OpenSlots' \subseteq OpenSlots \ {s},
           convs' = convs + 1, UNCHANGED requests
    PROVE  Counted'
<1> DEFINE less == OpenSlots \ {s}
<1>1. IsFiniteSet(less) /\ Cardinality(less) = Cardinality(OpenSlots) - 1
  BY FS_RemoveElement DEF Counted
<1>2. IsFiniteSet(OpenSlots') /\ Cardinality(OpenSlots') <= Cardinality(less)
  BY <1>1, FS_Subset
<1>3. /\ Cardinality(OpenSlots) \in Nat /\ Cardinality(OpenSlots') \in Nat
      /\ Cardinality(less) \in Nat
  BY <1>1, <1>2, FS_CardinalityType DEF Counted
<1> HIDE DEF OpenSlots, less
<1> QED BY <1>1, <1>2, <1>3 DEF Counted

\* How the handlers change: s goes on as r, which carries what it should and
\* does not open a conversation unless s did, or is a new request.
SlotBecomes(s, r) ==
    /\ Carries(r)
    /\ req' = [req EXCEPT ![s] = r]
    /\ r.op \notin Opens \/ req[s].op \in Opens
    /\ UNCHANGED convs
    /\ requests' \in requests .. MaxRequests

LEMMA SlotBecomesKeeps ==
    ASSUME TypeInv, NEW s \in Slots, NEW r, SlotBecomes(s, r),
           (sockets \in [Users -> 0 .. MaxSockets] /\ items \in Seq(ItemRows))'
    PROVE  Stored' /\ Counted'
<1>1. \A t \in Slots : req'[t] = IF t = s THEN r ELSE req[t]
  BY DEF SlotBecomes, TypeInv, Shape
<1>2. Stored'
  BY <1>1 DEF SlotBecomes, TypeInv, Stored
<1>3. OpenSlots' \subseteq OpenSlots
  BY <1>1 DEF OpenSlots, SlotBecomes
<1>4. Counted'
  BY <1>3, FewerCounted DEF TypeInv, SlotBecomes
<1> QED BY <1>2, <1>4

\* The same of a step that leaves the handlers as they are.
LEMMA StayKeeps ==
    ASSUME TypeInv, UNCHANGED <<req, convs>>, requests' \in requests .. MaxRequests,
           (sockets \in [Users -> 0 .. MaxSockets] /\ items \in Seq(ItemRows))'
    PROVE  Stored' /\ Counted'
<1>1. OpenSlots' \subseteq OpenSlots
  BY DEF OpenSlots
<1> QED BY <1>1, FewerCounted DEF TypeInv, Stored

\* A request is one of at most MaxRequests.
LEMMA ArrivalCounts ==
    ASSUME TypeInv, NEW op, Arrives(op) PROVE requests' \in requests .. MaxRequests
BY HandlersAssumption DEF Arrives, TypeInv, Counted

LEMMA SameData ==
    ASSUME TypeInv, UNCHANGED <<sockets, items>>
    PROVE  (sockets \in [Users -> 0 .. MaxSockets] /\ items \in Seq(ItemRows))'
BY DEF TypeInv, Stored

\* Marking rows keeps them rows.
LEMMA MarkKeeps ==
    ASSUME TypeInv, NEW u, NEW table, UNCHANGED sockets,
           MarkIncoming(u, table, Delivered) \/ MarkIncoming(u, table, Read)
    PROVE  (sockets \in [Users -> 0 .. MaxSockets] /\ items \in Seq(ItemRows))'
<1>1. items \in Seq(ItemRows) /\ DOMAIN items = 1 .. Len(items) /\ Len(items) \in Nat
  BY DEF TypeInv, Stored
<1>2. \A i \in DOMAIN items : /\ items[i] \in ItemRows
                              /\ Delivered(items[i]) \in ItemRows /\ Read(items[i]) \in ItemRows
  <2> SUFFICES ASSUME NEW i \in DOMAIN items
               PROVE  /\ items[i] \in ItemRows
                      /\ Delivered(items[i]) \in ItemRows /\ Read(items[i]) \in ItemRows
    OBVIOUS
  <2>1. items[i] \in ItemRows
    BY <1>1
  <2>2. \A row \in ItemRows : Delivered(row) \in ItemRows /\ Read(row) \in ItemRows
    BY DEF Delivered, Read, ItemRows
  <2> QED BY <2>1, <2>2
<1>3. items' \in [1 .. Len(items) -> ItemRows]
  <2>1. CASE MarkIncoming(u, table, Delivered)
    BY <1>1, <1>2, <2>1 DEF MarkIncoming
  <2>2. CASE MarkIncoming(u, table, Read)
    BY <1>1, <1>2, <2>2 DEF MarkIncoming
  <2> QED BY <2>1, <2>2
<1>4. items' \in Seq(ItemRows)
  BY <1>1, <1>3
<1> QED BY <1>4 DEF TypeInv, Stored

LEMMA StoreTyped ==
    ASSUME TypeInv, NEW kind \in Kinds, NEW to \in Users, NEW seen \in BOOLEAN,
           Store(kind, to, seen), UNCHANGED sockets
    PROVE  (sockets \in [Users -> 0 .. MaxSockets] /\ items \in Seq(ItemRows))'
<1>1. [kind |-> kind, to |-> to, delivered |-> seen, read |-> FALSE] \in ItemRows
  BY DEF ItemRows
<1>2. items' \in Seq(ItemRows)
  BY <1>1 DEF Store, TypeInv, Stored
<1> QED BY <1>2 DEF TypeInv, Stored

LEMMA PeerType == ASSUME NEW u \in Users PROVE Peer(u) \in Users
BY DeliveryAssumption DEF Peer

\* A user's sockets are counted up to the bound and down to none.
LEMMA SocketType ==
    ASSUME TypeInv, NEW u \in Users, UNCHANGED items,
           \/ sockets[u] < MaxSockets /\ sockets' = [sockets EXCEPT ![u] = @ + 1]
           \/ IsOnline(u) /\ sockets' = [sockets EXCEPT ![u] = @ - 1]
    PROVE  (sockets \in [Users -> 0 .. MaxSockets] /\ items \in Seq(ItemRows))'
<1>1. sockets \in [Users -> 0 .. MaxSockets] /\ sockets[u] \in 0 .. MaxSockets /\ MaxSockets \in Nat
  BY DeliveryAssumption DEF TypeInv, Stored
<1>2. sockets' \in [Users -> 0 .. MaxSockets]
  BY <1>1 DEF IsOnline
<1> QED BY <1>2 DEF TypeInv, Stored

LEMMA SlotSteps ==
    ASSUME TypeInv, NEW s \in Slots,
           Sweep(s) \/ SendPresence(s) \/ SendStore(s) \/ MarkRead(s)
             \/ OpenFind(s) \/ DeliveryAbandon(s)
    PROVE  Stored' /\ Counted'
<1> USE IdleCarries, IdleOpensNothing DEF Goto, Finish, At
<1>1. requests \in requests .. MaxRequests /\ Carries(req[s])
  BY DEF TypeInv, Counted, Stored
<1> SUFFICES /\ \E r : SlotBecomes(s, r)
             /\ (sockets \in [Users -> 0 .. MaxSockets] /\ items \in Seq(ItemRows))'
  BY SlotBecomesKeeps
<1>2. CASE Sweep(s)
  <2>1. MarkIncoming(req[s].u, req[s].table, Delivered) /\ UNCHANGED <<sockets, convs, requests>>
    BY <1>2 DEF Sweep
  <2>2. req[s] \in Sweepers
    BY <1>1, <1>2 DEF Sweep, Carries
  <2>3. CASE req[s].table = "messages"
    <3> DEFINE r == [req[s] EXCEPT !.table = "offers"]
    <3>1. req' = [req EXCEPT ![s] = r]
      BY <1>2, <2>3 DEF Sweep
    <3>2. r \in Sweepers /\ r.op \notin Opens /\ Carries(r)
      BY <2>2 DEF Sweepers, InTables, Opens, Carries, Senders
    <3> HIDE DEF r
    <3>3. SlotBecomes(s, r)
      BY <1>1, <2>1, <3>1, <3>2 DEF SlotBecomes
    <3> QED BY <2>1, <3>3, MarkKeeps
  <2>4. CASE req[s].table # "messages"
    <3>1. SlotBecomes(s, Idle)
      BY <1>1, <1>2, <2>1, <2>4 DEF SlotBecomes, Sweep
    <3> QED BY <2>1, <3>1, MarkKeeps
  <2> QED BY <2>3, <2>4
<1>3. CASE SendPresence(s)
  <2> DEFINE r == [op |-> "send", pc |-> "send_store", kind |-> req[s].kind,
                   to |-> Peer(req[s].u), seen |-> IsOnline(Peer(req[s].u))]
  <2>1. req[s] \in Senders
    BY <1>1, <1>3 DEF SendPresence, Carries
  <2>2. IsOnline(Peer(req[s].u)) \in BOOLEAN
    BY DEF IsOnline
  <2>3. r \in Storers /\ Carries(r) /\ r.op \notin Opens
    BY <2>1, <2>2, PeerType DEF Senders, Storers, Carries, Opens
  <2>4. req' = [req EXCEPT ![s] = r] /\ UNCHANGED <<sockets, items, convs, requests>>
    BY <1>3 DEF SendPresence, deliveryData
  <2> HIDE DEF r
  <2>5. SlotBecomes(s, r)
    BY <1>1, <2>3, <2>4 DEF SlotBecomes
  <2> QED BY <2>4, <2>5, SameData
<1>4. CASE SendStore(s)
  <2>1. req[s] \in Storers
    BY <1>1, <1>4 DEF SendStore, Carries
  <2>2. SlotBecomes(s, Idle) /\ Store(req[s].kind, req[s].to, req[s].seen) /\ UNCHANGED sockets
    BY <1>1, <1>4 DEF SendStore, SlotBecomes
  <2>3. req[s].kind \in Kinds /\ req[s].to \in Users /\ req[s].seen \in BOOLEAN
    BY <2>1 DEF Storers, Kinds
  <2> QED BY <2>2, <2>3, StoreTyped
<1>5. CASE MarkRead(s)
  <2>1. /\ SlotBecomes(s, Idle) /\ MarkIncoming(req[s].u, req[s].table, Read)
        /\ UNCHANGED sockets
    BY <1>1, <1>5 DEF MarkRead, SlotBecomes
  <2> QED BY <2>1, MarkKeeps
<1>6. CASE OpenFind(s)
  <2>1. UNCHANGED <<sockets, items, convs, requests>>
    BY <1>6 DEF OpenFind, deliveryData
  <2>2. CASE convs > 0
    <3>1. SlotBecomes(s, Idle)
      BY <1>1, <1>6, <2>1, <2>2 DEF SlotBecomes, OpenFind
    <3> QED BY <2>1, <3>1, SameData
  <2>3. CASE ~(convs > 0)
    <3> DEFINE r == [req[s] EXCEPT !.pc = "open_create"]
    <3>1. req' = [req EXCEPT ![s] = r]
      BY <1>6, <2>3 DEF OpenFind
    <3>2. req[s] \in Openers
      BY <1>6 DEF OpenFind, Opening, TypeInv, Shape
    <3>3. r.op \in Opens /\ r.op = req[s].op /\ Carries(r)
      BY <3>2 DEF Openers, Opens, Carries
    <3> HIDE DEF r
    <3>4. SlotBecomes(s, r)
      BY <1>1, <2>1, <3>1, <3>3 DEF SlotBecomes
    <3> QED BY <2>1, <3>4, SameData
  <2> QED BY <2>2, <2>3
<1>7. CASE DeliveryAbandon(s)
  <2>1. SlotBecomes(s, Idle) /\ UNCHANGED <<sockets, items>>
    BY <1>1, <1>7 DEF DeliveryAbandon, Stops, SlotBecomes, deliveryData
  <2> QED BY <2>1, SameData
<1> QED BY <1>2, <1>3, <1>4, <1>5, <1>6, <1>7

\* The two steps that change the count.
LEMMA CreateTyped == ASSUME TypeInv, NEW s \in Slots, OpenCreate(s) PROVE Stored' /\ Counted'
<1>1. /\ req' = [req EXCEPT ![s] = Idle] /\ UNCHANGED <<sockets, items, requests>>
      /\ convs' = convs + 1 /\ req[s].pc = "open_create"
  BY DEF OpenCreate, Finish, Goto, At
<1>2. req[s].op \in Opens
  BY <1>1 DEF TypeInv, Shape, Opening
<1>3. s \in OpenSlots /\ OpenSlots' \subseteq OpenSlots \ {s}
  BY <1>1, <1>2, IdleOpensNothing DEF OpenSlots, TypeInv, Shape
<1>4. Counted'
  BY <1>1, <1>3, CreatedCounted DEF TypeInv
<1>5. Stored'
  BY <1>1, IdleCarries DEF TypeInv, Stored, Shape
<1> QED BY <1>4, <1>5

LEMMA OpenReadTyped ==
    ASSUME TypeInv, NEW s \in Slots, NEW op \in Opens, OpenRead(s, op) PROVE Stored' /\ Counted'
<1> DEFINE r == [op |-> op, pc |-> "open_find"]
<1>1. /\ req' = [req EXCEPT ![s] = r] /\ UNCHANGED <<sockets, items, convs>>
      /\ requests < MaxRequests /\ requests' = requests + 1
  BY DEF OpenRead, Begin, Arrives, deliveryData
<1>2. Carries(r)
  BY DEF Carries, Opens
<1> HIDE DEF r
<1>3. OpenSlots' \subseteq OpenSlots \cup {s}
  BY <1>1 DEF OpenSlots, TypeInv, Shape
<1>4. Counted'
  BY <1>1, <1>3, OneMoreCounted DEF TypeInv
<1>5. Stored'
  BY <1>1, <1>2 DEF TypeInv, Stored, Shape
<1> QED BY <1>4, <1>5

LEMMA RequestTyped ==
    ASSUME TypeInv, NEW s \in Slots, DeliveryRequest(s) PROVE Stored' /\ Counted'
<1>1. CASE \E op \in {"open", "fulfil"} : OpenRead(s, op)
  BY <1>1, OpenReadTyped DEF Opens
<1>2. ASSUME NEW r, Begin(s, r), Carries(r), r.op \notin Opens, UNCHANGED convs
      PROVE  SlotBecomes(s, r)
  BY <1>2, ArrivalCounts DEF Begin, SlotBecomes
<1>3. ASSUME NEW u \in Users, Connect(s, u) PROVE Stored' /\ Counted'
  <2>1. /\ sockets[u] < MaxSockets /\ sockets' = [sockets EXCEPT ![u] = @ + 1]
        /\ UNCHANGED <<items, convs>>
    BY <1>3 DEF Connect
  <2>2. (sockets \in [Users -> 0 .. MaxSockets] /\ items \in Seq(ItemRows))'
    BY <2>1, SocketType
  <2>3. CASE IsOnline(u)
    <3>1. UNCHANGED req /\ requests' \in requests .. MaxRequests
      BY <1>3, <2>3, ArrivalCounts DEF Connect, AtOnce
    <3> QED BY <2>1, <2>2, <3>1, StayKeeps
  <2>4. CASE ~IsOnline(u)
    <3> DEFINE r == [op |-> "connect", pc |-> "sweep", u |-> u, table |-> "messages"]
    <3>1. Begin(s, r)
      BY <1>3, <2>4 DEF Connect
    <3>2. Carries(r) /\ r.op \notin Opens
      BY DEF Carries, Sweepers, InTables, Opens
    <3> HIDE DEF r
    <3> QED BY <1>2, <2>1, <2>2, <3>1, <3>2, SlotBecomesKeeps
  <2> QED BY <2>3, <2>4
<1>4. ASSUME NEW u \in Users, NEW kind \in {"chat", "offer"}, SendRead(s, u, kind)
      PROVE  Stored' /\ Counted'
  <2> DEFINE r == [op |-> "send", pc |-> "send_presence", u |-> u, kind |-> kind]
  <2>1. Begin(s, r) /\ UNCHANGED <<sockets, items, convs>>
    BY <1>4 DEF SendRead, deliveryData
  <2>2. Carries(r) /\ r.op \notin Opens
    BY DEF Carries, Senders, Opens
  <2> HIDE DEF r
  <2> QED BY <1>2, <2>1, <2>2, SameData, SlotBecomesKeeps
<1>5. ASSUME NEW u \in Users, NEW table, SeenRead(s, u, table) PROVE Stored' /\ Counted'
  <2> DEFINE r == [op |-> "seen", pc |-> "mark_read", u |-> u, table |-> table]
  <2>1. Begin(s, r) /\ UNCHANGED <<sockets, items, convs>>
    BY <1>5 DEF SeenRead, deliveryData
  <2>2. Carries(r) /\ r.op \notin Opens
    BY DEF Carries, Opens
  <2> HIDE DEF r
  <2> QED BY <1>2, <2>1, <2>2, SameData, SlotBecomesKeeps
<1> QED BY <1>1, <1>3, <1>4, <1>5 DEF DeliveryRequest

LEMMA TypeNext == OpenersInv /\ TypeInv /\ [DeliveryNext]_deliveryVars => TypeInv'
<1> SUFFICES ASSUME OpenersInv, TypeInv, [DeliveryNext]_deliveryVars PROVE TypeInv'
  OBVIOUS
<1>1. Shape'
  BY OpenersNext DEF OpenersInv
<1>2. ASSUME NEW u \in Users, Disconnect(u) \/ LeaveNotice(u) PROVE Stored' /\ Counted'
  <2>1. UNCHANGED <<req, convs>> /\ requests' \in requests .. MaxRequests
    BY <1>2, ArrivalCounts DEF Disconnect, LeaveNotice, AtOnce
  <2>2. CASE Disconnect(u)
    <3>1. (sockets \in [Users -> 0 .. MaxSockets] /\ items \in Seq(ItemRows))'
      BY <2>2, SocketType DEF Disconnect
    <3> QED BY <2>1, <3>1, StayKeeps
  <2>3. CASE LeaveNotice(u)
    <3>1. (sockets \in [Users -> 0 .. MaxSockets] /\ items \in Seq(ItemRows))'
      BY <2>3, StoreTyped DEF LeaveNotice, Kinds
    <3> QED BY <2>1, <3>1, StayKeeps
  <2> QED BY <1>2, <2>2, <2>3
<1>3. ASSUME UNCHANGED deliveryVars PROVE Stored' /\ Counted'
  <2>1. UNCHANGED <<req, convs, sockets, items>> /\ requests' \in requests .. MaxRequests
    BY <1>3 DEF deliveryVars, deliveryData, handlers, TypeInv, Counted
  <2> QED BY <2>1, SameData, StayKeeps
<1>4. Stored' /\ Counted'
  BY <1>2, <1>3, SlotSteps, CreateTyped, RequestTyped DEF DeliveryNext, DeliveryStep
<1> QED BY <1>1, <1>4 DEF TypeInv

\* Type correctness: users have the sockets they opened, rows are rows, and there are
\* never more conversations than there were requests for one.
THEOREM DeliveryTypeCorrect == DeliverySpec => []DeliveryTypeOK
<1>1. TypeInv => DeliveryTypeOK
  <2>1. TypeInv => convs \in 0 .. MaxRequests
    <3> SUFFICES ASSUME TypeInv PROVE convs \in 0 .. MaxRequests
      OBVIOUS
    <3>1. Cardinality(OpenSlots) \in Nat
      BY FS_CardinalityType DEF TypeInv, Counted
    <3> HIDE DEF OpenSlots
    <3> QED BY <3>1, HandlersAssumption DEF TypeInv, Counted
  <2> QED BY <2>1 DEF TypeInv, Stored, DeliveryTypeOK
<1> QED BY <1>1, OpenersInit, OpenersNext, TypeInit, TypeNext, PTL DEF DeliverySpec

-----------------------------------------------------------------------------
(* OnlineHasAll.  What one who is online lacks is still being swept for, by  *)
(* a sweep that has not come to its table or is at it; and a sender that saw *)
(* the other offline is right until it has stored, since he can only come    *)
(* online by a connection, which waits for the sender.                       *)

SendLocks == Apart({{"send", "connect"}})

Lacks(i) == IsOnline(items[i].to) /\ ~items[i].delivered /\ items[i].kind # "notice"

Swept(u, table) ==
    \E s \in Slots : req[s].pc = "sweep" /\ req[s].u = u /\ req[s].table \in {"messages", table}

SendsAlone == \A s, t \in Slots : ~(req[s].op = "send" /\ req[t].op = "connect")

SeenTruly == \A s \in Slots : req[s].pc = "send_store" /\ ~req[s].seen => ~IsOnline(req[s].to)

LacksSwept == \A i \in DOMAIN items : Lacks(i) => Swept(items[i].to, Tables[items[i].kind])

SentInv == SendLocks => SendsAlone /\ SeenTruly /\ (~failing => LacksSwept)

LEMMA SentInit == DeliveryInit /\ HandlersInit => SentInv
BY DEF DeliveryInit, HandlersInit, SentInv, SendsAlone, SeenTruly, LacksSwept, Idle

LEMMA SlotsAre ==
    ASSUME TypeInv, NEW s \in Slots, NEW r, req' = [req EXCEPT ![s] = r]
    PROVE  \A t \in Slots : req'[t] = IF t = s THEN r ELSE req[t]
BY DEF TypeInv, Shape

\* s goes on as r and sweeps for nobody, nothing is sent and nobody comes online.
GoesOn(s, r) ==
    /\ req' = [req EXCEPT ![s] = r] /\ UNCHANGED <<items, apart, failing>>
    /\ req[s].pc = "sweep" => failing
    /\ r.op # "connect"
    /\ r.op = "send" => \/ req[s].op = "send"
                        \/ SendLocks => \A t \in Slots : req[t].op # "connect"
    /\ r.pc = "send_store" /\ ~r.seen => ~IsOnline(r.to)
    /\ \A u : IsOnline(u)' => IsOnline(u)

LEMMA GoesOnKeeps ==
    ASSUME TypeInv, SentInv, NEW s \in Slots, NEW r, GoesOn(s, r) PROVE SentInv'
<1> SUFFICES ASSUME SendLocks' PROVE (SendsAlone /\ SeenTruly /\ (~failing => LacksSwept))'
  BY DEF SentInv
<1>1. SendLocks /\ SendsAlone /\ SeenTruly /\ (~failing => LacksSwept)
  BY DEF SentInv, SendLocks, Apart, GoesOn
<1>2. \A t \in Slots : req'[t] = IF t = s THEN r ELSE req[t]
  <2>1. req' = [req EXCEPT ![s] = r]
    BY DEF GoesOn
  <2> QED BY <2>1, SlotsAre
<1>3. SendsAlone'
  BY <1>1, <1>2 DEF SendsAlone, GoesOn
<1>4. SeenTruly'
  BY <1>1, <1>2 DEF SeenTruly, GoesOn
<1>5. ASSUME ~failing' PROVE LacksSwept'
  <2> SUFFICES ASSUME NEW i \in DOMAIN items, Lacks(i)'
               PROVE  Swept(items[i].to, Tables[items[i].kind])'
    BY DEF LacksSwept, GoesOn
  <2>1. Lacks(i)
    BY DEF Lacks, GoesOn
  <2>2. ~failing
    BY <1>5 DEF GoesOn
  <2>3. PICK t \in Slots : /\ req[t].pc = "sweep" /\ req[t].u = items[i].to
                           /\ req[t].table \in {"messages", Tables[items[i].kind]}
    BY <1>1, <2>1, <2>2 DEF LacksSwept, Swept
  <2>4. t # s /\ req'[t] = req[t] /\ UNCHANGED items
    BY <1>2, <2>2, <2>3 DEF GoesOn
  <2> QED BY <2>3, <2>4 DEF Swept
<1> QED BY <1>3, <1>4, <1>5

LEMMA SentStays ==
    ASSUME SentInv, UNCHANGED <<req, items, apart, failing>>, \A u : IsOnline(u)' => IsOnline(u)
    PROVE  SentInv'
BY DEF SentInv, SendLocks, Apart, SendsAlone, SeenTruly, LacksSwept, Lacks, Swept

\* A request that has nothing to do with sweeping.
LEMMA BeginsGoOn ==
    ASSUME TypeInv, NEW s \in Slots, NEW r, Begin(s, r), UNCHANGED <<sockets, items>>,
           r.op # "connect", r.pc # "send_store"
    PROVE  GoesOn(s, r)
<1>1. r.op = "send" => (SendLocks => \A t \in Slots : req[t].op # "connect")
  <2> SUFFICES ASSUME r.op = "send", SendLocks, NEW t \in Slots, req[t].op = "connect"
               PROVE  FALSE
    OBVIOUS
  <2>1. {req[t].op, r.op} = {"send", "connect"}
    OBVIOUS
  <2> QED BY <2>1 DEF Begin, Arrives, MayRun, SendLocks, Apart
<1>2. req[s].pc # "sweep"
  BY DEF Begin, Busy, Idle
<1> QED BY <1>1, <1>2 DEF GoesOn, Begin, Arrives, IsOnline

LEMMA IdleGoesOn ==
    ASSUME NEW s \in Slots, Finish(s), req[s].pc = "sweep" => failing, UNCHANGED <<sockets, items>>
    PROVE  GoesOn(s, Idle)
BY DEF GoesOn, Finish, Goto, Idle, IsOnline

\* A notice is not waited for.
LEMMA NoticeKeeps ==
    ASSUME TypeInv, SentInv, NEW to, Store("notice", to, FALSE),
           UNCHANGED <<sockets, req, apart, failing>>
    PROVE  SentInv'
<1> SUFFICES ASSUME SendLocks', ~failing' PROVE LacksSwept'
  BY DEF SentInv, SendLocks, Apart, SendsAlone, SeenTruly, IsOnline
<1> SUFFICES ASSUME NEW i \in DOMAIN items', Lacks(i)'
             PROVE  Swept(items[i].to, Tables[items[i].kind])'
  BY DEF LacksSwept
<1>1. LacksSwept
  BY DEF SentInv, SendLocks, Apart
<1>2. items \in Seq(ItemRows)
  BY DEF TypeInv, Stored
<1>3. i # Len(items) + 1
  BY <1>2 DEF Store, Lacks
<1>4. i \in DOMAIN items /\ items'[i] = items[i]
  BY <1>2, <1>3 DEF Store
<1> QED BY <1>1, <1>4 DEF LacksSwept, Lacks, Swept, IsOnline

\* A row that is stored undelivered is for one who is offline.
LEMMA SendKeeps ==
    ASSUME TypeInv, SentInv, NEW s \in Slots, SendStore(s) PROVE SentInv'
<1> SUFFICES ASSUME SendLocks' PROVE (SendsAlone /\ SeenTruly /\ (~failing => LacksSwept))'
  BY DEF SentInv
<1>1. /\ req' = [req EXCEPT ![s] = Idle] /\ UNCHANGED <<sockets, apart, failing>>
      /\ Store(req[s].kind, req[s].to, req[s].seen) /\ req[s].pc = "send_store"
  BY DEF SendStore, Finish, Goto, At
<1>2. SendLocks /\ SendsAlone /\ SeenTruly /\ (~failing => LacksSwept)
  BY <1>1 DEF SentInv, SendLocks, Apart
<1>3. \A t \in Slots : req'[t] = IF t = s THEN Idle ELSE req[t]
  BY <1>1, SlotsAre
<1>4. SendsAlone' /\ SeenTruly'
  BY <1>1, <1>2, <1>3 DEF SendsAlone, SeenTruly, Idle, IsOnline
<1>5. ASSUME ~failing' PROVE LacksSwept'
  <2> SUFFICES ASSUME NEW i \in DOMAIN items', Lacks(i)'
               PROVE  Swept(items[i].to, Tables[items[i].kind])'
    BY DEF LacksSwept
  <2>1. items \in Seq(ItemRows)
    BY DEF TypeInv, Stored
  <2>2. ASSUME i = Len(items) + 1 PROVE FALSE
    <3>1. items'[i] = [kind |-> req[s].kind, to |-> req[s].to,
                       delivered |-> req[s].seen, read |-> FALSE]
      BY <1>1, <2>1, <2>2 DEF Store
    <3>2. ~req[s].seen /\ IsOnline(req[s].to)
      BY <1>1, <3>1 DEF Lacks, IsOnline
    <3> QED BY <1>1, <1>2, <3>2 DEF SeenTruly
  <2>3. i \in DOMAIN items /\ items'[i] = items[i]
    BY <1>1, <2>1, <2>2 DEF Store
  <2>4. Lacks(i)
    BY <1>1, <2>3 DEF Lacks, IsOnline
  <2>5. PICK t \in Slots : /\ req[t].pc = "sweep" /\ req[t].u = items[i].to
                           /\ req[t].table \in {"messages", Tables[items[i].kind]}
    BY <1>1, <1>2, <1>5, <2>3, <2>4 DEF LacksSwept, Swept
  <2>6. t # s /\ req'[t] = req[t]
    BY <1>1, <1>3, <2>5
  <2> QED BY <2>3, <2>5, <2>6 DEF Swept
<1> QED BY <1>4, <1>5

\* What a row becomes when it is marked.
LEMMA MarkedRows ==
    ASSUME TypeInv, NEW u, NEW table,
           MarkIncoming(u, table, Delivered) \/ MarkIncoming(u, table, Read)
    PROVE  /\ DOMAIN items' = DOMAIN items
           /\ \A i \in DOMAIN items :
                 /\ items'[i].to = items[i].to /\ items'[i].kind = items[i].kind
                 /\ items[i].delivered => items'[i].delivered
                 /\ Incoming(items[i], u, table) => items'[i].delivered
<1>1. \A row \in ItemRows :
         /\ Delivered(row).to = row.to /\ Delivered(row).kind = row.kind /\ Delivered(row).delivered
         /\ Read(row).to = row.to /\ Read(row).kind = row.kind /\ Read(row).delivered
  BY DEF Delivered, Read, ItemRows
<1>2. \A i \in DOMAIN items : items[i] \in ItemRows
  BY DEF TypeInv, Stored
<1> HIDE DEF Incoming
<1>3. CASE MarkIncoming(u, table, Delivered)
  BY <1>1, <1>2, <1>3 DEF MarkIncoming
<1>4. CASE MarkIncoming(u, table, Read)
  BY <1>1, <1>2, <1>4 DEF MarkIncoming
<1> QED BY <1>3, <1>4

LEMMA ReadKeeps ==
    ASSUME TypeInv, SentInv, NEW s \in Slots, MarkRead(s) PROVE SentInv'
<1> SUFFICES ASSUME SendLocks' PROVE (SendsAlone /\ SeenTruly /\ (~failing => LacksSwept))'
  BY DEF SentInv
<1>1. /\ req' = [req EXCEPT ![s] = Idle] /\ UNCHANGED <<sockets, apart, failing>>
      /\ MarkIncoming(req[s].u, req[s].table, Read) /\ req[s].pc = "mark_read"
  BY DEF MarkRead, Finish, Goto, At
<1>2. SendLocks /\ SendsAlone /\ SeenTruly /\ (~failing => LacksSwept)
  BY <1>1 DEF SentInv, SendLocks, Apart
<1>3. \A t \in Slots : req'[t] = IF t = s THEN Idle ELSE req[t]
  BY <1>1, SlotsAre
<1>4. SendsAlone' /\ SeenTruly'
  BY <1>1, <1>2, <1>3 DEF SendsAlone, SeenTruly, Idle, IsOnline
<1>5. ASSUME ~failing' PROVE LacksSwept'
  <2> SUFFICES ASSUME NEW i \in DOMAIN items', Lacks(i)'
               PROVE  Swept(items[i].to, Tables[items[i].kind])'
    BY DEF LacksSwept
  <2>1. /\ i \in DOMAIN items /\ items'[i].to = items[i].to /\ items'[i].kind = items[i].kind
        /\ items[i].delivered => items'[i].delivered
    BY <1>1, MarkedRows
  <2>2. Lacks(i)
    BY <1>1, <2>1 DEF Lacks, IsOnline
  <2>3. PICK t \in Slots : /\ req[t].pc = "sweep" /\ req[t].u = items[i].to
                           /\ req[t].table \in {"messages", Tables[items[i].kind]}
    BY <1>1, <1>2, <1>5, <2>1, <2>2 DEF LacksSwept, Swept
  <2>4. t # s /\ req'[t] = req[t]
    BY <1>1, <1>3, <2>3
  <2> QED BY <2>1, <2>3, <2>4 DEF Swept
<1> QED BY <1>4, <1>5

\* A sweep delivers what it has come to, and still has the offers before it
\* when it has delivered the messages.
LEMMA SweepKeeps ==
    ASSUME TypeInv, SentInv, NEW s \in Slots, Sweep(s) PROVE SentInv'
<1> SUFFICES ASSUME SendLocks' PROVE (SendsAlone /\ SeenTruly /\ (~failing => LacksSwept))'
  BY DEF SentInv
<1> DEFINE r == IF req[s].table = "messages" THEN [req[s] EXCEPT !.table = "offers"] ELSE Idle
<1>1. /\ req' = [req EXCEPT ![s] = r] /\ UNCHANGED <<sockets, apart, failing>>
      /\ MarkIncoming(req[s].u, req[s].table, Delivered) /\ req[s].pc = "sweep"
  BY DEF Sweep, Finish, Goto, At
<1>2. SendLocks /\ SendsAlone /\ SeenTruly /\ (~failing => LacksSwept)
  BY <1>1 DEF SentInv, SendLocks, Apart
<1>3. req[s] \in Sweepers
  BY <1>1 DEF TypeInv, Stored, Carries
<1>4. /\ r.op # "send" /\ r.pc # "send_store" /\ (r.op = "connect" => req[s].op = "connect")
      /\ req[s].table = "messages" =>
            r.pc = "sweep" /\ r.u = req[s].u /\ r.table = "offers"
      /\ req[s].table \in InTables
  BY <1>3 DEF Sweepers, Idle
<1> HIDE DEF r
<1>5. \A t \in Slots : req'[t] = IF t = s THEN r ELSE req[t]
  BY <1>1, SlotsAre
<1>6. SendsAlone' /\ SeenTruly'
  BY <1>1, <1>2, <1>4, <1>5 DEF SendsAlone, SeenTruly, IsOnline
<1>7. ASSUME ~failing' PROVE LacksSwept'
  <2> SUFFICES ASSUME NEW i \in DOMAIN items', Lacks(i)'
               PROVE  Swept(items[i].to, Tables[items[i].kind])'
    BY DEF LacksSwept
  <2>1. /\ i \in DOMAIN items /\ items'[i].to = items[i].to /\ items'[i].kind = items[i].kind
        /\ items[i].delivered => items'[i].delivered
        /\ Incoming(items[i], req[s].u, req[s].table) => items'[i].delivered
    BY <1>1, MarkedRows
  <2>2. Lacks(i) /\ ~items'[i].delivered
    BY <1>1, <2>1 DEF Lacks, IsOnline
  <2>3. PICK t \in Slots : /\ req[t].pc = "sweep" /\ req[t].u = items[i].to
                           /\ req[t].table \in {"messages", Tables[items[i].kind]}
    BY <1>1, <1>2, <1>7, <2>1, <2>2 DEF LacksSwept, Swept
  <2>4. CASE t # s
    <3>1. req'[t] = req[t]
      BY <1>5, <2>4
    <3> QED BY <2>1, <2>3, <3>1 DEF Swept
  <2>5. CASE t = s
    <3>1. Tables[items[i].kind] # req[s].table
      BY <2>1, <2>2, <2>3, <2>5 DEF Incoming
    <3>2. Tables[items[i].kind] \in {"messages", "offers"}
      <4>1. items[i].kind \in Kinds
        <5>1. items[i] \in ItemRows
          BY <2>1 DEF TypeInv, Stored
        <5> QED BY <5>1 DEF ItemRows
      <4> QED BY <4>1 DEF Kinds, Tables
    <3>3. req[s].table = "messages" /\ Tables[items[i].kind] = "offers"
      BY <2>3, <2>5, <3>1, <3>2
    <3>4. req'[s].pc = "sweep" /\ req'[s].u = items[i].to /\ req'[s].table = "offers"
      BY <1>4, <1>5, <2>3, <2>5, <3>3
    <3> QED BY <2>1, <3>3, <3>4 DEF Swept
  <2> QED BY <2>4, <2>5
<1> QED BY <1>6, <1>7

\* The first socket of a user comes with a sweep, a further one changes nothing.
LEMMA ConnectKeeps ==
    ASSUME TypeInv, SentInv, NEW s \in Slots, NEW u \in Users, Connect(s, u) PROVE SentInv'
<1>1. \A v : v # u => (IsOnline(v)' <=> IsOnline(v))
  BY DEF Connect, IsOnline, TypeInv, Stored
<1>2. CASE IsOnline(u)
  <2>1. UNCHANGED <<req, items, apart, failing>>
    BY <1>2 DEF Connect, AtOnce, Arrives
  <2> QED BY <1>1, <1>2, <2>1, SentStays
<1>3. CASE ~IsOnline(u)
  <2> SUFFICES ASSUME SendLocks' PROVE (SendsAlone /\ SeenTruly /\ (~failing => LacksSwept))'
    BY DEF SentInv
  <2> DEFINE r == [op |-> "connect", pc |-> "sweep", u |-> u, table |-> "messages"]
  <2>1. /\ req' = [req EXCEPT ![s] = r] /\ UNCHANGED <<items, apart, failing>>
        /\ MayRun("connect") /\ req[s].pc # "sweep"
    BY <1>3 DEF Connect, Begin, Arrives, Busy, Idle
  <2>2. SendLocks /\ (~failing => LacksSwept)
    BY <2>1 DEF SentInv, SendLocks, Apart
  <2>3. \A t \in Slots : req[t].op # "send"
    <3> SUFFICES ASSUME NEW t \in Slots, req[t].op = "send" PROVE FALSE
      OBVIOUS
    <3>1. {req[t].op, "connect"} = {"send", "connect"}
      OBVIOUS
    <3> QED BY <2>1, <2>2, <3>1 DEF MayRun, SendLocks, Apart
  <2>4. r.op = "connect" /\ r.pc = "sweep" /\ r.u = u /\ r.table = "messages"
    OBVIOUS
  <2> HIDE DEF r
  <2>5. \A t \in Slots : req'[t] = IF t = s THEN r ELSE req[t]
    BY <2>1, SlotsAre
  <2>6. \A t \in Slots : req[t].pc # "send_store"
    BY <2>3 DEF TypeInv, Stored, Carries, Storers
  <2>7. SendsAlone' /\ SeenTruly'
    BY <2>3, <2>4, <2>5, <2>6 DEF SendsAlone, SeenTruly
  <2>8. ASSUME ~failing' PROVE LacksSwept'
    <3> SUFFICES ASSUME NEW i \in DOMAIN items, Lacks(i)'
                 PROVE  Swept(items[i].to, Tables[items[i].kind])'
      BY <2>1 DEF LacksSwept
    <3>1. CASE items[i].to = u
      BY <2>1, <2>4, <2>5, <3>1 DEF Swept
    <3>2. CASE items[i].to # u
      <4>1. Lacks(i)
        BY <1>1, <2>1, <3>2 DEF Lacks, IsOnline
      <4>2. PICK t \in Slots : /\ req[t].pc = "sweep" /\ req[t].u = items[i].to
                               /\ req[t].table \in {"messages", Tables[items[i].kind]}
        BY <2>1, <2>2, <2>8, <4>1 DEF LacksSwept, Swept
      <4>3. t # s /\ req'[t] = req[t]
        BY <2>1, <2>5, <4>2
      <4> QED BY <2>1, <4>2, <4>3 DEF Swept
    <3> QED BY <3>1, <3>2
  <2> QED BY <2>7, <2>8
<1> QED BY <1>2, <1>3

LEMMA OthersGoOn ==
    ASSUME TypeInv, NEW s \in Slots,
           SendPresence(s) \/ OpenFind(s) \/ OpenCreate(s) \/ DeliveryAbandon(s)
    PROVE  \E r : GoesOn(s, r)
<1>1. CASE SendPresence(s)
  <2> DEFINE r == [op |-> "send", pc |-> "send_store", kind |-> req[s].kind,
                   to |-> Peer(req[s].u), seen |-> IsOnline(Peer(req[s].u))]
  <2>1. req' = [req EXCEPT ![s] = r] /\ UNCHANGED <<sockets, items, apart, failing>>
        /\ req[s].pc = "send_presence"
    BY <1>1 DEF SendPresence, Goto, At, deliveryData
  <2>2. req[s].op = "send"
    BY <2>1 DEF TypeInv, Stored, Carries, Senders
  <2>3. r.op = "send" /\ (~r.seen => ~IsOnline(r.to))
    OBVIOUS
  <2> HIDE DEF r
  <2>4. GoesOn(s, r)
    BY <2>1, <2>2, <2>3 DEF GoesOn, IsOnline
  <2> QED BY <2>4
<1>2. CASE OpenFind(s)
  <2>1. UNCHANGED <<sockets, items, apart, failing>> /\ req[s].pc = "open_find"
    BY <1>2 DEF OpenFind, Goto, Finish, At, deliveryData
  <2>2. CASE convs > 0
    BY <1>2, <2>1, <2>2, IdleGoesOn DEF OpenFind
  <2>3. CASE ~(convs > 0)
    <3> DEFINE r == [req[s] EXCEPT !.pc = "open_create"]
    <3>1. req' = [req EXCEPT ![s] = r]
      BY <1>2, <2>3 DEF OpenFind, Goto
    <3>2. r.op \notin {"connect", "send"} /\ r.pc = "open_create"
      BY <2>1 DEF TypeInv, Shape, Opening, Openers, Opens
    <3> HIDE DEF r
    <3>3. GoesOn(s, r)
      BY <2>1, <3>1, <3>2 DEF GoesOn, IsOnline
    <3> QED BY <3>3
  <2> QED BY <2>2, <2>3
<1>3. CASE OpenCreate(s)
  BY <1>3, IdleGoesOn DEF OpenCreate, At
<1>4. CASE DeliveryAbandon(s)
  BY <1>4, IdleGoesOn DEF DeliveryAbandon, Stops, deliveryData
<1> QED BY <1>1, <1>2, <1>3, <1>4

LEMMA RequestSent ==
    ASSUME TypeInv, SentInv, NEW s \in Slots, DeliveryRequest(s) PROVE SentInv'
<1>1. ASSUME NEW u \in Users, NEW kind, SendRead(s, u, kind) PROVE SentInv'
  BY <1>1, BeginsGoOn, GoesOnKeeps DEF SendRead, deliveryData
<1>2. ASSUME NEW u \in Users, NEW table, SeenRead(s, u, table) PROVE SentInv'
  BY <1>2, BeginsGoOn, GoesOnKeeps DEF SeenRead, deliveryData
<1>3. ASSUME NEW op \in Opens, OpenRead(s, op) PROVE SentInv'
  BY <1>3, BeginsGoOn, GoesOnKeeps DEF OpenRead, Opens, deliveryData
<1> QED BY <1>1, <1>2, <1>3, ConnectKeeps DEF DeliveryRequest, Opens

LEMMA SentNext == TypeInv /\ SentInv /\ [DeliveryNext]_deliveryVars => SentInv'
<1> SUFFICES ASSUME TypeInv, SentInv, [DeliveryNext]_deliveryVars PROVE SentInv'
  OBVIOUS
<1>1. ASSUME NEW s \in Slots, DeliveryStep(s) \/ DeliveryAbandon(s) PROVE SentInv'
  BY <1>1, OthersGoOn, GoesOnKeeps, SendKeeps, ReadKeeps, SweepKeeps DEF DeliveryStep
<1>2. ASSUME NEW u \in Users, Disconnect(u) PROVE SentInv'
  <2>1. \A v : IsOnline(v)' => IsOnline(v)
    BY <1>2 DEF Disconnect, IsOnline, TypeInv, Stored
  <2> QED BY <1>2, <2>1, SentStays DEF Disconnect, AtOnce, Arrives
<1>3. ASSUME NEW u \in Users, LeaveNotice(u) PROVE SentInv'
  BY <1>3, NoticeKeeps DEF LeaveNotice, AtOnce, Arrives
<1>4. ASSUME UNCHANGED deliveryVars PROVE SentInv'
  BY <1>4, SentStays DEF deliveryVars, deliveryData, handlers, IsOnline
<1> QED BY <1>1, <1>2, <1>3, <1>4, RequestSent DEF DeliveryNext

\* With sends kept apart from the sweep of a connection, and no handler stopping, one
\* who is online has every message and offer once nothing is under way, however often
\* he came and went.
THEOREM OnlineHasAllAlways == DeliverySpec => []OnlineHasAll
<1>1. SentInv => OnlineHasAll
  BY DEF SentInv, SendLocks, LacksSwept, Lacks, Swept, OnlineHasAll, Quiet, Busy, Idle
<1> QED BY <1>1, OpenersInit, OpenersNext, TypeInit, TypeNext, SentInit, SentNext, PTL
    DEF DeliverySpec

-----------------------------------------------------------------------------
(* The notification queue.  The flag isProcessing is a lock: set exactly     *)
(* while one handler consumes, and a queue that nobody consumes is empty.    *)

\* What a handler stopped at r.pc relies on, d being the dead tokens.
Sound(r, d) ==
    /\ r.pc # "idle" => r.op \in {"notify", "push"}
    /\ r.pc = "store" => r.op = "notify" /\ r.n \in Notices
    /\ r.pc = "push_read" => r.u \in Receivers
    /\ r.pc \in {"push_send", "push_clean"} => r.tokens \subseteq Tokens
    /\ r.pc = "push_clean" => r.tokens \subseteq d

OneConsumer ==
    /\ \A s, t \in Slots : req[s].op = "notify" /\ req[t].op = "notify" => s = t
    /\ isProcessing <=> \E s \in Slots : req[s].op = "notify"
    /\ ~isProcessing => queue = << >>

InFlight == DOMAIN req = Slots /\ \A s \in Slots : Sound(req[s], dead)

QueueInv == NotificationTypeOK /\ InFlight /\ OneConsumer /\ LiveTokenKept


LEMMA IdleSound == ASSUME NEW d PROVE Sound(Idle, d) /\ Idle.op = "none"
BY DEF Sound, Idle

\* Dead tokens stay dead, so no step of another handler disturbs one.
LEMMA SlotStep ==
    ASSUME InFlight, NEW s \in Slots, NEW r, req' = [req EXCEPT ![s] = r],
           dead \subseteq dead', Sound(r, dead')
    PROVE  InFlight'
BY DEF InFlight, Sound

\* A consumer that goes on stays the only one.
LEMMA ConsumerGoesOn ==
    ASSUME InFlight, OneConsumer, NEW s \in Slots, NEW r, req' = [req EXCEPT ![s] = r],
           r.op = req[s].op, UNCHANGED isProcessing, isProcessing \/ UNCHANGED queue
    PROVE  OneConsumer'
BY DEF InFlight, OneConsumer

\* How a job ends: the handler stops, or takes the head of the queue.
JobEnds(s) ==
    \/ /\ req' = [req EXCEPT ![s] = Idle] /\ UNCHANGED queue
       /\ req[s].op = "push" /\ UNCHANGED isProcessing
    \/ /\ req' = [req EXCEPT ![s] = Idle] /\ UNCHANGED queue
       /\ req[s].op # "push" /\ queue = << >> /\ isProcessing' = FALSE
    \/ /\ req[s].op # "push" /\ queue # << >> /\ UNCHANGED isProcessing
       /\ req' = [req EXCEPT ![s] = Executing(Head(queue))] /\ queue' = Tail(queue)

LEMMA NextJobEnds == ASSUME NEW s \in Slots, NextJob(s) PROVE JobEnds(s)
BY DEF NextJob, JobEnds, Finish, Goto

LEMMA TailType ==
    ASSUME NotificationTypeOK, queue # << >>
    PROVE  /\ Head(queue) \in Notices /\ Tail(queue) \in Seq(Notices)
           /\ <<Head(queue)>> \o Tail(queue) = queue
BY DEF NotificationTypeOK

LEMMA JobEndKeeps ==
    ASSUME QueueInv, NEW s \in Slots, JobEnds(s), req[s].op \in {"notify", "push"},
           UNCHANGED dead
    PROVE  InFlight' /\ OneConsumer' /\ queue' \in Seq(Notices) /\ isProcessing' \in BOOLEAN
<1> USE DEF QueueInv
<1>1. CASE req' = [req EXCEPT ![s] = Idle] /\ UNCHANGED queue /\ req[s].op = "push"
            /\ UNCHANGED isProcessing
  <2>1. InFlight'
    BY <1>1, SlotStep, IdleSound
  <2>2. OneConsumer'
    BY <1>1 DEF InFlight, OneConsumer, Idle
  <2> QED BY <1>1, <2>1, <2>2 DEF NotificationTypeOK
<1>2. CASE req' = [req EXCEPT ![s] = Idle] /\ UNCHANGED queue /\ req[s].op = "notify"
            /\ queue = << >> /\ isProcessing' = FALSE
  <2>1. InFlight'
    BY <1>2, SlotStep, IdleSound
  <2>2. OneConsumer'
    BY <1>2 DEF InFlight, OneConsumer, Idle
  <2> QED BY <1>2, <2>1, <2>2 DEF NotificationTypeOK
<1>3. CASE req[s].op = "notify" /\ queue # << >> /\ UNCHANGED isProcessing
            /\ req' = [req EXCEPT ![s] = Executing(Head(queue))] /\ queue' = Tail(queue)
  <2>1. Sound(Executing(Head(queue)), dead') /\ Executing(Head(queue)).op = "notify"
    BY <1>3, TailType DEF Sound, Executing
  <2>2. isProcessing
    BY <1>3 DEF OneConsumer
  <2>3. InFlight'
    BY <1>3, <2>1, SlotStep
  <2>4. OneConsumer'
    BY <1>3, <2>1, <2>2, ConsumerGoesOn
  <2> QED BY <1>3, <2>3, <2>4, TailType DEF NotificationTypeOK
<1> QED BY <1>1, <1>2, <1>3 DEF JobEnds

LEMMA QueueInit == NotificationInit /\ HandlersInit => QueueInv
<1> SUFFICES ASSUME NotificationInit, HandlersInit PROVE QueueInv
  OBVIOUS
<1>1. NotificationTypeOK
  <2>1. isProcessing \in BOOLEAN
    BY DEF NotificationInit
  <2>2. queue \in Seq(Notices) /\ stored \in Seq(Notices)
    BY DEF NotificationInit
  <2>3. owner \in [Tokens -> Receivers \cup {None}] /\ registered = owner
    BY DEF NotificationInit
  <2>4. created \subseteq Notices /\ dead \subseteq Tokens
    BY DEF NotificationInit
  <2> QED BY <2>1, <2>2, <2>3, <2>4 DEF NotificationTypeOK
<1>2. InFlight
  BY IdleSound DEF HandlersInit, InFlight
<1>3. OneConsumer
  BY DEF NotificationInit, HandlersInit, OneConsumer, Idle
<1>4. LiveTokenKept
  BY DEF NotificationInit, LiveTokenKept
<1> QED BY <1>1, <1>2, <1>3, <1>4 DEF QueueInv


LEMMA AddKeeps == ASSUME QueueInv, NEW s \in Slots, NEW n \in Notices, Add(s, n) PROVE QueueInv'
<1> USE DEF QueueInv
<1>1. /\ created' = created \cup {n} /\ UNCHANGED <<stored, tokenData>>
      /\ \/ isProcessing /\ queue' = Append(queue, n) /\ UNCHANGED <<req, isProcessing>>
         \/ /\ ~isProcessing /\ UNCHANGED queue /\ isProcessing' = TRUE
            /\ req[s] = Idle /\ req' = [req EXCEPT ![s] = Executing(n)]
  BY DEF Add, AtOnce, Begin, Busy
<1>2. NotificationTypeOK' /\ LiveTokenKept'
  <2>1. queue' \in Seq(Notices)
    BY <1>1 DEF NotificationTypeOK
  <2>2. isProcessing' \in BOOLEAN
    BY <1>1 DEF NotificationTypeOK
  <2>3. created' \subseteq Notices /\ stored' \in Seq(Notices)
    BY <1>1 DEF NotificationTypeOK
  <2>4. UNCHANGED tokenData
    BY <1>1
  <2> QED BY <2>1, <2>2, <2>3, <2>4 DEF NotificationTypeOK, LiveTokenKept, tokenData
<1>3. CASE isProcessing
  BY <1>1, <1>2, <1>3 DEF InFlight, OneConsumer, tokenData
<1>4. CASE ~isProcessing
  <2>1. Sound(Executing(n), dead) /\ Executing(n).op = "notify"
    BY DEF Sound, Executing
  <2>2. InFlight'
    BY <1>1, <1>4, <2>1, SlotStep DEF tokenData
  <2>3. OneConsumer'
    BY <1>1, <1>4, <2>1 DEF InFlight, OneConsumer
  <2> QED BY <1>2, <2>2, <2>3
<1> QED BY <1>3, <1>4

LEMMA StoreKeeps == ASSUME QueueInv, NEW s \in Slots, StoreNotice(s) PROVE QueueInv'
<1> USE DEF QueueInv
<1>1. req[s].op = "notify" /\ req[s].n \in Notices /\ UNCHANGED <<created, tokenData>>
  BY DEF StoreNotice, At, InFlight, Sound
<1>2. LiveTokenKept' /\ dead' = dead
  BY <1>1 DEF LiveTokenKept, tokenData
<1>3. ASSUME NEW u \in Receivers, stored' = Append(stored, req[s].n),
             Goto(s, [op |-> "notify", pc |-> "push_read", u |-> u]),
             UNCHANGED <<queue, isProcessing>>
      PROVE  QueueInv'
  <2> DEFINE r == [op |-> "notify", pc |-> "push_read", u |-> u]
  <2>1. req' = [req EXCEPT ![s] = r] /\ r.op = "notify" /\ Sound(r, dead')
    BY <1>3 DEF Goto, Sound
  <2> HIDE DEF r
  <2>2. InFlight' /\ OneConsumer'
    BY <1>1, <1>2, <1>3, <2>1, SlotStep, ConsumerGoesOn
  <2>3. NotificationTypeOK'
    BY <1>1, <1>3 DEF NotificationTypeOK, tokenData
  <2> QED BY <1>2, <2>2, <2>3
<1>4. ASSUME NextJob(s), UNCHANGED stored PROVE QueueInv'
  <2>1. InFlight' /\ OneConsumer' /\ queue' \in Seq(Notices) /\ isProcessing' \in BOOLEAN
    BY <1>1, <1>2, <1>4, NextJobEnds, JobEndKeeps
  <2>2. NotificationTypeOK'
    BY <1>1, <1>4, <2>1 DEF NotificationTypeOK, tokenData
  <2> QED BY <1>2, <2>1, <2>2
<1> QED BY <1>3, <1>4 DEF StoreNotice

\* A push in the queue or beside it touches neither what is stored nor the
\* registrations of live devices.
LEMMA PushEnds ==
    ASSUME QueueInv, NEW s \in Slots, NextJob(s), req[s].op \in {"notify", "push"},
           UNCHANGED <<created, stored, dead, registered>>,
           owner' \in [Tokens -> Receivers \cup {None}],
           \A t \in Tokens \ dead : owner'[t] = owner[t]
    PROVE  QueueInv'
<1>1. InFlight' /\ OneConsumer' /\ queue' \in Seq(Notices) /\ isProcessing' \in BOOLEAN
  BY NextJobEnds, JobEndKeeps
<1>2. NotificationTypeOK'
  BY <1>1 DEF QueueInv, NotificationTypeOK
<1>3. LiveTokenKept'
  BY DEF QueueInv, LiveTokenKept
<1> QED BY <1>1, <1>2, <1>3 DEF QueueInv

LEMMA PushGoesOn ==
    ASSUME QueueInv, NEW s \in Slots, NEW r, Goto(s, r), r.op = req[s].op, Sound(r, dead),
           UNCHANGED <<queueData, tokenData>>
    PROVE  QueueInv'
<1>1. InFlight' /\ OneConsumer'
  BY SlotStep, ConsumerGoesOn DEF QueueInv, Goto, queueData, tokenData
<1>2. NotificationTypeOK' /\ LiveTokenKept'
  BY DEF QueueInv, NotificationTypeOK, LiveTokenKept, queueData, tokenData
<1> QED BY <1>1, <1>2 DEF QueueInv


LEMMA PushKeeps ==
    ASSUME QueueInv, NEW s \in Slots, PushRead(s) \/ PushSend(s) \/ PushClean(s)
    PROVE  QueueInv'
<1> DEFINE q == req[s]
<1>1. q.op \in {"notify", "push"} /\ Sound(q, dead) /\ owner \in [Tokens -> Receivers \cup {None}]
  BY DEF PushRead, PushSend, PushClean, At, QueueInv, InFlight, Sound, NotificationTypeOK
<1>2. ASSUME NextJob(s), UNCHANGED <<created, stored, tokenData>> PROVE QueueInv'
  BY <1>1, <1>2, PushEnds DEF tokenData
<1>3. CASE PushRead(s)
  <2> DEFINE tokens == {t \in Tokens : owner[t] = q.u}
             r == [op |-> q.op, pc |-> "push_send", tokens |-> tokens]
  <2>1. CASE tokens = {}
    BY <1>2, <1>3, <2>1 DEF PushRead
  <2>2. CASE tokens # {}
    <3>1. Goto(s, r) /\ UNCHANGED <<queueData, tokenData>>
      BY <1>3, <2>2 DEF PushRead, queueData
    <3>2. Sound(r, dead) /\ r.op = q.op
      BY <1>1 DEF Sound
    <3> HIDE DEF r
    <3> QED BY <3>1, <3>2, PushGoesOn
  <2> QED BY <2>1, <2>2
<1>4. CASE PushSend(s)
  <2>1. ASSUME NEW failed \in SUBSET q.tokens, Removable(q.tokens, failed) # {},
               Goto(s, [op |-> q.op, pc |-> "push_clean", tokens |-> Removable(q.tokens, failed)]),
               UNCHANGED <<queue, isProcessing, created, stored, tokenData>>
        PROVE  QueueInv'
    <3> DEFINE r == [op |-> q.op, pc |-> "push_clean", tokens |-> Removable(q.tokens, failed)]
    <3>1. q.tokens \subseteq Tokens
      BY <1>1, <1>4 DEF PushSend, At, Sound
    <3>2. Sound(r, dead) /\ r.op = q.op
      BY <1>1, <3>1 DEF Sound, Removable
    <3>3. Goto(s, r) /\ UNCHANGED <<queueData, tokenData>>
      BY <2>1 DEF queueData
    <3> HIDE DEF r
    <3> QED BY <3>2, <3>3, PushGoesOn
  <2> QED BY <1>2, <1>4, <2>1 DEF PushSend
<1>5. CASE PushClean(s)
  <2>1. q.tokens \subseteq dead
    BY <1>1, <1>5 DEF PushClean, At, Sound
  <2>2. owner' = [t \in Tokens |-> IF t \in q.tokens THEN None ELSE owner[t]]
    BY <1>5 DEF PushClean
  <2>3. /\ owner' \in [Tokens -> Receivers \cup {None}]
        /\ \A t \in Tokens \ dead : owner'[t] = owner[t]
    BY <1>1, <2>1, <2>2
  <2> QED BY <1>1, <1>5, <2>3, PushEnds DEF PushClean
<1> QED BY <1>3, <1>4, <1>5

LEMMA TokensKeep ==
    ASSUME QueueInv,
           \/ \E u \in Receivers, t \in Tokens : AddFcmToken(u, t) \/ RemoveFcmToken(u, t)
           \/ \E t \in Tokens : TokenDies(t)
    PROVE  QueueInv'
<1> USE DEF QueueInv, NotificationTypeOK
<1>1. UNCHANGED <<queueData, req>> /\ dead \subseteq dead'
  BY DEF AddFcmToken, RemoveFcmToken, TokenDies, AtOnce, handlers
<1>2. InFlight' /\ OneConsumer'
  BY <1>1 DEF InFlight, Sound, OneConsumer, queueData
<1>3. ASSUME NEW u \in Receivers, NEW t \in Tokens, AddFcmToken(u, t) \/ RemoveFcmToken(u, t)
      PROVE  (NotificationTypeOK /\ LiveTokenKept)'
  <2>1. /\ owner' \in [Tokens -> Receivers \cup {None}]
        /\ registered' \in [Tokens -> Receivers \cup {None}]
        /\ UNCHANGED <<queueData, dead>>
    BY <1>3 DEF AddFcmToken, RemoveFcmToken
  <2>2. LiveTokenKept'
    BY <1>3, <2>1 DEF AddFcmToken, RemoveFcmToken, LiveTokenKept
  <2> QED BY <2>1, <2>2 DEF queueData
<1>4. ASSUME NEW t \in Tokens, TokenDies(t) PROVE (NotificationTypeOK /\ LiveTokenKept)'
  BY <1>4 DEF TokenDies, LiveTokenKept, queueData
<1> QED BY <1>2, <1>3, <1>4

LEMMA RestartKeeps == ASSUME QueueInv, Restart PROVE QueueInv'
<1>1. InFlight'
  BY IdleSound DEF Restart, InFlight
<1>2. OneConsumer'
  BY DEF Restart, OneConsumer, Idle
<1>3. NotificationTypeOK' /\ LiveTokenKept'
  <2>1. isProcessing' \in BOOLEAN
    BY DEF Restart
  <2>2. queue' \in Seq(Notices)
    BY DEF Restart
  <2> QED BY <2>1, <2>2 DEF Restart, QueueInv, NotificationTypeOK, LiveTokenKept, tokenData
<1> QED BY <1>1, <1>2, <1>3 DEF QueueInv

LEMMA QueueNext == QueueInv /\ [NotificationNext]_noticeVars => QueueInv'
<1> SUFFICES ASSUME QueueInv, [NotificationNext]_noticeVars PROVE QueueInv'
  OBVIOUS
<1>1. ASSUME NEW s \in Slots, NotificationStep(s) PROVE QueueInv'
  BY <1>1, StoreKeeps, PushKeeps DEF NotificationStep
<1>2. ASSUME NEW s \in Slots, NEW n \in Notices, Add(s, n) PROVE QueueInv'
  BY <1>2, AddKeeps
<1>3. ASSUME NEW s \in Slots, NEW u \in Receivers, PushBegin(s, u) PROVE QueueInv'
  <2> DEFINE r == [op |-> "push", pc |-> "push_read", u |-> u]
  <2>1. /\ req' = [req EXCEPT ![s] = r] /\ req[s] = Idle
        /\ UNCHANGED <<queueData, tokenData>>
    BY <1>3 DEF PushBegin, Begin, Busy
  <2>2. Sound(r, dead) /\ r.op = "push"
    BY DEF Sound
  <2> HIDE DEF r
  <2>3. InFlight'
    BY <2>1, <2>2, SlotStep DEF QueueInv, tokenData
  <2>4. OneConsumer'
    BY <2>1, <2>2 DEF QueueInv, InFlight, OneConsumer, Idle, queueData
  <2>5. NotificationTypeOK' /\ LiveTokenKept'
    BY <2>1 DEF QueueInv, NotificationTypeOK, LiveTokenKept, queueData, tokenData
  <2> QED BY <2>3, <2>4, <2>5 DEF QueueInv
<1>4. CASE UNCHANGED noticeVars
  BY <1>4 DEF noticeVars, handlers, queueData, tokenData, QueueInv, NotificationTypeOK,
              InFlight, OneConsumer, LiveTokenKept
<1> QED BY <1>1, <1>2, <1>3, <1>4, TokensKeep, RestartKeeps DEF NotificationNext

THEOREM QueueInvariant == NotificationSpec => []QueueInv
BY QueueInit, QueueNext, PTL DEF NotificationSpec

\* Type correctness.
THEOREM NotificationTypeCorrect == NotificationSpec => []NotificationTypeOK
<1>1. QueueInv => NotificationTypeOK
  BY DEF QueueInv
<1> QED BY <1>1, QueueInvariant, PTL

\* A device that Firebase still knows stays with the user it was last registered
\* for, whatever pushes fail meanwhile.
THEOREM LiveTokenKeptAlways == NotificationSpec => []LiveTokenKept
<1>1. QueueInv => LiveTokenKept
  BY DEF QueueInv
<1> QED BY <1>1, QueueInvariant, PTL

-----------------------------------------------------------------------------
(* The refinement of Mailbox, without its fairness *)

LEMMA WaitingNow ==
    ASSUME OneConsumer, InFlight
    PROVE  /\ \A s \in Slots : At(s, "store") => Waiting = <<req[s].n>> \o queue
           /\ (\A s \in Slots : ~At(s, "store")) => Waiting = queue
<1> DEFINE storing == {s \in Slots : At(s, "store")}
<1>1. ASSUME NEW s \in Slots, At(s, "store") PROVE Waiting = <<req[s].n>> \o queue
  <2>1. \A t \in storing : t = s
    BY <1>1 DEF OneConsumer, InFlight, Sound, At
  <2>2. storing # {} /\ (CHOOSE t \in storing : TRUE) = s
    BY <1>1, <2>1
  <2> QED BY <2>2 DEF Waiting
<1>2. (\A s \in Slots : ~At(s, "store")) => Waiting = queue
  BY DEF Waiting
<1> QED BY <1>1, <1>2

LEMMA WaitingNext ==
    ASSUME OneConsumer', InFlight'
    PROVE  /\ \A s \in Slots : req'[s].pc = "store" => Waiting' = <<req'[s].n>> \o queue'
           /\ (\A s \in Slots : req'[s].pc # "store") => Waiting' = queue'
<1> DEFINE storing == {s \in Slots : req'[s].pc = "store"}
<1>1. ASSUME NEW s \in Slots, req'[s].pc = "store" PROVE Waiting' = <<req'[s].n>> \o queue'
  <2>1. \A t \in storing : t = s
    BY <1>1 DEF OneConsumer, InFlight, Sound
  <2>2. storing # {} /\ (CHOOSE t \in storing : TRUE) = s
    BY <1>1, <2>1
  <2> QED BY <2>2 DEF Waiting, At
<1>2. (\A s \in Slots : req'[s].pc # "store") => Waiting' = queue'
  BY DEF Waiting, At
<1> QED BY <1>1, <1>2

\* The end of a job, when it is not the storing one, changes nothing that waits.
LEMMA JobEndWaits ==
    ASSUME QueueInv, QueueInv', NEW s \in Slots, JobEnds(s), req[s].pc \in {"push_read", "push_send", "push_clean"}
    PROVE  UNCHANGED Waiting
<1> USE DEF QueueInv
<1>1. \A t \in Slots : req[t].pc = "store" => req[t].op = "notify"
  BY DEF InFlight, Sound
<1>2. CASE req' = [req EXCEPT ![s] = Idle] /\ UNCHANGED queue
  <2>1. \A t \in Slots : req'[t] = IF t = s THEN Idle ELSE req[t]
    BY <1>2 DEF InFlight
  <2>2. CASE \A t \in Slots : req[t].pc # "store"
    <3>1. \A t \in Slots : req'[t].pc # "store"
      BY <2>1, <2>2 DEF Idle
    <3> QED BY <1>2, <2>2, <3>1, WaitingNow, WaitingNext DEF At
  <2>3. ASSUME NEW t \in Slots, req[t].pc = "store" PROVE UNCHANGED Waiting
    <3>1. t # s /\ req'[t] = req[t]
      BY <2>1, <2>3
    <3>2. Waiting = <<req[t].n>> \o queue
      BY <2>3, WaitingNow DEF At
    <3>3. Waiting' = <<req'[t].n>> \o queue'
      BY <2>3, <3>1, WaitingNext
    <3> QED BY <1>2, <3>1, <3>2, <3>3
  <2> QED BY <2>2, <2>3
<1>3. CASE req[s].op # "push" /\ queue # << >>
           /\ req' = [req EXCEPT ![s] = Executing(Head(queue))] /\ queue' = Tail(queue)
  <2>1. req[s].op = "notify"
    BY <1>3 DEF InFlight, Sound
  <2>2. \A t \in Slots : req[t].pc # "store"
    BY <1>1, <2>1 DEF OneConsumer
  <2>3. Waiting = queue
    BY <2>2, WaitingNow DEF At
  <2>4. req'[s].pc = "store" /\ req'[s].n = Head(queue)
    BY <1>3 DEF InFlight, Executing
  <2>5. Waiting' = <<Head(queue)>> \o Tail(queue)
    BY <1>3, <2>4, WaitingNext
  <2> QED BY <1>3, <2>3, <2>5, TailType
<1> QED BY <1>2, <1>3 DEF JobEnds

LEMMA AddWaits ==
    ASSUME QueueInv, QueueInv', NEW s \in Slots, NEW n \in Notices, Add(s, n)
    PROVE  Waiting' = Append(Waiting, n) /\ UNCHANGED stored
<1> USE DEF QueueInv
<1>1. CASE isProcessing
  <2>1. queue' = Append(queue, n) /\ UNCHANGED <<req, stored>>
    BY <1>1 DEF Add, AtOnce
  <2>2. CASE \A t \in Slots : req[t].pc # "store"
    BY <2>1, <2>2, WaitingNow, WaitingNext DEF At
  <2>3. ASSUME NEW t \in Slots, req[t].pc = "store" PROVE Waiting' = Append(Waiting, n)
    <3>1. Waiting = <<req[t].n>> \o queue /\ Waiting' = <<req[t].n>> \o Append(queue, n)
      BY <2>1, <2>3, WaitingNow, WaitingNext DEF At
    <3>2. queue \in Seq(Notices) /\ req[t].n \in Notices
      BY <2>3 DEF NotificationTypeOK, InFlight, Sound
    <3> QED BY <3>1, <3>2
  <2> QED BY <2>1, <2>2, <2>3
<1>2. CASE ~isProcessing
  <2>1. queue = << >> /\ queue' = << >> /\ UNCHANGED stored
    BY <1>2 DEF Add, OneConsumer
  <2>2. \A t \in Slots : req[t].pc # "store"
    BY <1>2 DEF OneConsumer, InFlight, Sound
  <2>3. req'[s].pc = "store" /\ req'[s].n = n
    BY <1>2 DEF Add, Begin, InFlight, Executing
  <2>4. Waiting = << >> /\ Waiting' = <<n>> \o << >>
    BY <2>1, <2>2, <2>3, WaitingNow, WaitingNext DEF At
  <2> QED BY <2>1, <2>4
<1> QED BY <1>1, <1>2

\* Storing delivers; failing to store loses the notification that was its turn.
LEMMA StoreWaits ==
    ASSUME QueueInv, QueueInv', NEW s \in Slots, StoreNotice(s)
    PROVE  /\ Waiting # << >> /\ Waiting' = Tail(Waiting)
           /\ \/ stored' = Append(stored, Head(Waiting))
              \/ failing /\ UNCHANGED stored
<1> USE DEF QueueInv
<1>1. req[s].pc = "store" /\ req[s].op = "notify" /\ req[s].n \in Notices /\ queue \in Seq(Notices)
  BY DEF StoreNotice, At, InFlight, Sound, NotificationTypeOK
<1>2. Waiting = <<req[s].n>> \o queue
  BY <1>1, WaitingNow DEF At
<1>3. Waiting # << >> /\ Head(Waiting) = req[s].n /\ Tail(Waiting) = queue
  BY <1>1, <1>2
<1>4. \A t \in Slots : t # s => req[t].pc # "store"
  BY <1>1 DEF OneConsumer, InFlight, Sound
<1>5. ASSUME NEW u \in Receivers, stored' = Append(stored, req[s].n), UNCHANGED queue,
             Goto(s, [op |-> "notify", pc |-> "push_read", u |-> u])
      PROVE  Waiting' = queue
  <2>1. \A t \in Slots : req'[t].pc # "store"
    BY <1>4, <1>5 DEF Goto, InFlight
  <2> QED BY <1>5, <2>1, WaitingNext
<1>6. ASSUME NextJob(s) PROVE Waiting' = queue
  <2>1. CASE req' = [req EXCEPT ![s] = Idle] /\ UNCHANGED queue
    <3>1. \A t \in Slots : req'[t].pc # "store"
      BY <1>4, <2>1 DEF Idle, InFlight
    <3> QED BY <2>1, <3>1, WaitingNext
  <2>2. CASE queue # << >> /\ req' = [req EXCEPT ![s] = Executing(Head(queue))]
             /\ queue' = Tail(queue)
    <3>1. req'[s].pc = "store" /\ req'[s].n = Head(queue)
      BY <2>2 DEF InFlight, Executing
    <3>2. Waiting' = <<Head(queue)>> \o Tail(queue)
      BY <2>2, <3>1, WaitingNext
    <3> QED BY <2>2, <3>2, TailType
  <2> QED BY <1>6, <2>1, <2>2, NextJobEnds DEF JobEnds
<1>7. \/ stored' = Append(stored, req[s].n) /\ Waiting' = queue
      \/ failing /\ UNCHANGED stored /\ Waiting' = queue
  BY <1>5, <1>6 DEF StoreNotice
<1> QED BY <1>3, <1>7

LEMMA StepRefines ==
    ASSUME QueueInv, QueueInv', [NotificationNext]_noticeVars
    PROVE  [MB!MailNext]_<<Waiting, stored, failing>>
<1> USE DEF QueueInv
<1>1. ASSUME NEW s \in Slots, NEW n \in Notices, Add(s, n) PROVE MB!Accept
  <2>1. UNCHANGED failing
    BY <1>1 DEF Add, AtOnce, Begin, Arrives
  <2> QED BY <1>1, <2>1, AddWaits DEF MB!Accept
<1>2. ASSUME NEW s \in Slots, StoreNotice(s) PROVE MB!Deliver \/ MB!Lose
  <2>1. UNCHANGED failing
    BY <1>2 DEF StoreNotice, Goto, NextJob, Finish
  <2> QED BY <1>2, <2>1, StoreWaits DEF MB!Deliver, MB!Lose
<1>3. ASSUME NEW s \in Slots, NEW r, req[s].pc # "store", r.pc # "store",
             req' = [req EXCEPT ![s] = r], UNCHANGED queue
      PROVE  UNCHANGED Waiting
  <2>1. \A t \in Slots : req'[t] = IF t = s THEN r ELSE req[t]
    BY <1>3 DEF InFlight
  <2>2. CASE \A t \in Slots : req[t].pc # "store"
    <3>1. \A t \in Slots : req'[t].pc # "store"
      BY <1>3, <2>1, <2>2
    <3> QED BY <1>3, <2>2, <3>1, WaitingNow, WaitingNext DEF At
  <2>3. ASSUME NEW t \in Slots, req[t].pc = "store" PROVE UNCHANGED Waiting
    <3>1. req'[t] = req[t]
      BY <1>3, <2>1, <2>3
    <3>2. Waiting = <<req[t].n>> \o queue
      BY <2>3, WaitingNow DEF At
    <3>3. Waiting' = <<req'[t].n>> \o queue'
      BY <2>3, <3>1, WaitingNext
    <3> QED BY <1>3, <3>1, <3>2, <3>3
  <2> QED BY <2>2, <2>3
<1>4. ASSUME NEW s \in Slots, PushRead(s) \/ PushSend(s) \/ PushClean(s)
      PROVE  UNCHANGED <<Waiting, stored, failing>>
  <2>1. UNCHANGED stored /\ UNCHANGED failing
    BY <1>4 DEF PushRead, PushSend, PushClean, NextJob, Goto, Finish
  <2>2. req[s].pc \in {"push_read", "push_send", "push_clean"}
    BY <1>4 DEF PushRead, PushSend, PushClean, At
  <2>3. ASSUME NextJob(s) PROVE UNCHANGED Waiting
    BY <2>2, <2>3, NextJobEnds, JobEndWaits
  <2>4. ASSUME NEW r, Goto(s, r), r.pc # "store", UNCHANGED queue PROVE UNCHANGED Waiting
    BY <1>3, <2>2, <2>4 DEF Goto
  <2>5. NextJob(s) \/ \E r : Goto(s, r) /\ r.pc # "store" /\ UNCHANGED queue
    BY <1>4 DEF PushRead, PushSend, PushClean
  <2> QED BY <2>1, <2>3, <2>4, <2>5
<1>5. ASSUME NEW s \in Slots, NEW u \in Receivers, PushBegin(s, u)
      PROVE  UNCHANGED <<Waiting, stored, failing>>
  <2> DEFINE r == [op |-> "push", pc |-> "push_read", u |-> u]
  <2>1. /\ req[s].pc = "idle" /\ req' = [req EXCEPT ![s] = r] /\ r.pc = "push_read"
        /\ UNCHANGED <<queue, stored, failing>>
    BY <1>5 DEF PushBegin, Begin, Busy, Idle, Arrives, queueData
  <2> HIDE DEF r
  <2> QED BY <1>3, <2>1
<1>6. ASSUME UNCHANGED <<req, queue, stored, failing>>
      PROVE  UNCHANGED <<Waiting, stored, failing>>
  BY <1>6 DEF Waiting, At
<1>7. ASSUME \/ \E u \in Receivers, t \in Tokens : AddFcmToken(u, t) \/ RemoveFcmToken(u, t)
             \/ \E t \in Tokens : TokenDies(t)
             \/ UNCHANGED noticeVars
      PROVE  UNCHANGED <<Waiting, stored, failing>>
  BY <1>6, <1>7 DEF AddFcmToken, RemoveFcmToken, TokenDies, AtOnce, Arrives, noticeVars,
                    handlers, queueData
<1>8. ASSUME Restart PROVE [MB!MailNext]_<<Waiting, stored, failing>>
  <2>1. failing /\ UNCHANGED <<stored, failing>>
    BY <1>8 DEF Restart
  <2>2. Waiting' = << >>
    BY <1>8, WaitingNext DEF Restart, Idle
  <2>3. CASE Waiting = << >>
    BY <2>1, <2>2, <2>3
  <2>4. CASE Waiting # << >>
    BY <2>1, <2>2, <2>4 DEF MB!MailNext, MB!Lose
  <2> QED BY <2>3, <2>4
<1> QED BY <1>1, <1>2, <1>4, <1>5, <1>7, <1>8
    DEF NotificationNext, NotificationStep, MB!MailNext

\* The queue and its flag are a mailbox: each notification is stored once and in
\* the order of its creation, unless its write fails or the process dies.
THEOREM ImplementsMailSafety == NotificationSpec => MB!MailSpec
<1>1. NotificationInit /\ HandlersInit /\ QueueInv => MB!MailInit
  <2> SUFFICES ASSUME NotificationInit, HandlersInit, QueueInv PROVE MB!MailInit
    OBVIOUS
  <2>1. Waiting = << >>
    BY WaitingNow DEF NotificationInit, HandlersInit, Idle, At, QueueInv
  <2>2. failing \in BOOLEAN
    BY HandlersAssumption DEF HandlersInit
  <2> QED BY <2>1, <2>2 DEF MB!MailInit, NotificationInit
<1>2. QueueInv /\ QueueInv' /\ [NotificationNext]_noticeVars => [MB!MailNext]_<<Waiting, stored, failing>>
  BY StepRefines
<1> QED BY <1>1, <1>2, QueueInvariant, PTL DEF NotificationSpec, MB!MailSpec, MB!mailVars
=============================================================================
