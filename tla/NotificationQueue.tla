------------------------- MODULE NotificationQueue --------------------------
(***************************************************************************)
(* Background notifications and the pushes to a user's devices.  It models *)
(*   Notification/notification.queue.ts    add, processQueue, executeJob   *)
(*   Notification/notification.service.ts  createNotification, the device  *)
(*                                         tokens                          *)
(*   helpers/fcmPush.ts                    sendFcmPushNotification         *)
(* A handler in flight is the one consumer of the queue ("notify") or the  *)
(* push of a chat message to an offline receiver ("push").  add runs       *)
(* processQueue up to its first await, and the end of a job runs on to the *)
(* next job's first await: each is one step.                               *)
(***************************************************************************)
EXTENDS Handlers, Sequences

CONSTANTS Notices,     \* notifications that may be created (a bound)
          Receivers,   \* users
          Tokens       \* device tokens

ASSUME QueueAssumption == None \notin Receivers

VARIABLES
    queue,        \* notificationQueue.queue
    isProcessing, \* notificationQueue.isProcessing
    created,      \* notifications created so far (history)
    stored,       \* notifications rows, in the order of their creation
    owner,        \* user_device_tokens: the user of each token, or None
    registered,   \* the user each device was last registered for (history)
    dead          \* tokens Firebase no longer knows

queueData  == <<queue, isProcessing, created, stored>>
tokenData  == <<owner, registered, dead>>
noticeVars == <<queueData, tokenData, handlers>>

NotificationInit ==
    /\ queue = << >>
    /\ isProcessing = FALSE
    /\ created = {}
    /\ stored = << >>
    /\ owner = [t \in Tokens |-> None]
    /\ registered = owner
    /\ dead = {}

-----------------------------------------------------------------------------
(* The queue *)

Executing(n) == [op |-> "notify", pc |-> "store", n |-> n]

\* createNotification: the job waits when a consumer runs, which goes on to it.
Add(s, n) ==
    /\ n \notin created
    /\ created' = created \cup {n}
    /\ IF isProcessing
       THEN queue' = Append(queue, n) /\ AtOnce("add") /\ UNCHANGED isProcessing
       ELSE queue' = queue /\ Begin(s, Executing(n)) /\ isProcessing' = TRUE
    /\ UNCHANGED <<stored, tokenData>>

NextJob_KeepsFlag(s) ==
    IF req[s].op = "push" \/ queue = << >>
    THEN Finish(s) /\ UNCHANGED <<queue, isProcessing>>
    ELSE Goto(s, Executing(Head(queue))) /\ queue' = Tail(queue) /\ UNCHANGED isProcessing
\* The job is over, one way or another.
NextJob(s) ==
    IF req[s].op = "push" THEN Finish(s) /\ UNCHANGED <<queue, isProcessing>>
    ELSE IF queue = << >> THEN Finish(s) /\ isProcessing' = FALSE /\ UNCHANGED queue
    ELSE Goto(s, Executing(Head(queue))) /\ queue' = Tail(queue) /\ UNCHANGED isProcessing

StoreNotice_WholeJob(s) ==
    /\ At(s, "store")
    /\ stored' = Append(stored, req[s])
    /\ \E u \in Receivers : Goto(s, [op |-> "notify", pc |-> "push_read", u |-> u])
    /\ UNCHANGED <<queue, isProcessing, created, tokenData>>
\* notification.create: the push follows, or the error ends the job.
StoreNotice(s) ==
    /\ At(s, "store")
    /\ \/ /\ stored' = Append(stored, req[s].n)
          /\ \E u \in Receivers : Goto(s, [op |-> "notify", pc |-> "push_read", u |-> u])
          /\ UNCHANGED <<queue, isProcessing>>
       \/ failing /\ NextJob(s) /\ UNCHANGED stored
    /\ UNCHANGED <<created, tokenData>>

-----------------------------------------------------------------------------
(* sendFcmPushNotification *)

\* A chat message for an offline receiver is pushed beside the queue.
PushBegin(s, u) ==
    /\ Begin(s, [op |-> "push", pc |-> "push_read", u |-> u])
    /\ UNCHANGED <<queueData, tokenData>>

PushRead(s) ==
    /\ At(s, "push_read")
    /\ LET tokens == {t \in Tokens : owner[t] = req[s].u}
       IN  IF tokens = {} THEN NextJob(s)
           ELSE /\ Goto(s, [op |-> req[s].op, pc |-> "push_send", tokens |-> tokens])
                /\ UNCHANGED <<queue, isProcessing>>
    /\ UNCHANGED <<created, stored, tokenData>>

\* Of the failed sends those are cleaned up whose error says the token is gone.
Removable_AllFailed(tokens, failed) == failed
Removable(tokens, failed) == failed \cap dead

\* Any send may fail; those to dead tokens do.  The call as a whole may throw.
PushSend(s) ==
    /\ At(s, "push_send")
    /\ LET tokens == req[s].tokens
       IN  \/ \E failed \in SUBSET tokens :
                /\ tokens \cap dead \subseteq failed
                /\ IF Removable(tokens, failed) = {} THEN NextJob(s)
                   ELSE /\ Goto(s, [op |-> req[s].op, pc |-> "push_clean",
                                    tokens |-> Removable(tokens, failed)])
                        /\ UNCHANGED <<queue, isProcessing>>
           \/ failing /\ NextJob(s)
    /\ UNCHANGED <<created, stored, tokenData>>

PushClean(s) ==
    /\ At(s, "push_clean")
    /\ owner' = [t \in Tokens |-> IF t \in req[s].tokens THEN None ELSE owner[t]]
    /\ NextJob(s)
    /\ UNCHANGED <<created, stored, registered, dead>>

-----------------------------------------------------------------------------
(* Device tokens *)

\* An upsert on the token: a device belongs to who registered it last.
AddFcmToken(u, t) ==
    /\ owner' = [owner EXCEPT ![t] = u]
    /\ registered' = [registered EXCEPT ![t] = u]
    /\ AtOnce("token")
    /\ UNCHANGED <<queueData, dead>>

RemoveFcmToken(u, t) ==
    /\ registered[t] = u
    /\ owner' = [owner EXCEPT ![t] = IF @ = u THEN None ELSE @]
    /\ registered' = [registered EXCEPT ![t] = None]
    /\ AtOnce("token")
    /\ UNCHANGED <<queueData, dead>>

\* Firebase drops a token for good: the app is gone or the token was replaced.
TokenDies(t) ==
    /\ t \notin dead
    /\ dead' = dead \cup {t}
    /\ UNCHANGED <<queueData, owner, registered, handlers>>

-----------------------------------------------------------------------------
\* The process dies and starts again: the queue was in its memory.
Restart ==
    /\ failing
    /\ req' = [s \in Slots |-> Idle]
    /\ queue' = << >>
    /\ isProcessing' = FALSE
    /\ UNCHANGED <<created, stored, tokenData, requests, apart, failing>>

NotificationStep(s) == StoreNotice(s) \/ PushRead(s) \/ PushSend(s) \/ PushClean(s)

NotificationNext ==
    \/ \E s \in Slots : \/ NotificationStep(s)
                        \/ \E n \in Notices : Add(s, n)
                        \/ \E u \in Receivers : PushBegin(s, u)
    \/ \E u \in Receivers, t \in Tokens : AddFcmToken(u, t) \/ RemoveFcmToken(u, t)
    \/ \E t \in Tokens : TokenDies(t)
    \/ Restart

NotificationSpec == NotificationInit /\ HandlersInit /\ [][NotificationNext]_noticeVars

\* Each call of the database and of Firebase returns or throws.
NotificationFairSpec ==
    NotificationSpec /\ \A s \in Slots : WF_noticeVars(NotificationStep(s))

-----------------------------------------------------------------------------
(* Properties *)

\* Type invariant.
NotificationTypeOK ==
    /\ queue \in Seq(Notices) /\ stored \in Seq(Notices)
    /\ isProcessing \in BOOLEAN
    /\ created \subseteq Notices
    /\ owner \in [Tokens -> Receivers \cup {None}]
    /\ registered \in [Tokens -> Receivers \cup {None}]
    /\ dead \subseteq Tokens

\* What waits is the job whose row is being created, then the queue.
Waiting ==
    LET storing == {s \in Slots : At(s, "store")}
    IN  IF storing = {} THEN queue
        ELSE <<req[CHOOSE s \in storing : TRUE].n>> \o queue

MB == INSTANCE Mailbox WITH waiting <- Waiting, delivered <- stored, lossy <- failing

\* The queue with its flag is a mailbox: whoever adds while the consumer stores,
\* pushes, fails or stops, each notification is stored once and in order, and
\* none is left waiting without a consumer.
ImplementsMailbox == MB!MailFairSpec

\* Of the devices only those Firebase no longer knows lose their registration:
\* whatever pushes fail and overlap with registrations, a live device stays with
\* the user it was last registered for.
LiveTokenKept ==
    \A t \in Tokens \ dead : owner[t] = registered[t]
=============================================================================
