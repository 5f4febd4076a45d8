--------------------------- MODULE JobWorkProofs ---------------------------
(***************************************************************************)
(* What JobWork guarantees for every finite set of jobs and every number   *)
(* of handlers, in layers:                                                 *)
(*   Inv      whatever overlaps: a customer who asks for a revision finds  *)
(*            a submission, so that requestRevision never adds its own;    *)
(*            and while completeJob does not overlap itself, submissions   *)
(*            are numbered in the order they were added                    *)
(*   TypeInv  whatever overlaps: the types, for which the submissions of a *)
(*            job are counted against the requests                         *)
(*   WorkInv  under WorkLocks, while no handler stops: what each handler   *)
(*            in flight knows of its job, and what holds of a job none is  *)
(*            changing.  No two handlers are on one job, so a step has to  *)
(*            be held against the facts of its own handler only.           *)
(***************************************************************************)
EXTENDS JobWork, SequenceTheorems, FiniteSetTheorems, TLAPS

Rows == [number: Nat, status: SubmissionStatuses]

Completing == {"complete_count", "complete_create", "complete_write"}
Approving  == {"approve_write", "approve_mark", "release_find", "release_tx",
               "approve_count"}
OnJob      == Completing \cup Approving \cup {"revise_find", "revise_mark"}

\* What a handler stopped at r.pc carries, when the submissions are rows.
Sound(r, rows) ==
    /\ r.op = "complete" <=> r.pc \in Completing
    /\ r.pc \in OnJob => r.j \in Jobs
    /\ r.pc \in Approving => r \in [op: {"approve"}, pc: Approving, j: Jobs]
    /\ r.pc = "complete_create" => r.number \in Nat
    /\ r.pc \in {"complete_write", "revise_find"} => Len(rows[r.j]) > 0
    /\ r.pc = "revise_mark" => r.i \in DOMAIN rows[r.j]

Typed == /\ submissions \in [Jobs -> Seq(Rows)]
         /\ DOMAIN state = Jobs
         /\ DOMAIN req = Slots /\ \A s \in Slots : Sound(req[s], submissions)

\* A job that waits for the customer has a submission.
WaitingHasOne ==
    \A j \in Jobs : state[j] = "WAITING_FOR_APPROVAL" => Len(submissions[j]) > 0

CompleteLock == Apart({{"complete"}})

\* One handler completes at a time, and numbers by what is still there.
CompletesAlone ==
    /\ \A s, t \in Slots : req[s].op = "complete" /\ req[t].op = "complete" => s = t
    /\ \A s \in Slots : req[s].pc = "complete_create" =>
                            req[s].number = Len(submissions[req[s].j]) + 1

NumberedInOrder ==
    \A j \in Jobs : \A i \in DOMAIN submissions[j] : submissions[j][i].number = i

Inv == Typed /\ WaitingHasOne /\ (CompleteLock => CompletesAlone /\ NumberedInOrder)

-----------------------------------------------------------------------------
(* Lemmas *)

LEMMA IdleSound == ASSUME NEW rows PROVE Sound(Idle, rows)
BY DEF Sound, Idle, Completing, Approving, OnJob

LEMMA InitInv == JobWorkInit /\ HandlersInit => Inv
<1> SUFFICES ASSUME JobWorkInit, HandlersInit PROVE Inv
  OBVIOUS
<1>1. submissions \in [Jobs -> Seq(Rows)] /\ \A j \in Jobs : DOMAIN submissions[j] = {}
  BY DEF JobWorkInit
<1>2. DOMAIN req = Slots /\ \A s \in Slots : req[s] = Idle
  BY DEF HandlersInit
<1>3. Typed
  BY <1>1, <1>2, IdleSound DEF Typed, JobWorkInit
<1>4. WaitingHasOne
  BY DEF JobWorkInit, WaitingHasOne
<1>5. CompletesAlone /\ NumberedInOrder
  BY <1>1, <1>2 DEF CompletesAlone, NumberedInOrder, Idle
<1> QED BY <1>3, <1>4, <1>5 DEF Inv

\* Submissions may get another status, and no more.
SameNumbers ==
    /\ submissions' \in [Jobs -> Seq(Rows)]
    /\ \A j \in Jobs : /\ DOMAIN submissions'[j] = DOMAIN submissions[j]
                       /\ Len(submissions'[j]) = Len(submissions[j])
                       /\ \A i \in DOMAIN submissions[j] :
                            submissions'[j][i].number = submissions[j][i].number

LEMMA SoundSame ==
    ASSUME Inv, SameNumbers, NEW r, Sound(r, submissions) PROVE Sound(r, submissions')
BY DEF SameNumbers, Sound, OnJob, Completing

\* A handler takes a step that adds no submission, and goes on as r.
LEMMA StepKeeps ==
    ASSUME Inv, SameNumbers, UNCHANGED apart, DOMAIN state' = Jobs,
           NEW s \in Slots, NEW r, req' = [req EXCEPT ![s] = r], Sound(r, submissions),
           \A j \in Jobs : state'[j] = "WAITING_FOR_APPROVAL" =>
               state[j] = "WAITING_FOR_APPROVAL" \/ Len(submissions[j]) > 0,
           CompleteLock /\ r.op = "complete" =>
               \A t \in Slots : t # s => req[t].op # "complete",
           CompleteLock /\ r.pc = "complete_create" => r.number = Len(submissions[r.j]) + 1
    PROVE  Inv'
<1>1. \A t \in Slots : req'[t] = IF t = s THEN r ELSE req[t]
  BY DEF Inv, Typed
<1>2. Typed'
  BY <1>1, SoundSame DEF Inv, Typed, SameNumbers
<1>3. WaitingHasOne'
  BY DEF Inv, WaitingHasOne, SameNumbers
<1>4. ASSUME CompleteLock' PROVE (CompletesAlone /\ NumberedInOrder)'
  <2>1. CompleteLock /\ CompletesAlone /\ NumberedInOrder
    BY <1>4 DEF CompleteLock, Apart, Inv
  <2>2. NumberedInOrder'
    BY <2>1 DEF NumberedInOrder, SameNumbers
  <2>3. \A t \in Slots : req'[t].pc = "complete_create" =>
            req'[t].number = Len(submissions'[req'[t].j]) + 1
    <3> SUFFICES ASSUME NEW t \in Slots, req'[t].pc = "complete_create"
                 PROVE  req'[t].number = Len(submissions'[req'[t].j]) + 1
      OBVIOUS
    <3>1. req'[t].j \in Jobs
      BY <1>2 DEF Typed, Sound, OnJob, Completing
    <3>2. req'[t].number = Len(submissions[req'[t].j]) + 1
      BY <1>1, <2>1 DEF CompletesAlone
    <3> QED BY <3>1, <3>2 DEF SameNumbers
  <2>4. \A t, u \in Slots : req'[t].op = "complete" /\ req'[u].op = "complete" => t = u
    BY <1>1, <2>1 DEF CompletesAlone
  <2> QED BY <2>2, <2>3, <2>4 DEF CompletesAlone
<1> QED BY <1>2, <1>3, <1>4 DEF Inv

\* The special case of a step that touches no submission, completes nothing and
\* makes no job wait.
Plain(r) ==
    /\ Sound(r, submissions) /\ r.op # "complete"
    /\ r.pc # "complete_create"

LEMMA UntouchedSame == ASSUME Inv, UNCHANGED submissions PROVE SameNumbers
BY DEF SameNumbers, Inv, Typed

LEMMA PlainKeeps ==
    ASSUME Inv, SameNumbers, UNCHANGED apart, NEW s \in Slots, NEW r, Plain(r),
           req' = [req EXCEPT ![s] = r],
           state' = state \/ (\E st \in WorkStatuses \ {"WAITING_FOR_APPROVAL"} : \E j :
                                 state' = [state EXCEPT ![j] = st])
    PROVE  Inv'
<1>1. DOMAIN state' = Jobs /\ \A j \in Jobs : state'[j] = "WAITING_FOR_APPROVAL" =>
                                                  state[j] = "WAITING_FOR_APPROVAL"
  BY DEF Inv, Typed
<1> QED BY <1>1, StepKeeps DEF Plain

LEMMA IdlePlain == ASSUME Inv PROVE Plain(Idle)
BY IdleSound DEF Plain, Idle

LEMMA SoundAt == ASSUME Inv, NEW s \in Slots PROVE Sound(req[s], submissions)
BY DEF Inv, Typed

-----------------------------------------------------------------------------
(* The steps *)

LEMMA Requests == ASSUME Inv, NEW s \in Slots, JobWorkRequest(s) PROVE Inv'
<1> DEFINE r(op, pc, j) == [op |-> op, pc |-> pc, j |-> j]
<1>1. ASSUME NEW j \in Jobs, NEW op, NEW pc, NEW froms, ReadJob(s, j, op, pc, froms)
      PROVE  /\ req' = [req EXCEPT ![s] = r(op, pc, j)] /\ UNCHANGED <<state, submissions, apart>>
             /\ state[j] \in froms /\ MayRun(op)
  BY <1>1 DEF ReadJob, Begin, Arrives, workData
<1> HIDE DEF r
<1>2. ASSUME NEW j \in Jobs, CompleteRead(s, j) PROVE Inv'
  <2> DEFINE q == r("complete", "complete_count", j)
  <2>1. /\ req' = [req EXCEPT ![s] = q] /\ UNCHANGED <<state, submissions, apart>>
        /\ MayRun("complete")
    BY <1>1, <1>2 DEF CompleteRead
  <2>2. Sound(q, submissions) /\ q.pc # "complete_create"
    BY DEF Sound, r, Completing, Approving, OnJob
  <2>3. CompleteLock => \A t \in Slots : req[t].op # "complete"
    <3> SUFFICES ASSUME CompleteLock, NEW t \in Slots, req[t].op = "complete" PROVE FALSE
      OBVIOUS
    <3> QED BY <2>1 DEF CompleteLock, Apart, MayRun
  <2> HIDE DEF q
  <2>4. SameNumbers /\ DOMAIN state' = Jobs
    BY <2>1, UntouchedSame DEF Inv, Typed
  <2> QED BY <2>1, <2>2, <2>3, <2>4, StepKeeps
<1>3. ASSUME NEW j \in Jobs, NEW op \in {"start", "approve", "review"},
             NEW pc \in {"start_write", "approve_write", "review_tx"},
             op = "start" <=> pc = "start_write", op = "approve" <=> pc = "approve_write"
      PROVE  Plain(r(op, pc, j))
  BY <1>3 DEF Plain, Sound, r, Completing, Approving, OnJob
<1>4. ASSUME NEW j \in Jobs, ReviseRead(s, j) PROVE Inv'
  <2> DEFINE q == r("revise", "revise_find", j)
  <2>1. /\ req' = [req EXCEPT ![s] = q] /\ UNCHANGED <<state, submissions, apart>>
        /\ state[j] = "WAITING_FOR_APPROVAL"
    BY <1>1, <1>4 DEF ReviseRead
  <2>2. Len(submissions[j]) > 0
    BY <2>1 DEF Inv, WaitingHasOne
  <2>3. Plain(q)
    BY <2>2 DEF Plain, Sound, r, Completing, Approving, OnJob
  <2> HIDE DEF q
  <2> QED BY <2>1, <2>3, UntouchedSame, PlainKeeps
<1>5. ASSUME NEW j \in Jobs, StartRead(s, j) \/ ApproveRead(s, j) \/ ReviewRead(s, j) PROVE Inv'
  <2>1. CASE StartRead(s, j)
    <3>1. req' = [req EXCEPT ![s] = r("start", "start_write", j)] /\ UNCHANGED <<state, submissions, apart>>
      BY <1>1, <2>1 DEF StartRead
    <3> QED BY <1>3, <3>1, UntouchedSame, PlainKeeps
  <2>2. CASE ApproveRead(s, j)
    <3>1. req' = [req EXCEPT ![s] = r("approve", "approve_write", j)] /\ UNCHANGED <<state, submissions, apart>>
      BY <1>1, <2>2 DEF ApproveRead
    <3> QED BY <1>3, <3>1, UntouchedSame, PlainKeeps
  <2>3. CASE ReviewRead(s, j)
    <3>1. req' = [req EXCEPT ![s] = r("review", "review_tx", j)] /\ UNCHANGED <<state, submissions, apart>>
      BY <1>1, <2>3 DEF ReviewRead
    <3> QED BY <1>3, <3>1, UntouchedSame, PlainKeeps
  <2> QED BY <1>5, <2>1, <2>2, <2>3
<1> QED BY <1>2, <1>4, <1>5 DEF JobWorkRequest

\* completeJob: the count, the create and the write of the status.
LEMMA CountStep == ASSUME Inv, NEW s \in Slots, CompleteCount(s) PROVE Inv'
<1> DEFINE r == [op |-> "complete", pc |-> "complete_create", j |-> req[s].j,
                 number |-> NextNumber(req[s].j)]
<1>1. /\ req' = [req EXCEPT ![s] = r] /\ UNCHANGED <<state, submissions, apart>>
      /\ req[s].pc = "complete_count" /\ r.op = "complete" /\ r.j = req[s].j
      /\ r.number = Len(submissions[r.j]) + 1
  BY DEF CompleteCount, Goto, At, workData, NextNumber
<1>2. req[s].j \in Jobs /\ req[s].op = "complete"
  BY <1>1, SoundAt DEF Sound, OnJob, Completing
<1>3. Len(submissions[req[s].j]) \in Nat
  BY <1>2 DEF Inv, Typed
<1>4. Sound(r, submissions)
  BY <1>2, <1>3 DEF Sound, Completing, Approving, OnJob, NextNumber
<1> HIDE DEF r
<1>5. CompleteLock => \A t \in Slots : t # s => req[t].op # "complete"
  BY <1>2 DEF Inv, CompletesAlone
<1>6. SameNumbers /\ DOMAIN state' = Jobs
  BY <1>1, UntouchedSame DEF Inv, Typed
<1> QED BY <1>1, <1>4, <1>5, <1>6, StepKeeps

LEMMA WriteStep == ASSUME Inv, NEW s \in Slots, CompleteJob(s) PROVE Inv'
<1>1. /\ req' = [req EXCEPT ![s] = Idle] /\ UNCHANGED <<submissions, apart>>
      /\ state' = [state EXCEPT ![req[s].j] = "WAITING_FOR_APPROVAL"]
      /\ req[s].pc = "complete_write"
  BY DEF CompleteJob, WriteStatus, Finish, Goto, At
<1>2. req[s].j \in Jobs /\ Len(submissions[req[s].j]) > 0
  BY <1>1, SoundAt DEF Sound, OnJob, Completing
<1>3. Sound(Idle, submissions) /\ Idle.op # "complete" /\ Idle.pc # "complete_create"
  BY IdleSound DEF Idle
<1>4. DOMAIN state' = Jobs /\ \A j \in Jobs : state'[j] = "WAITING_FOR_APPROVAL" =>
          state[j] = "WAITING_FOR_APPROVAL" \/ Len(submissions[j]) > 0
  BY <1>1, <1>2 DEF Inv, Typed
<1> QED BY <1>1, <1>3, <1>4, UntouchedSame, StepKeeps

\* Job k gets one more submission, row.
Adds(k, row) ==
    LET n == Len(submissions[k])
    IN  /\ n \in Nat /\ row \in Rows
        /\ submissions' \in [Jobs -> Seq(Rows)]
        /\ \A j \in Jobs \ {k} : submissions'[j] = submissions[j]
        /\ DOMAIN submissions[k] = 1 .. n /\ DOMAIN submissions'[k] = 1 .. (n + 1)
        /\ Len(submissions'[k]) = n + 1
        /\ \A i \in 1 .. n : submissions'[k][i] = submissions[k][i]
        /\ submissions'[k][n + 1] = row

LEMMA CreateAdds ==
    ASSUME Inv, NEW s \in Slots, CompleteCreate(s)
    PROVE  Adds(req[s].j, Submission(req[s].number, "PENDING"))
<1> DEFINE k == req[s].j
           row == Submission(req[s].number, "PENDING")
<1>1. submissions' = [submissions EXCEPT ![k] = Append(@, row)] /\ req[s].pc = "complete_create"
  BY DEF CompleteCreate, At
<1>2. k \in Jobs /\ row \in Rows
  BY <1>1, SoundAt DEF Sound, OnJob, Completing, Submission, Rows, SubmissionStatuses
<1> DEFINE n == Len(submissions[k])
           rows == Append(submissions[k], row)
<1> HIDE DEF k, row
<1>3. submissions[k] \in Seq(Rows)
  BY <1>2 DEF Inv, Typed
<1>4. /\ rows \in Seq(Rows) /\ n \in Nat
      /\ DOMAIN submissions[k] = 1 .. n /\ DOMAIN rows = 1 .. (n + 1) /\ Len(rows) = n + 1
      /\ \A i \in 1 .. n : rows[i] = submissions[k][i]
      /\ rows[n + 1] = row
  BY <1>2, <1>3, AppendProperties, LenProperties
<1>5. \A j \in Jobs : submissions'[j] = IF j = k THEN rows ELSE submissions[j]
  BY <1>1, <1>2 DEF Inv, Typed
<1> HIDE DEF rows
<1>6. submissions' \in [Jobs -> Seq(Rows)]
  BY <1>1, <1>4 DEF Inv, Typed, rows
<1>7. Adds(k, row)
  BY <1>2, <1>4, <1>5, <1>6 DEF Adds
<1> QED BY <1>7 DEF k, row

LEMMA CreateStep == ASSUME Inv, NEW s \in Slots, CompleteCreate(s) PROVE Inv'
<1> DEFINE r == [op |-> "complete", pc |-> "complete_write", j |-> req[s].j]
           k == req[s].j
           row == Submission(req[s].number, "PENDING")
           n == Len(submissions[k])
<1>1. /\ req' = [req EXCEPT ![s] = r] /\ UNCHANGED <<state, apart>>
      /\ req[s].pc = "complete_create"
  BY DEF CompleteCreate, Goto, At
<1>2. k \in Jobs /\ req[s].op = "complete" /\ row.number = req[s].number
  BY <1>1, SoundAt DEF Sound, OnJob, Completing, Submission
<1>3. r.op = "complete" /\ r.pc = "complete_write" /\ r.j = k
  OBVIOUS
<1>4. Adds(k, row)
  BY CreateAdds
<1> HIDE DEF r, k, row
<1> DEFINE rows == submissions'[k]
<1>5. /\ n \in Nat
      /\ DOMAIN submissions[k] = 1 .. n /\ DOMAIN rows = 1 .. (n + 1) /\ Len(rows) = n + 1
      /\ \A i \in 1 .. n : rows[i] = submissions[k][i]
      /\ rows[n + 1] = row
  BY <1>4 DEF Adds
<1>6. \A j \in Jobs : submissions'[j] = IF j = k THEN rows ELSE submissions[j]
  BY <1>4 DEF Adds
<1>7. submissions' \in [Jobs -> Seq(Rows)]
  BY <1>4 DEF Adds
<1> HIDE DEF rows
<1>8. ASSUME NEW t \in Slots, t # s PROVE Sound(req[t], submissions')
  <2>1. Sound(req[t], submissions)
    BY SoundAt
  <2>2. CASE req[t].j = k
    <3>1. submissions'[req[t].j] = rows /\ Len(rows) > 0
          /\ DOMAIN submissions[req[t].j] \subseteq DOMAIN rows
      BY <1>2, <1>5, <1>6, <2>2
    <3> QED BY <2>1, <3>1 DEF Sound
  <2>3. CASE req[t].j # k
    BY <1>6, <2>1, <2>3 DEF Sound, OnJob, Completing
  <2> QED BY <2>2, <2>3
<1>9. Sound(r, submissions')
  <2>1. Len(submissions'[k]) > 0
    BY <1>2, <1>5, <1>6
  <2> QED BY <1>2, <1>3, <2>1 DEF Sound, Completing, Approving
<1>10. Typed'
  BY <1>1, <1>7, <1>8, <1>9 DEF Inv, Typed
<1>11. WaitingHasOne'
  BY <1>1, <1>5, <1>6 DEF Inv, WaitingHasOne
<1>12. ASSUME CompleteLock' PROVE (CompletesAlone /\ NumberedInOrder)'
  <2>1. CompleteLock /\ CompletesAlone /\ NumberedInOrder
    BY <1>1, <1>12 DEF CompleteLock, Apart, Inv
  <2>2. \A t, u \in Slots : req'[t].op = "complete" /\ req'[u].op = "complete" => t = u
    BY <1>1, <1>2, <1>3, <2>1 DEF CompletesAlone, Inv, Typed
  <2>3. \A t \in Slots : req'[t].pc # "complete_create"
    <3>1. \A t \in Slots : req[t].pc = "complete_create" => req[t].op = "complete"
      BY SoundAt DEF Sound, Completing
    <3> QED BY <1>1, <1>2, <1>3, <2>1, <3>1 DEF CompletesAlone, Inv, Typed
  <2>4. row.number = n + 1
    BY <1>1, <1>2, <2>1 DEF CompletesAlone, k
  <2> HIDE DEF n
  <2>5. ASSUME NEW j \in Jobs, NEW i \in DOMAIN submissions'[j]
        PROVE  submissions'[j][i].number = i
    <3>1. CASE j # k
      BY <1>6, <2>1, <3>1 DEF NumberedInOrder
    <3>2. CASE j = k
      <4>1. submissions'[j] = rows /\ i \in 1 .. (n + 1)
        BY <1>5, <1>6, <3>2
      <4>2. CASE i \in 1 .. n
        <5>1. rows[i] = submissions[k][i] /\ i \in DOMAIN submissions[k]
          BY <1>5, <4>2
        <5> QED BY <1>2, <2>1, <4>1, <5>1 DEF NumberedInOrder
      <4>3. CASE i = n + 1
        BY <1>5, <2>4, <4>1, <4>3
      <4> QED BY <1>5, <4>1, <4>2, <4>3
    <3> QED BY <3>1, <3>2
  <2> QED BY <2>2, <2>3, <2>5 DEF CompletesAlone, NumberedInOrder
<1> QED BY <1>10, <1>11, <1>12 DEF Inv

\* Some submissions of job k get the status st, and nothing else changes.
Marks(k, D, st) ==
    /\ submissions' \in [Jobs -> Seq(Rows)]
    /\ \A j \in Jobs :
          /\ DOMAIN submissions'[j] = DOMAIN submissions[j]
          /\ Len(submissions'[j]) = Len(submissions[j])
          /\ \A i \in DOMAIN submissions[j] :
                /\ submissions'[j][i].number = submissions[j][i].number
                /\ submissions'[j][i].status = IF j = k /\ i \in D THEN st
                                               ELSE submissions[j][i].status

LEMMA MarksSame ==
    ASSUME NEW k, NEW D, NEW st, Marks(k, D, st) PROVE SameNumbers
BY DEF Marks, SameNumbers

\* The one that requestRevision found is marked.
LEMMA ReviseMarks ==
    ASSUME Inv, NEW s \in Slots, ReviseMark(s)
    PROVE  Marks(req[s].j, {req[s].i}, "REVISION_REQUESTED")
<1> DEFINE k == req[s].j
           i == req[s].i
           rows == [submissions[k] EXCEPT ![i].status = "REVISION_REQUESTED"]
<1>1. k \in Jobs /\ i \in DOMAIN submissions[k]
  BY SoundAt DEF ReviseMark, At, Sound, OnJob
<1>2. submissions[k] \in Seq(Rows) /\ DOMAIN submissions[k] = 1 .. Len(submissions[k])
  BY <1>1, LenProperties DEF Inv, Typed
<1>3. submissions' = [submissions EXCEPT ![k] = rows]
  <2>1. i # 0
    BY <1>1, <1>2
  <2>2. submissions' = [submissions EXCEPT ![k] =
                          IF i = 0 THEN Append(@, Submission(1, "REVISION_REQUESTED"))
                                   ELSE [@ EXCEPT ![i].status = "REVISION_REQUESTED"]]
    BY DEF ReviseMark
  <2> HIDE DEF k, i
  <2> QED BY <2>1, <2>2
<1> HIDE DEF k, i
<1>4. submissions[k][i] \in Rows
  BY <1>1, <1>2
<1>5. /\ rows \in Seq(Rows) /\ DOMAIN rows = DOMAIN submissions[k]
      /\ Len(rows) = Len(submissions[k])
      /\ \A x \in DOMAIN rows :
            /\ rows[x].number = submissions[k][x].number
            /\ rows[x].status = IF x = i THEN "REVISION_REQUESTED"
                                         ELSE submissions[k][x].status
  BY <1>1, <1>2, <1>4 DEF Rows, SubmissionStatuses
<1> HIDE DEF rows
<1>6. \A j \in Jobs : submissions'[j] = IF j = k THEN rows ELSE submissions[j]
  BY <1>1, <1>3 DEF Inv, Typed
<1>7. submissions' \in [Jobs -> Seq(Rows)]
  BY <1>3, <1>5 DEF Inv, Typed
<1>8. Marks(k, {i}, "REVISION_REQUESTED")
  BY <1>5, <1>6, <1>7 DEF Marks
<1> QED BY <1>8 DEF k, i

\* Every PENDING submission of the job is approved.
LEMMA ApproveMarks ==
    ASSUME Inv, NEW s \in Slots, ApproveMark(s)
    PROVE  Marks(req[s].j, Pending(req[s].j), "APPROVED")
<1> DEFINE k == req[s].j
           rows == [i \in DOMAIN submissions[k] |->
                      IF i \in Pending(k) THEN [submissions[k][i] EXCEPT !.status = "APPROVED"]
                                          ELSE submissions[k][i]]
<1>1. submissions' = [submissions EXCEPT ![k] = rows] /\ req[s].pc = "approve_mark"
  BY DEF ApproveMark, At
<1>2. k \in Jobs
  BY <1>1, SoundAt DEF Sound, OnJob, Approving
<1> HIDE DEF k
<1>3. submissions[k] \in Seq(Rows) /\ Len(submissions[k]) \in Nat
      /\ DOMAIN submissions[k] = 1 .. Len(submissions[k])
  BY <1>2, LenProperties DEF Inv, Typed
<1>4. ASSUME NEW i \in DOMAIN submissions[k]
      PROVE  /\ rows[i] \in Rows /\ rows[i].number = submissions[k][i].number
             /\ rows[i].status = IF i \in Pending(k) THEN "APPROVED" ELSE submissions[k][i].status
  <2>1. submissions[k][i] \in Rows
    BY <1>3
  <2> QED BY <2>1 DEF Rows, SubmissionStatuses
<1>5. DOMAIN rows = DOMAIN submissions[k] /\ rows \in [1 .. Len(submissions[k]) -> Rows]
  BY <1>3, <1>4
<1> HIDE DEF rows
<1>6. rows \in Seq(Rows) /\ Len(rows) = Len(submissions[k])
  <2>1. rows \in Seq(Rows)
    BY <1>3, <1>5, SeqDef
  <2> QED BY <1>3, <1>5, <2>1, LenProperties
<1>7. \A j \in Jobs : submissions'[j] = IF j = k THEN rows ELSE submissions[j]
  BY <1>1, <1>2 DEF Inv, Typed
<1>8. submissions' \in [Jobs -> Seq(Rows)]
  BY <1>1, <1>6 DEF Inv, Typed
<1>9. Marks(k, Pending(k), "APPROVED")
  BY <1>4, <1>5, <1>6, <1>7, <1>8 DEF Marks
<1> QED BY <1>9 DEF k

\* requestRevision finds a submission, and marks that one.
LEMMA ReviseSteps ==
    ASSUME Inv, NEW s \in Slots, ReviseFind(s) \/ ReviseMark(s) PROVE Inv'
<1>1. CASE ReviseFind(s)
  <2>1. req[s].j \in Jobs /\ Len(submissions[req[s].j]) > 0
    BY <1>1, SoundAt DEF ReviseFind, At, Sound, OnJob
  <2>2. submissions[req[s].j] # << >>
    BY <2>1, EmptySeq DEF Inv, Typed
  <2>3. PICK i \in Latest(req[s].j) :
            req' = [req EXCEPT ![s] = [op |-> "revise", pc |-> "revise_mark",
                                       j |-> req[s].j, i |-> i]]
    BY <1>1, <2>2 DEF ReviseFind, Goto
  <2> DEFINE r == [op |-> "revise", pc |-> "revise_mark", j |-> req[s].j, i |-> i]
  <2>4. Plain(r)
    BY <2>1, <2>3 DEF Plain, Sound, Latest, Completing, Approving, OnJob
  <2>5. UNCHANGED <<state, submissions, apart>>
    BY <1>1 DEF ReviseFind, Goto, workData
  <2> HIDE DEF r
  <2> QED BY <2>3, <2>4, <2>5, UntouchedSame, PlainKeeps DEF r
<1>2. CASE ReviseMark(s)
  <2> DEFINE r == [op |-> "revise", pc |-> "revise_write", j |-> req[s].j]
  <2>1. req' = [req EXCEPT ![s] = r] /\ UNCHANGED <<state, apart>>
    BY <1>2 DEF ReviseMark, Goto
  <2>2. Plain(r)
    BY DEF Plain, Sound, Completing, Approving, OnJob
  <2> HIDE DEF r
  <2> QED BY <1>2, <2>1, <2>2, ReviseMarks, MarksSame, PlainKeeps
<1> QED BY <1>1, <1>2

\* approveJob and its release.
LEMMA ApproveGoesOn ==
    ASSUME Inv, NEW s \in Slots, req[s].pc \in Approving, NEW pc \in Approving
    PROVE  Plain([req[s] EXCEPT !.pc = pc])
<1>1. req[s] \in [op: {"approve"}, pc: Approving, j: Jobs]
  BY SoundAt DEF Sound
<1> DEFINE r == [req[s] EXCEPT !.pc = pc]
<1>2. r \in [op: {"approve"}, pc: Approving, j: Jobs]
  BY <1>1
<1> HIDE DEF r
<1>3. Plain(r)
  BY <1>2 DEF Plain, Sound, Approving, Completing
<1> QED BY <1>3 DEF r

LEMMA ApproveSteps ==
    ASSUME Inv, NEW s \in Slots,
           ApproveJob(s) \/ ApproveMark(s) \/ ReleaseFind(s) \/ ReleaseEscrow(s)
             \/ ApproveCount(s)
    PROVE  Inv'
<1> DEFINE After(pc) == [req[s] EXCEPT !.pc = pc]
<1>1. ASSUME NEW pc \in Approving, req[s].pc \in Approving PROVE Plain(After(pc))
  BY <1>1, ApproveGoesOn
<1> HIDE DEF After
<1>2. CASE ApproveJob(s)
  <2>1. /\ req' = [req EXCEPT ![s] = After("approve_mark")] /\ req[s].pc = "approve_write"
        /\ state' = [state EXCEPT ![req[s].j] = "COMPLETED"] /\ UNCHANGED <<submissions, apart>>
    BY <1>2 DEF ApproveJob, WriteStatus, Goto, At, After
  <2>2. Plain(After("approve_mark"))
    BY <1>1, <2>1 DEF Approving
  <2> QED BY <2>1, <2>2, UntouchedSame, PlainKeeps DEF WorkStatuses
<1>3. CASE ApproveMark(s)
  <2>1. /\ req' = [req EXCEPT ![s] = After("release_find")] /\ req[s].pc = "approve_mark"
        /\ UNCHANGED <<state, apart>>
    BY <1>3 DEF ApproveMark, Goto, At, After
  <2>2. Plain(After("release_find"))
    BY <1>1, <2>1 DEF Approving
  <2> QED BY <1>3, <2>1, <2>2, ApproveMarks, MarksSame, PlainKeeps
<1>4. CASE ReleaseFind(s)
  <2>1. req[s].pc = "release_find" /\ UNCHANGED <<state, submissions, apart>>
    BY <1>4 DEF ReleaseFind, At, Goto, Finish, workData
  <2>2. req' = [req EXCEPT ![s] = After("release_tx")] \/ req' = [req EXCEPT ![s] = Idle]
    BY <1>4 DEF ReleaseFind, Goto, Finish, After
  <2>3. Plain(After("release_tx")) /\ Plain(Idle)
    BY <1>1, <2>1, IdlePlain DEF Approving
  <2> QED BY <2>1, <2>2, <2>3, UntouchedSame, PlainKeeps
<1>5. CASE ReleaseEscrow(s)
  <2>1. /\ req' = [req EXCEPT ![s] = After("approve_count")] /\ req[s].pc = "release_tx"
        /\ UNCHANGED <<state, submissions, apart>>
    BY <1>5 DEF ReleaseEscrow, Goto, At, After
  <2>2. Plain(After("approve_count"))
    BY <1>1, <2>1 DEF Approving
  <2> QED BY <2>1, <2>2, UntouchedSame, PlainKeeps
<1>6. CASE ApproveCount(s)
  <2> DEFINE r == [op |-> "approve", pc |-> "approve_stats", j |-> req[s].j,
                   completed |-> Cardinality(DoneJobs)]
  <2>1. req' = [req EXCEPT ![s] = r] /\ UNCHANGED <<state, submissions, apart>>
    BY <1>6 DEF ApproveCount, Goto, workData
  <2>2. Plain(r)
    BY DEF Plain, Sound, Completing, Approving, OnJob
  <2> HIDE DEF r
  <2> QED BY <2>1, <2>2, UntouchedSame, PlainKeeps
<1> QED BY <1>2, <1>3, <1>4, <1>5, <1>6

\* The steps that end a handler, or are a review's.
LEMMA OtherSteps ==
    ASSUME Inv, NEW s \in Slots,
           StartJob(s) \/ RequestRevision(s) \/ ApproveStats(s) \/ ReviewStats(s)
             \/ CreateReview(s) \/ JobWorkAbandon(s)
    PROVE  Inv'
<1>1. ASSUME Finish(s), UNCHANGED submissions,
             state' = state \/ (\E st \in WorkStatuses \ {"WAITING_FOR_APPROVAL"} : \E j :
                                   state' = [state EXCEPT ![j] = st])
      PROVE  Inv'
  BY <1>1, IdlePlain, UntouchedSame, PlainKeeps DEF Finish, Goto
<1>2. CASE StartJob(s)
  BY <1>1, <1>2 DEF StartJob, WriteStatus, WorkStatuses
<1>3. CASE RequestRevision(s)
  BY <1>1, <1>3 DEF RequestRevision, WriteStatus, WorkStatuses
<1>4. CASE ApproveStats(s)
  BY <1>1, <1>4 DEF ApproveStats
<1>5. CASE ReviewStats(s)
  <2> DEFINE r == [op |-> "review", pc |-> "review_commit", j |-> req[s].j,
                   stats |-> [rated     |-> reviewed \cup {req[s].j},
                              completed |-> Cardinality(DoneJobs \cup {req[s].j})]]
  <2>1. req' = [req EXCEPT ![s] = r] /\ UNCHANGED <<state, submissions, apart>>
    BY <1>5 DEF ReviewStats, Goto, workData
  <2>2. Plain(r)
    BY DEF Plain, Sound, Completing, Approving, OnJob
  <2> HIDE DEF r
  <2> QED BY <2>1, <2>2, UntouchedSame, PlainKeeps
<1>6. CASE CreateReview(s)
  <2>1. Finish(s) /\ UNCHANGED submissions
    BY <1>6 DEF CreateReview
  <2>2. state' = state \/ state' = [state EXCEPT ![req[s].j] = "CLOSED"]
    BY <1>6 DEF CreateReview
  <2> QED BY <1>1, <2>1, <2>2 DEF WorkStatuses
<1>7. CASE JobWorkAbandon(s)
  BY <1>1, <1>7 DEF JobWorkAbandon, Stops, workData
<1> QED BY <1>2, <1>3, <1>4, <1>5, <1>6, <1>7

LEMMA NextInv == Inv /\ [JobWorkNext]_workVars => Inv'
<1> SUFFICES ASSUME Inv, [JobWorkNext]_workVars PROVE Inv'
  OBVIOUS
<1>1. ASSUME NEW s \in Slots, JobWorkStep(s) PROVE Inv'
  BY <1>1, CountStep, CreateStep, WriteStep, ReviseSteps, ApproveSteps, OtherSteps
     DEF JobWorkStep
<1>2. CASE UNCHANGED workVars
  <2>1. SameNumbers /\ UNCHANGED <<state, submissions, req, apart>>
    BY <1>2, UntouchedSame DEF workVars, workData, handlers
  <2> QED BY <2>1 DEF Inv, Typed, WaitingHasOne, CompleteLock, Apart, CompletesAlone,
                      NumberedInOrder
<1> QED BY <1>1, <1>2, Requests, OtherSteps DEF JobWorkNext

-----------------------------------------------------------------------------
(* The types, without any lock.  A submission has at most the number of the  *)
(* requests so far: the one a handler is about to add is counted against the *)
(* request of that handler.                                                  *)

Revising  == {"revise_find", "revise_mark", "revise_write"}
Releasing == Approving \cup {"approve_stats"}
Reviewing == {"review_tx", "review_commit"}

Profiles == [rated: SUBSET Jobs, completed: 0 .. Cardinality(Jobs)]

\* What a handler in flight is, and the types of what it has read.
Carries(r) ==
    \/ r = Idle
    \/ /\ r.j \in Jobs
       /\ \/ r.op = "start" /\ r.pc = "start_write"
          \/ r.op = "complete" /\ r.pc \in Completing
          \/ r.op = "revise" /\ r.pc \in Revising
          \/ r.op = "approve" /\ r.pc \in Releasing
          \/ r.op = "review" /\ r.pc \in Reviewing
       /\ r.pc = "complete_create" => r.number \in 1 .. MaxRequests
       /\ r.pc = "approve_stats" => r.completed \in 0 .. Cardinality(Jobs)
       /\ r.pc = "review_commit" => r.stats \in Profiles

\* The handlers that are still to add a submission to job j.
AddsTo(r, j) == r.pc \in {"complete_count", "complete_create"} /\ r.j = j
Adders(j) == {s \in Slots : AddsTo(req[s], j)}

Fits(n, A, m) == IsFiniteSet(A) /\ n + Cardinality(A) <= m

DataTyped ==
    /\ state \in [Jobs -> WorkStatuses]
    /\ escrow \in [Jobs -> {"FUNDED", "RELEASED"}]
    /\ reviewed \subseteq Jobs
    /\ profile \in Profiles
NumbersTyped ==
    \A j \in Jobs : \A i \in DOMAIN submissions[j] :
        submissions[j][i].number \in 1 .. MaxRequests
Counted ==
    /\ requests \in 0 .. MaxRequests
    /\ \A j \in Jobs : Fits(Len(submissions[j]), Adders(j), requests)
Carried == \A s \in Slots : Carries(req[s])

TypeInv == DataTyped /\ NumbersTyped /\ Counted /\ Carried

\* The count stays within its limit with fewer handlers to add one, with one
\* more request, and when a handler adds its own.
LEMMA FitsFewer ==
    ASSUME NEW n \in Nat, NEW m \in Nat, NEW A, NEW B, Fits(n, A, m), B \subseteq A
    PROVE  Fits(n, B, m) /\ n <= m
<1>1. IsFiniteSet(B) /\ Cardinality(B) <= Cardinality(A)
  BY FS_Subset DEF Fits
<1>2. Cardinality(A) \in Nat /\ Cardinality(B) \in Nat
  BY <1>1, FS_CardinalityType DEF Fits
<1> QED BY <1>1, <1>2 DEF Fits

LEMMA FitsMore ==
    ASSUME NEW n \in Nat, NEW m \in Nat, NEW A, NEW B, NEW s,
           Fits(n, A, m), B \subseteq A \cup {s}
    PROVE  Fits(n, B, m + 1)
<1> DEFINE C == A \cup {s}
<1>1. /\ IsFiniteSet(C)
      /\ Cardinality(C) = Cardinality(A) \/ Cardinality(C) = Cardinality(A) + 1
  BY FS_AddElement DEF Fits
<1>2. Cardinality(A) \in Nat /\ Cardinality(C) \in Nat
  BY <1>1, FS_CardinalityType DEF Fits
<1> HIDE DEF C
<1>3. Fits(n, C, m + 1)
  BY <1>1, <1>2 DEF Fits
<1> QED BY <1>3, FitsFewer DEF C

LEMMA FitsAdded ==
    ASSUME NEW n \in Nat, NEW m \in Nat, NEW A, NEW B, NEW s \in A,
           Fits(n, A, m), B \subseteq A \ {s}
    PROVE  Fits(n + 1, B, m) /\ n + 1 <= m
<1> DEFINE C == A \ {s}
<1>1. IsFiniteSet(C) /\ Cardinality(C) = Cardinality(A) - 1
  BY FS_RemoveElement DEF Fits
<1>2. Cardinality(A) \in Nat /\ Cardinality(C) \in Nat
  BY <1>1, FS_CardinalityType DEF Fits
<1> HIDE DEF C
<1>3. Fits(n + 1, C, m)
  BY <1>1, <1>2 DEF Fits
<1>4. n + 1 \in Nat
  OBVIOUS
<1> QED BY <1>3, <1>4, FitsFewer DEF C

LEMMA DoneCounted ==
    ASSUME NEW D, D \subseteq Jobs PROVE Cardinality(D) \in 0 .. Cardinality(Jobs)
<1>1. IsFiniteSet(D) /\ Cardinality(D) <= Cardinality(Jobs)
  BY FS_Subset, JobWorkAssumption
<1>2. Cardinality(D) \in Nat /\ Cardinality(Jobs) \in Nat
  BY <1>1, FS_CardinalityType, JobWorkAssumption
<1> QED BY <1>1, <1>2

LEMMA TypeInit == JobWorkInit /\ HandlersInit => TypeInv
<1> SUFFICES ASSUME JobWorkInit, HandlersInit PROVE TypeInv
  OBVIOUS
<1>1. DataTyped
  <2>1. Cardinality({}) \in 0 .. Cardinality(Jobs) /\ Cardinality({}) = 0
    BY DoneCounted, FS_EmptySet
  <2> QED BY <2>1 DEF DataTyped, Profiles, JobWorkInit, WorkStatuses
<1>2. NumbersTyped
  BY DEF NumbersTyped, JobWorkInit
<1>3. Counted
  <2>1. \A j \in Jobs : Adders(j) = {} /\ Len(submissions[j]) = 0
    BY DEF Adders, AddsTo, JobWorkInit, HandlersInit, Idle
  <2>2. requests = 0 /\ requests \in 0 .. MaxRequests
    BY HandlersAssumption DEF HandlersInit
  <2>3. \A j \in Jobs : Fits(Len(submissions[j]), Adders(j), requests)
    <3> SUFFICES ASSUME NEW j \in Jobs PROVE Fits(Len(submissions[j]), Adders(j), requests)
      OBVIOUS
    <3>1. IsFiniteSet(Adders(j)) /\ Cardinality(Adders(j)) = 0
      BY <2>1, FS_EmptySet
    <3> QED BY <2>1, <2>2, <3>1 DEF Fits
  <2> QED BY <2>2, <2>3 DEF Counted
<1>4. Carried
  BY DEF Carried, Carries, HandlersInit
<1> QED BY <1>1, <1>2, <1>3, <1>4 DEF TypeInv

LEMMA LenNat == ASSUME Inv, NEW j \in Jobs PROVE Len(submissions[j]) \in Nat
BY DEF Inv, Typed

\* Handler s goes on as r, or is a new request, and adds no submission.
LEMMA MoveTyped ==
    ASSUME Inv, TypeInv, SameNumbers, NEW s \in Slots, NEW r, Carries(r),
           req' = [req EXCEPT ![s] = r],
           \/ /\ UNCHANGED requests
              /\ \A j \in Jobs : AddsTo(r, j) => AddsTo(req[s], j)
           \/ requests < MaxRequests /\ requests' = requests + 1
    PROVE  NumbersTyped' /\ Counted' /\ Carried'
<1>1. \A t \in Slots : req'[t] = IF t = s THEN r ELSE req[t]
  BY DEF Inv, Typed
<1>2. Carried'
  BY <1>1 DEF TypeInv, Carried
<1>3. NumbersTyped'
  BY DEF SameNumbers, TypeInv, NumbersTyped
<1>4. requests \in Nat /\ MaxRequests \in Nat /\ requests \in 0 .. MaxRequests
  BY HandlersAssumption DEF TypeInv, Counted
<1>5. requests' \in 0 .. MaxRequests
  BY <1>4
<1>6. ASSUME NEW j \in Jobs PROVE Fits(Len(submissions'[j]), Adders(j)', requests')
  <2>1. Fits(Len(submissions[j]), Adders(j), requests) /\ Len(submissions[j]) \in Nat
        /\ Len(submissions'[j]) = Len(submissions[j])
    BY LenNat DEF TypeInv, Counted, SameNumbers
  <2>2. Adders(j)' \subseteq Adders(j) \cup {s}
    BY <1>1 DEF Adders
  <2>3. CASE UNCHANGED requests /\ (AddsTo(r, j) => AddsTo(req[s], j))
    <3>1. Adders(j)' \subseteq Adders(j)
      BY <1>1, <2>3 DEF Adders
    <3> QED BY <1>4, <2>1, <2>3, <3>1, FitsFewer
  <2>4. CASE requests' = requests + 1
    BY <1>4, <2>1, <2>2, <2>4, FitsMore
  <2> QED BY <2>3, <2>4
<1>7. Counted'
  BY <1>5, <1>6 DEF Counted
<1> QED BY <1>2, <1>3, <1>7

LEMMA CarriesAt == ASSUME TypeInv, NEW s \in Slots PROVE Carries(req[s])
BY DEF TypeInv, Carried

\* A handler that has not ended is on a job.
LEMMA JobAt ==
    ASSUME TypeInv, NEW s \in Slots, req[s].pc # "idle" PROVE req[s].j \in Jobs
BY CarriesAt DEF Carries, Idle

LEMMA RequestTyped == ASSUME Inv, TypeInv, NEW s \in Slots, JobWorkRequest(s) PROVE TypeInv'
<1> DEFINE r(op, pc, j) == [op |-> op, pc |-> pc, j |-> j]
<1>1. ASSUME NEW j \in Jobs, NEW op, NEW pc, NEW froms, ReadJob(s, j, op, pc, froms),
             Carries(r(op, pc, j))
      PROVE  TypeInv'
  <2>1. /\ req' = [req EXCEPT ![s] = r(op, pc, j)] /\ UNCHANGED workData
        /\ requests < MaxRequests /\ requests' = requests + 1
    BY <1>1 DEF ReadJob, Begin, Arrives
  <2> HIDE DEF r
  <2>2. NumbersTyped' /\ Counted' /\ Carried'
    BY <1>1, <2>1, UntouchedSame, MoveTyped DEF workData
  <2>3. DataTyped'
    BY <2>1 DEF TypeInv, DataTyped, workData
  <2> QED BY <2>2, <2>3 DEF TypeInv
<1>2. ASSUME NEW j \in Jobs
      PROVE  /\ Carries(r("start", "start_write", j)) /\ Carries(r("complete", "complete_count", j))
             /\ Carries(r("revise", "revise_find", j)) /\ Carries(r("approve", "approve_write", j))
             /\ Carries(r("review", "review_tx", j))
  BY DEF Carries, Completing, Revising, Releasing, Approving, Reviewing
<1> HIDE DEF r
<1>3. PICK j \in Jobs : StartRead(s, j) \/ CompleteRead(s, j) \/ ReviseRead(s, j)
                          \/ ApproveRead(s, j) \/ ReviewRead(s, j)
  BY DEF JobWorkRequest
<1>4. CASE StartRead(s, j)
  BY <1>1, <1>2, <1>4 DEF StartRead
<1>5. CASE CompleteRead(s, j)
  BY <1>1, <1>2, <1>5 DEF CompleteRead
<1>6. CASE ReviseRead(s, j)
  BY <1>1, <1>2, <1>6 DEF ReviseRead
<1>7. CASE ApproveRead(s, j)
  BY <1>1, <1>2, <1>7 DEF ApproveRead
<1>8. CASE ReviewRead(s, j)
  BY <1>1, <1>2, <1>8 DEF ReviewRead
<1> QED BY <1>3, <1>4, <1>5, <1>6, <1>7, <1>8

LEMMA DataStep ==
    ASSUME TypeInv, NEW s \in Slots, JobWorkStep(s) \/ JobWorkAbandon(s) PROVE DataTyped'
<1>1. ASSUME NEW st \in WorkStatuses, state' = [state EXCEPT ![req[s].j] = st]
      PROVE  state' \in [Jobs -> WorkStatuses]
  BY <1>1 DEF TypeInv, DataTyped
<1>2. CASE StartJob(s) \/ CompleteJob(s) \/ RequestRevision(s) \/ ApproveJob(s)
  BY <1>1, <1>2 DEF StartJob, CompleteJob, RequestRevision, ApproveJob, WriteStatus,
                    WorkStatuses, TypeInv, DataTyped
<1>3. CASE ReleaseEscrow(s)
  BY <1>3 DEF ReleaseEscrow, TypeInv, DataTyped
<1>4. CASE ApproveStats(s)
  <2>1. req[s].completed \in 0 .. Cardinality(Jobs)
    BY <1>4, CarriesAt DEF ApproveStats, At, Carries, Idle
  <2>2. profile' \in Profiles
    BY <1>4, <2>1 DEF ApproveStats, TypeInv, DataTyped, Profiles
  <2> QED BY <1>4, <2>2 DEF ApproveStats, TypeInv, DataTyped
<1>5. CASE CreateReview(s)
  <2>1. req[s].stats \in Profiles /\ req[s].j \in Jobs
    BY <1>5, CarriesAt DEF CreateReview, At, Carries, Idle
  <2>2. state' = state \/ state' = [state EXCEPT ![req[s].j] = "CLOSED"]
    BY <1>5 DEF CreateReview
  <2>3. state' \in [Jobs -> WorkStatuses]
    BY <1>1, <2>2 DEF WorkStatuses, TypeInv, DataTyped
  <2> QED BY <1>5, <2>1, <2>3 DEF CreateReview, TypeInv, DataTyped
<1>6. ASSUME UNCHANGED <<state, escrow, reviewed, profile>> PROVE DataTyped'
  BY <1>6 DEF TypeInv, DataTyped
<1> QED BY <1>2, <1>3, <1>4, <1>5, <1>6 DEF JobWorkStep, JobWorkAbandon, workData, CompleteCount,
           CompleteCreate, ReviseFind, ReviseMark, ApproveMark, ReleaseFind, ApproveCount,
           ReviewStats

\* completeJob counts the submissions, then adds its own.
LEMMA CountTyped ==
    ASSUME Inv, TypeInv, NEW s \in Slots, CompleteCount(s)
    PROVE  NumbersTyped' /\ Counted' /\ Carried'
<1> DEFINE r == [op |-> "complete", pc |-> "complete_create", j |-> req[s].j,
                 number |-> NextNumber(req[s].j)]
<1>1. /\ req' = [req EXCEPT ![s] = r] /\ UNCHANGED <<submissions, requests>>
      /\ req[s].pc = "complete_count"
  BY DEF CompleteCount, Goto, At, workData
<1>2. req[s].j \in Jobs /\ s \in Adders(req[s].j)
  BY <1>1, JobAt DEF Adders, AddsTo
<1>3. NextNumber(req[s].j) \in 1 .. MaxRequests
  <2> DEFINE n == Len(submissions[req[s].j])
             A == Adders(req[s].j)
  <2>1. n \in Nat /\ Fits(n, A, requests) /\ s \in A /\ requests \in 0 .. MaxRequests
    BY <1>2, LenNat DEF TypeInv, Counted
  <2> HIDE DEF n, A
  <2>2. n + 1 <= requests
    <3>1. requests \in Nat /\ A \ {s} \subseteq A \ {s}
      BY <2>1, HandlersAssumption
    <3> QED BY <2>1, <3>1, FitsAdded
  <2>3. n + 1 \in 1 .. MaxRequests
    BY <2>1, <2>2, HandlersAssumption
  <2> QED BY <2>3 DEF NextNumber, n
<1>4. Carries(r) /\ (\A j \in Jobs : AddsTo(r, j) => AddsTo(req[s], j))
  BY <1>1, <1>2, <1>3 DEF Carries, Completing, AddsTo
<1> HIDE DEF r
<1> QED BY <1>1, <1>4, UntouchedSame, MoveTyped

LEMMA CreateTyped ==
    ASSUME Inv, TypeInv, NEW s \in Slots, CompleteCreate(s)
    PROVE  NumbersTyped' /\ Counted' /\ Carried'
<1> DEFINE r == [op |-> "complete", pc |-> "complete_write", j |-> req[s].j]
           k == req[s].j
           row == Submission(req[s].number, "PENDING")
           n == Len(submissions[k])
<1>1. req' = [req EXCEPT ![s] = r] /\ UNCHANGED requests /\ req[s].pc = "complete_create"
  BY DEF CompleteCreate, Goto, At
<1>2. k \in Jobs /\ row.number \in 1 .. MaxRequests
  BY <1>1, JobAt, CarriesAt DEF Carries, Idle, Submission
<1>3. Adds(k, row)
  BY CreateAdds
<1>4. s \in Adders(k) /\ \A j \in Jobs : ~AddsTo(r, j)
  BY <1>1 DEF Adders, AddsTo
<1>5. Carries(r)
  BY <1>2 DEF Carries, Completing
<1> HIDE DEF r, k, row
<1>6. \A t \in Slots : req'[t] = IF t = s THEN r ELSE req[t]
  BY <1>1 DEF Inv, Typed
<1>7. Carried'
  BY <1>5, <1>6 DEF TypeInv, Carried
<1>8. n \in Nat /\ DOMAIN submissions[k] = 1 .. n /\ DOMAIN submissions'[k] = 1 .. (n + 1)
      /\ Len(submissions'[k]) = n + 1
      /\ (\A i \in 1 .. n : submissions'[k][i] = submissions[k][i])
      /\ submissions'[k][n + 1] = row
      /\ \A j \in Jobs \ {k} : submissions'[j] = submissions[j]
  BY <1>3 DEF Adds
<1> HIDE DEF n
<1>9. ASSUME NEW j \in Jobs, NEW i \in DOMAIN submissions'[j]
      PROVE  submissions'[j][i].number \in 1 .. MaxRequests
  <2>1. CASE j # k
    BY <1>8, <2>1 DEF TypeInv, NumbersTyped
  <2>2. CASE j = k /\ i \in 1 .. n
    BY <1>2, <1>8, <2>2 DEF TypeInv, NumbersTyped
  <2>3. CASE j = k /\ i = n + 1
    BY <1>2, <1>8, <2>3
  <2> QED BY <1>8, <2>1, <2>2, <2>3
<1>10. ASSUME NEW j \in Jobs PROVE Fits(Len(submissions'[j]), Adders(j)', requests')
  <2>1. Fits(Len(submissions[j]), Adders(j), requests) /\ Len(submissions[j]) \in Nat
        /\ requests \in Nat /\ requests' = requests
    BY <1>1, LenNat, HandlersAssumption DEF TypeInv, Counted
  <2>2. Adders(j)' \subseteq Adders(j) \ {s}
    BY <1>4, <1>6 DEF Adders
  <2>3. CASE j # k
    <3>1. submissions'[j] = submissions[j]
      BY <1>8, <2>3
    <3> QED BY <2>1, <2>2, <3>1, FitsFewer
  <2>4. CASE j = k
    <3>1. Len(submissions'[j]) = Len(submissions[j]) + 1 /\ s \in Adders(j)
      BY <1>4, <1>8, <2>4 DEF n
    <3> QED BY <2>1, <2>2, <3>1, FitsAdded
  <2> QED BY <2>3, <2>4
<1> QED BY <1>1, <1>7, <1>9, <1>10 DEF NumbersTyped, Counted, TypeInv

LEMMA StepTyped ==
    ASSUME Inv, TypeInv, NEW s \in Slots, JobWorkStep(s) \/ JobWorkAbandon(s) PROVE TypeInv'
<1> SUFFICES NumbersTyped' /\ Counted' /\ Carried'
  BY DataStep DEF TypeInv
<1>1. ASSUME NEW r, Carries(r), r.pc \notin {"complete_count", "complete_create"},
             SameNumbers, Goto(s, r)
      PROVE  NumbersTyped' /\ Counted' /\ Carried'
  BY <1>1, MoveTyped DEF Goto, AddsTo
<1>2. ASSUME Finish(s), UNCHANGED submissions PROVE NumbersTyped' /\ Counted' /\ Carried'
  BY <1>1, <1>2, UntouchedSame DEF Finish, Carries, Idle
<1>3. CASE StartJob(s) \/ CompleteJob(s) \/ RequestRevision(s) \/ ApproveStats(s) \/ CreateReview(s)
             \/ JobWorkAbandon(s)
  BY <1>2, <1>3 DEF StartJob, CompleteJob, RequestRevision, ApproveStats, CreateReview,
                    JobWorkAbandon, Stops, workData
<1>4. CASE ReviseFind(s)
  <2>1. PICK i : Goto(s, [op |-> "revise", pc |-> "revise_mark", j |-> req[s].j, i |-> i])
    BY <1>4 DEF ReviseFind
  <2>2. req[s].j \in Jobs /\ UNCHANGED submissions
    BY <1>4, JobAt DEF ReviseFind, At, workData
  <2> DEFINE r == [op |-> "revise", pc |-> "revise_mark", j |-> req[s].j, i |-> i]
  <2>3. Carries(r) /\ r.pc \notin {"complete_count", "complete_create"}
    BY <2>2 DEF Carries, Revising
  <2> HIDE DEF r
  <2> QED BY <1>1, <2>1, <2>2, <2>3, UntouchedSame DEF r
<1>5. CASE ReviseMark(s)
  <2> DEFINE r == [op |-> "revise", pc |-> "revise_write", j |-> req[s].j]
  <2>1. Goto(s, r) /\ req[s].j \in Jobs
    BY <1>5, JobAt DEF ReviseMark, At
  <2>2. Carries(r) /\ r.pc \notin {"complete_count", "complete_create"}
    BY <2>1 DEF Carries, Revising
  <2> HIDE DEF r
  <2> QED BY <1>1, <1>5, <2>1, <2>2, ReviseMarks, MarksSame
<1>6. ASSUME NEW pc \in Approving, req[s].pc \in Approving, SameNumbers,
             Goto(s, [req[s] EXCEPT !.pc = pc])
      PROVE  NumbersTyped' /\ Counted' /\ Carried'
  <2> DEFINE r == [req[s] EXCEPT !.pc = pc]
  <2>1. req[s] \in [op: {"approve"}, pc: Approving, j: Jobs]
    BY <1>6, SoundAt DEF Sound
  <2>2. r \in [op: {"approve"}, pc: Approving, j: Jobs]
    BY <2>1
  <2> HIDE DEF r
  <2>3. Carries(r) /\ r.pc \notin {"complete_count", "complete_create"}
    BY <2>2 DEF Carries, Approving, Releasing
  <2> QED BY <1>1, <1>6, <2>3 DEF r
<1>7. CASE ApproveJob(s) \/ ApproveMark(s) \/ ReleaseFind(s) \/ ReleaseEscrow(s)
  <2>1. CASE ApproveJob(s)
    BY <1>6, <2>1, UntouchedSame DEF ApproveJob, WriteStatus, At, Approving
  <2>2. CASE ApproveMark(s)
    BY <1>6, <2>2, ApproveMarks, MarksSame DEF ApproveMark, At, Approving
  <2>3. CASE ReleaseFind(s)
    BY <1>2, <1>6, <2>3, UntouchedSame DEF ReleaseFind, At, Approving, workData
  <2>4. CASE ReleaseEscrow(s)
    BY <1>6, <2>4, UntouchedSame DEF ReleaseEscrow, At, Approving
  <2> QED BY <1>7, <2>1, <2>2, <2>3, <2>4
<1>8. CASE ApproveCount(s)
  <2> DEFINE r == [op |-> "approve", pc |-> "approve_stats", j |-> req[s].j,
                   completed |-> Cardinality(DoneJobs)]
  <2>1. Goto(s, r) /\ req[s].j \in Jobs /\ UNCHANGED submissions
    BY <1>8, JobAt DEF ApproveCount, At, workData
  <2>2. Cardinality(DoneJobs) \in 0 .. Cardinality(Jobs)
    BY DoneCounted DEF DoneJobs
  <2>3. Carries(r) /\ r.pc \notin {"complete_count", "complete_create"}
    BY <2>1, <2>2 DEF Carries, Releasing
  <2> HIDE DEF r
  <2> QED BY <1>1, <2>1, <2>3, UntouchedSame
<1>9. CASE ReviewStats(s)
  <2> DEFINE D == DoneJobs \cup {req[s].j}
             stats == [rated |-> reviewed \cup {req[s].j}, completed |-> Cardinality(D)]
             r == [op |-> "review", pc |-> "review_commit", j |-> req[s].j, stats |-> stats]
  <2>1. Goto(s, r) /\ req[s].j \in Jobs /\ UNCHANGED submissions
    BY <1>9, JobAt DEF ReviewStats, At, workData
  <2>2. Cardinality(D) \in 0 .. Cardinality(Jobs)
    BY <2>1, DoneCounted DEF DoneJobs
  <2>3. stats \in Profiles
    BY <2>1, <2>2 DEF Profiles, TypeInv, DataTyped
  <2>4. Carries(r) /\ r.pc \notin {"complete_count", "complete_create"}
    BY <2>1, <2>3 DEF Carries, Reviewing
  <2> HIDE DEF r
  <2> QED BY <1>1, <2>1, <2>4, UntouchedSame
<1> QED BY <1>3, <1>4, <1>5, <1>7, <1>8, <1>9, CountTyped, CreateTyped DEF JobWorkStep

LEMMA TypeNext == Inv /\ TypeInv /\ [JobWorkNext]_workVars => TypeInv'
<1> SUFFICES ASSUME Inv, TypeInv, [JobWorkNext]_workVars PROVE TypeInv'
  OBVIOUS
<1>1. CASE UNCHANGED workVars
  BY <1>1 DEF workVars, workData, handlers, TypeInv, DataTyped, NumbersTyped, Counted, Adders,
              Carried
<1> QED BY <1>1, RequestTyped, StepTyped DEF JobWorkNext

-----------------------------------------------------------------------------
(* The work under WorkLocks, with no handler stopping halfway.               *)

Working  == {"start_write"} \cup Completing \cup Revising \cup Releasing
Settling == Releasing \ {"approve_write"}

\* The handler is between two writes that belong together.
Changing == {"complete_write", "revise_write", "approve_mark", "release_find", "release_tx"}

PendingOf(rows)  == {i \in DOMAIN rows : rows[i].status = "PENDING"}
OneToJudge(rows) == Len(rows) > 0 /\ PendingOf(rows) = {Len(rows)}

\* A job no handler is changing.
Rests(st, rows, esc) ==
    /\ IF st = "WAITING_FOR_APPROVAL" THEN OneToJudge(rows) ELSE PendingOf(rows) = {}
    /\ esc = IF st \in Done THEN "RELEASED" ELSE "FUNDED"

\* What a handler relies on of its job, from what it has read or written.
Knows(r, st, rows, esc) ==
    /\ r.pc = "start_write" => st = "ASSIGNED"
    /\ r.pc \in Completing => st \in {"IN_PROGRESS", "REVISION_REQUESTED"}
    /\ r.pc \in Revising \cup {"approve_write"} => st = "WAITING_FOR_APPROVAL"
    /\ r.pc \in Settling => st = "COMPLETED"
    /\ r.pc \in Reviewing => st \in Done
    /\ r.pc = "revise_mark" => r.i = Len(rows)
    /\ r.pc \in {"complete_write", "approve_mark"} => OneToJudge(rows)
    /\ r.pc \in {"revise_write", "release_find", "release_tx"} => PendingOf(rows) = {}
    /\ r.pc \in Changing => esc = "FUNDED"

\* Two handlers that WorkLocks keep apart.
Conflict(p, q) ==
    \/ p.pc \in Working /\ q.pc \in Working
    \/ p.pc \in Reviewing /\ q.pc \in Reviewing \cup Releasing
    \/ p.pc \in Releasing /\ q.pc \in Reviewing

NoConflict == \A s, t \in Slots : s # t => ~Conflict(req[s], req[t])
AllKnow ==
    \A s \in Slots : req[s].pc # "idle" =>
        Knows(req[s], state[req[s].j], submissions[req[s].j], escrow[req[s].j])
Changed(j) == \E s \in Slots : req[s].pc \in Changing /\ req[s].j = j
AllRest == \A j \in Jobs : Changed(j) \/ Rests(state[j], submissions[j], escrow[j])

\* approveJob and createReview have counted right what they are about to write.
StatsRight ==
    /\ profile.rated = reviewed
    /\ \/ profile.completed = Cardinality(DoneJobs)
       \/ \E s \in Slots : req[s].pc \in Settling
    /\ \A s \in Slots :
          /\ req[s].pc = "approve_stats" => req[s].completed = Cardinality(DoneJobs)
          /\ req[s].pc = "review_commit" =>
               /\ req[s].stats.rated = reviewed \cup {req[s].j}
               /\ req[s].stats.completed = Cardinality(DoneJobs)

WorkRegime == Apart(WorkLocks) /\ ~failing
WorkInv == WorkRegime => NoConflict /\ AllKnow /\ AllRest /\ StatsRight

LEMMA Locked ==
    ASSUME WorkRegime
    PROVE  /\ \A a, b \in {"start", "complete", "revise", "approve"} : {a, b} \in apart
           /\ {"review", "review"} \in apart
           /\ {"approve", "review"} \in apart /\ {"review", "approve"} \in apart
<1>1. WorkLocks \subseteq apart
  BY DEF WorkRegime, Apart
<1>2. \A a, b \in {"start", "complete", "revise", "approve"} : {a, b} \in WorkLocks
  BY DEF WorkLocks
<1>3. {"review"} = {"review", "review"} /\ {"review", "approve"} = {"approve", "review"}
  OBVIOUS
<1>4. {"review"} \in WorkLocks /\ {"approve", "review"} \in WorkLocks
  BY DEF WorkLocks
<1> QED BY <1>1, <1>2, <1>3, <1>4

LEMMA InOrder == ASSUME Inv, WorkRegime PROVE NumberedInOrder
<1>1. {"complete"} = {"complete", "complete"}
  OBVIOUS
<1>2. CompleteLock
  BY <1>1, Locked DEF CompleteLock, Apart
<1> QED BY <1>2 DEF Inv

\* What a handler in flight does, by the call it makes next.
LEMMA Kinds ==
    ASSUME TypeInv, NEW s \in Slots, req[s].pc # "idle"
    PROVE  /\ req[s].j \in Jobs
           /\ \/ /\ req[s].pc \in Working
                 /\ req[s].op \in {"start", "complete", "revise", "approve"}
                 /\ req[s].pc \in Releasing <=> req[s].op = "approve"
              \/ req[s].pc \in Reviewing /\ req[s].op = "review"
BY CarriesAt DEF Carries, Idle, Working, Completing, Revising, Releasing, Approving, Reviewing

\* No two handlers are on the same job: a review is of a job that is done, and
\* the work on a job, but for the approval, is on one that is not.
LEMMA AloneOnJob ==
    ASSUME TypeInv, NoConflict, AllKnow, NEW s \in Slots, NEW t \in Slots, s # t,
           req[s].pc # "idle", req[t].pc # "idle"
    PROVE  req[s].j # req[t].j
<1> SUFFICES ASSUME req[s].j = req[t].j PROVE FALSE
  OBVIOUS
<1>1. ~Conflict(req[s], req[t])
  BY DEF NoConflict
<1>2. ASSUME NEW u \in Slots, NEW v \in Slots, req[u].pc \in Working \ Releasing,
             req[v].pc \in Reviewing, req[u].pc # "idle", req[v].pc # "idle", req[u].j = req[v].j
      PROVE  FALSE
  <2>1. state[req[u].j] \notin Done
    BY <1>2 DEF AllKnow, Knows, Working, Completing, Revising, Releasing, Approving, Done
  <2>2. state[req[v].j] \in Done
    BY <1>2 DEF AllKnow, Knows
  <2> QED BY <1>2, <2>1, <2>2
<1>3. /\ req[s].pc \in Working \cup Reviewing /\ req[t].pc \in Working \cup Reviewing
  BY Kinds
<1> QED BY <1>1, <1>2, <1>3 DEF Conflict

\* A job at which a handler is not in the middle of a change is at rest.
LEMMA RestThere ==
    ASSUME TypeInv, NoConflict, AllKnow, AllRest, NEW s \in Slots,
           req[s].pc # "idle", req[s].pc \notin Changing
    PROVE  Rests(state[req[s].j], submissions[req[s].j], escrow[req[s].j])
<1>1. req[s].j \in Jobs
  BY JobAt
<1>2. \A t \in Slots : req[t].pc \in Changing => req[t].pc # "idle"
  BY DEF Changing
<1>3. ~Changed(req[s].j)
  BY <1>2, AloneOnJob DEF Changed
<1> QED BY <1>1, <1>3 DEF AllRest

SameKind(q, r) ==
    \/ q.pc \in Working /\ r.pc \in Working /\ (r.pc \in Releasing => q.pc \in Releasing)
    \/ q.pc \in Reviewing /\ r.pc \in Reviewing

\* Handler s goes on as r, or ends, and changes its own job k only.
LEMMA OwnStep ==
    ASSUME Inv, TypeInv, NoConflict, AllKnow, AllRest,
           NEW s \in Slots, NEW r, NEW k, req[s].pc # "idle", k = req[s].j,
           req' = [req EXCEPT ![s] = r], r = Idle \/ (r.j = k /\ SameKind(req[s], r)),
           \A j \in Jobs \ {k} : /\ state'[j] = state[j] /\ submissions'[j] = submissions[j]
                                 /\ escrow'[j] = escrow[j],
           r = Idle \/ Knows(r, state'[k], submissions'[k], escrow'[k]),
           r.pc \in Changing \/ Rests(state'[k], submissions'[k], escrow'[k])
    PROVE  NoConflict' /\ AllKnow' /\ AllRest'
<1>1. \A t \in Slots : req'[t] = IF t = s THEN r ELSE req[t]
  BY DEF Inv, Typed
<1>2. ASSUME NEW t \in Slots, t # s, req[t].pc # "idle"
      PROVE  req[t].j \in Jobs \ {k}
  BY <1>2, AloneOnJob, JobAt
<1>3. NoConflict'
  <2>1. \A t \in Slots : t # s => ~Conflict(req[s], req[t]) /\ ~Conflict(req[t], req[s])
    BY DEF NoConflict
  <2>2. \A t \in Slots : t # s => ~Conflict(r, req[t]) /\ ~Conflict(req[t], r)
    <3>1. CASE r = Idle
      BY <3>1 DEF Conflict, Idle, Working, Completing, Revising, Releasing, Approving, Reviewing
    <3>2. CASE SameKind(req[s], r)
      <4> SUFFICES ASSUME NEW t \in Slots, t # s
                   PROVE  ~Conflict(r, req[t]) /\ ~Conflict(req[t], r)
        OBVIOUS
      <4>1. ~Conflict(req[s], req[t])
        BY <2>1
      <4>2. Releasing \subseteq Working /\ Working \cap Reviewing = {}
        BY DEF Working, Completing, Revising, Releasing, Approving, Reviewing
      <4> QED BY <3>2, <4>1, <4>2 DEF SameKind, Conflict
    <3> QED BY <3>1, <3>2
  <2> QED BY <1>1, <2>2 DEF NoConflict
<1>4. AllKnow'
  <2> SUFFICES ASSUME NEW t \in Slots, req'[t].pc # "idle"
               PROVE  Knows(req'[t], state'[req'[t].j], submissions'[req'[t].j],
                            escrow'[req'[t].j])
    BY DEF AllKnow
  <2>1. CASE t = s
    BY <1>1, <2>1 DEF Idle
  <2>2. CASE t # s
    <3>1. req'[t] = req[t] /\ req[t].j \in Jobs \ {k}
      BY <1>1, <1>2, <2>2
    <3>2. Knows(req[t], state[req[t].j], submissions[req[t].j], escrow[req[t].j])
      BY <3>1 DEF AllKnow
    <3> QED BY <3>1, <3>2
  <2> QED BY <2>1, <2>2
<1>5. AllRest'
  <2> SUFFICES ASSUME NEW j \in Jobs
               PROVE  Changed(j)' \/ Rests(state'[j], submissions'[j], escrow'[j])
    BY DEF AllRest
  <2>1. CASE j = k
    <3>1. CASE r.pc \in Changing
      <4>1. r.j = k
        BY <3>1 DEF Changing, Idle
      <4> QED BY <1>1, <2>1, <3>1, <4>1 DEF Changed
    <3> QED BY <2>1, <3>1
  <2>2. CASE j # k
    <3>1. CASE Changed(j)
      <4>1. PICK t \in Slots : req[t].pc \in Changing /\ req[t].j = j
        BY <3>1 DEF Changed
      <4> QED BY <1>1, <2>2, <4>1 DEF Changed
    <3>2. CASE Rests(state[j], submissions[j], escrow[j])
      BY <2>2, <3>2
    <3> QED BY <3>1, <3>2 DEF AllRest
  <2> QED BY <2>1, <2>2
<1> QED BY <1>3, <1>4, <1>5

\* Steps that leave the statistics and the set of jobs done as they are.
LEMMA StatsKept ==
    ASSUME Inv, TypeInv, StatsRight, NEW s \in Slots, NEW r, req' = [req EXCEPT ![s] = r],
           UNCHANGED <<reviewed, profile>>, DoneJobs' = DoneJobs,
           req[s].pc \in Settling => r.pc \in Settling,
           r.pc = "approve_stats" => r.completed = Cardinality(DoneJobs),
           r.pc = "review_commit" => /\ r.stats.rated = reviewed \cup {r.j}
                                     /\ r.stats.completed = Cardinality(DoneJobs)
    PROVE  StatsRight'
<1>1. \A t \in Slots : req'[t] = IF t = s THEN r ELSE req[t]
  BY DEF Inv, Typed
<1> DEFINE D == DoneJobs
<1>2. Cardinality(DoneJobs)' = Cardinality(D)
  OBVIOUS
<1>3. \A t \in Slots :
          /\ req'[t].pc = "approve_stats" => req'[t].completed = Cardinality(D)
          /\ req'[t].pc = "review_commit" => /\ req'[t].stats.rated = reviewed' \cup {req'[t].j}
                                             /\ req'[t].stats.completed = Cardinality(D)
  BY <1>1 DEF StatsRight
<1>4. \/ profile'.completed = Cardinality(D)
      \/ \E t \in Slots : req'[t].pc \in Settling
  BY <1>1 DEF StatsRight
<1> HIDE DEF D
<1> QED BY <1>2, <1>3, <1>4 DEF StatsRight

WorkGood == NoConflict /\ AllKnow /\ AllRest /\ StatsRight
\* The status of a job changes between done and done, or not done and not done.
LEMMA DoneSame ==
    ASSUME TypeInv, NEW k \in Jobs, NEW st \in WorkStatuses,
           state' = [state EXCEPT ![k] = st], state[k] \in Done <=> st \in Done
    PROVE  DoneJobs' = DoneJobs
<1>1. \A j \in Jobs : state'[j] = IF j = k THEN st ELSE state[j]
  BY DEF TypeInv, DataTyped
<1>2. \A j \in Jobs : state'[j] \in Done <=> state[j] \in Done
  BY <1>1
<1> HIDE DEF Done
<1> QED BY <1>2 DEF DoneJobs

\* A request finds its job at rest, and none that it conflicts with.
LEMMA RequestGood ==
    ASSUME Inv, TypeInv, WorkRegime, WorkGood, NEW s \in Slots, JobWorkRequest(s)
    PROVE  WorkGood'
<1> DEFINE r(op, pc, j) == [op |-> op, pc |-> pc, j |-> j]
           First(op, pc) == <<op, pc>> \in {<<"start", "start_write">>,
                                            <<"complete", "complete_count">>,
                                            <<"revise", "revise_find">>,
                                            <<"approve", "approve_write">>,
                                            <<"review", "review_tx">>}
<1>1. ASSUME NEW j \in Jobs, NEW op, NEW pc, NEW froms, ReadJob(s, j, op, pc, froms),
             First(op, pc), Knows(r(op, pc, j), state[j], submissions[j], escrow[j])
      PROVE  WorkGood'
  <2> DEFINE q == r(op, pc, j)
  <2>1. /\ req' = [req EXCEPT ![s] = q] /\ UNCHANGED workData
        /\ req[s] = Idle /\ MayRun(op)
    BY <1>1 DEF ReadJob, Begin, Busy, Arrives
  <2>2. q.op = op /\ q.pc = pc /\ q.j = j /\ op \in {"start", "complete", "revise", "approve", "review"}
        /\ pc # "idle" /\ pc \notin Settling \cup Changing \cup {"review_commit"}
        /\ \/ /\ pc \in Working
              /\ op \in {"start", "complete", "revise", "approve"}
              /\ pc \in Releasing <=> op = "approve"
           \/ pc \in Reviewing /\ op = "review"
    BY <1>1 DEF Working, Completing, Revising, Releasing, Approving, Reviewing, Settling, Changing
  <2>3. Knows(q, state[j], submissions[j], escrow[j])
    BY <1>1
  <2> HIDE DEF q, First, r
  <2>4. \A t \in Slots : req'[t] = IF t = s THEN q ELSE req[t]
    BY <2>1 DEF Inv, Typed
  <2>5. Working \cap Reviewing = {} /\ "idle" \notin Working \cup Reviewing \cup Settling \cup Changing
        /\ Releasing \subseteq Working
    BY DEF Working, Completing, Revising, Releasing, Approving, Reviewing, Settling, Changing
  <2>6. ASSUME NEW t \in Slots, t # s PROVE ~Conflict(q, req[t]) /\ ~Conflict(req[t], q)
    <3>1. CASE req[t].pc = "idle"
      BY <2>5, <3>1 DEF Conflict
    <3>2. CASE req[t].pc # "idle"
      <4>1. \/ /\ req[t].pc \in Working
               /\ req[t].op \in {"start", "complete", "revise", "approve"}
               /\ req[t].pc \in Releasing <=> req[t].op = "approve"
            \/ req[t].pc \in Reviewing /\ req[t].op = "review"
        BY <3>2, Kinds
      <4>2. {req[t].op, op} \notin apart
        BY <2>1 DEF MayRun
      <4>3. ~(op \in {"start", "complete", "revise", "approve"}
                /\ req[t].op \in {"start", "complete", "revise", "approve"})
        BY <4>2, Locked
      <4>4. ~(op = "review" /\ req[t].op \in {"review", "approve"})
            /\ ~(op = "approve" /\ req[t].op = "review")
        BY <4>2, Locked
      <4> QED BY <2>2, <2>5, <4>1, <4>3, <4>4 DEF Conflict
    <3> QED BY <3>1, <3>2
  <2>7. NoConflict'
    BY <2>4, <2>6 DEF WorkGood, NoConflict
  <2>8. AllKnow'
    <3> SUFFICES ASSUME NEW t \in Slots, req'[t].pc # "idle"
                 PROVE  Knows(req'[t], state'[req'[t].j], submissions'[req'[t].j],
                              escrow'[req'[t].j])
      BY DEF AllKnow
    <3>1. CASE t = s
      BY <2>1, <2>2, <2>3, <2>4, <3>1 DEF workData
    <3>2. CASE t # s
      BY <2>1, <2>4, <3>2 DEF workData, WorkGood, AllKnow
    <3> QED BY <3>1, <3>2
  <2>9. AllRest'
    <3>1. \A j1 \in Jobs : Changed(j1) => Changed(j1)'
      BY <2>1, <2>4, <2>5 DEF Changed, Idle
    <3> QED BY <2>1, <3>1 DEF workData, WorkGood, AllRest
  <2>10. StatsRight'
    <3>1. UNCHANGED <<reviewed, profile>> /\ DoneJobs' = DoneJobs
      BY <2>1 DEF workData, DoneJobs
    <3>2. req[s].pc \notin Settling /\ q.pc # "approve_stats" /\ q.pc # "review_commit"
      BY <2>1, <2>2, <2>5 DEF Idle, Settling, Releasing
    <3> QED BY <2>1, <3>1, <3>2, StatsKept DEF WorkGood
  <2> QED BY <2>7, <2>8, <2>9, <2>10 DEF WorkGood
<1>2. PICK j \in Jobs : StartRead(s, j) \/ CompleteRead(s, j) \/ ReviseRead(s, j)
                          \/ ApproveRead(s, j) \/ ReviewRead(s, j)
  BY DEF JobWorkRequest
<1> USE DEF Knows, Completing, Revising, Releasing, Approving, Reviewing, Settling, Changing
<1>3. CASE StartRead(s, j)
  BY <1>1, <1>3 DEF StartRead, ReadJob
<1>4. CASE CompleteRead(s, j)
  BY <1>1, <1>4 DEF CompleteRead, ReadJob
<1>5. CASE ReviseRead(s, j)
  BY <1>1, <1>5 DEF ReviseRead, ReadJob
<1>6. CASE ApproveRead(s, j)
  BY <1>1, <1>6 DEF ApproveRead, ReadJob
<1>7. CASE ReviewRead(s, j)
  BY <1>1, <1>7 DEF ReviewRead, ReadJob
<1> QED BY <1>2, <1>3, <1>4, <1>5, <1>6, <1>7

\* What a handler in slot s knows of its job, and that the job is at rest when it
\* is not in the middle of a change.
LEMMA KnownAt ==
    ASSUME TypeInv, WorkGood, NEW s \in Slots, req[s].pc # "idle"
    PROVE  LET k == req[s].j
           IN  /\ k \in Jobs /\ Knows(req[s], state[k], submissions[k], escrow[k])
               /\ req[s].pc \in Changing \/ Rests(state[k], submissions[k], escrow[k])
BY JobAt, RestThere DEF WorkGood, AllKnow

\* The writes of a status that end a handler: startJob, completeJob and
\* requestRevision.
LEMMA WriteGood ==
    ASSUME Inv, TypeInv, WorkGood, NEW s \in Slots,
           StartJob(s) \/ CompleteJob(s) \/ RequestRevision(s)
    PROVE  WorkGood'
<1> DEFINE k == req[s].j
<1>0. PICK st \in {"IN_PROGRESS", "WAITING_FOR_APPROVAL", "REVISION_REQUESTED"} :
        /\ state' = [state EXCEPT ![k] = st]
        /\ \/ req[s].pc = "start_write" /\ st = "IN_PROGRESS"
           \/ req[s].pc = "complete_write" /\ st = "WAITING_FOR_APPROVAL"
           \/ req[s].pc = "revise_write" /\ st = "REVISION_REQUESTED"
  BY DEF StartJob, CompleteJob, RequestRevision, WriteStatus, At
<1>1. req' = [req EXCEPT ![s] = Idle] /\ UNCHANGED <<submissions, escrow, reviewed, profile>>
  BY DEF StartJob, CompleteJob, RequestRevision, Finish, Goto
<1>2. /\ k \in Jobs /\ req[s].pc # "idle" /\ Knows(req[s], state[k], submissions[k], escrow[k])
      /\ req[s].pc \in Changing \/ Rests(state[k], submissions[k], escrow[k])
  BY <1>0, KnownAt
<1>3. state' \in [Jobs -> WorkStatuses] /\ state'[k] = st
      /\ \A j \in Jobs \ {k} : state'[j] = state[j]
  BY <1>0, <1>2, DataStep DEF TypeInv, DataTyped, JobWorkStep
<1>4. state[k] \notin Done /\ req[s].pc \notin Settling
  BY <1>0, <1>2 DEF Knows, Completing, Revising, Done, Settling, Releasing, Approving
<1>5. Rests(st, submissions[k], escrow[k])
  BY <1>0, <1>2 DEF Knows, Rests, Changing, Done
<1>6. NoConflict' /\ AllKnow' /\ AllRest'
  BY <1>1, <1>2, <1>3, <1>5, OwnStep DEF WorkGood
<1>7. DoneJobs' = DoneJobs
  BY <1>0, <1>2, <1>4, DoneSame DEF Done, WorkStatuses
<1>8. StatsRight'
  BY <1>1, <1>4, <1>7, StatsKept DEF WorkGood, Idle
<1> QED BY <1>6, <1>8 DEF WorkGood

\* The steps of completeJob and requestRevision before that write.
LEMMA SubmissionGood ==
    ASSUME Inv, TypeInv, WorkGood, NEW s \in Slots, NEW r, NEW k, k = req[s].j,
           req[s].pc # "idle", req' = [req EXCEPT ![s] = r], r.j = k,
           r.pc \in Completing \cup Revising, req[s].pc \in Completing \cup Revising,
           UNCHANGED <<state, escrow, reviewed, profile>>,
           \A j \in Jobs \ {k} : submissions'[j] = submissions[j],
           Knows(r, state[k], submissions'[k], escrow[k]),
           r.pc \in Changing \/ submissions'[k] = submissions[k],
           req[s].pc \notin Changing
    PROVE  WorkGood'
<1>1. Rests(state[k], submissions[k], escrow[k])
  BY KnownAt
<1>2. SameKind(req[s], r)
  BY DEF SameKind, Working, Completing, Revising, Releasing, Approving
<1>3. r.pc \in Changing \/ Rests(state[k], submissions'[k], escrow[k])
  BY <1>1
<1>4. NoConflict' /\ AllKnow' /\ AllRest'
  BY <1>2, <1>3, OwnStep DEF WorkGood
<1>5. DoneJobs' = DoneJobs
  BY DEF DoneJobs
<1>6. req[s].pc \notin Settling /\ r.pc # "approve_stats" /\ r.pc # "review_commit"
  BY DEF Settling, Releasing, Approving, Completing, Revising
<1>7. StatsRight'
  BY <1>5, <1>6, StatsKept DEF WorkGood
<1> QED BY <1>4, <1>7 DEF WorkGood

LEMMA CountGood ==
    ASSUME Inv, TypeInv, WorkGood, NEW s \in Slots, CompleteCount(s) PROVE WorkGood'
<1> DEFINE k == req[s].j
           r == [op |-> "complete", pc |-> "complete_create", j |-> k, number |-> NextNumber(k)]
<1>1. /\ req' = [req EXCEPT ![s] = r] /\ req[s].pc = "complete_count" /\ UNCHANGED workData
  BY DEF CompleteCount, Goto, At
<1>2. k \in Jobs /\ Knows(req[s], state[k], submissions[k], escrow[k])
  BY <1>1, KnownAt
<1>3. r.j = k /\ r.pc = "complete_create"
  OBVIOUS
<1> HIDE DEF r, k
<1>4. Knows(r, state[k], submissions[k], escrow[k])
  BY <1>1, <1>2, <1>3 DEF Knows, Completing, Revising, Reviewing, Settling, Releasing, Approving,
                          Changing
<1> QED BY <1>1, <1>3, <1>4, SubmissionGood DEF workData, k, Completing, Changing

LEMMA CreateGood ==
    ASSUME Inv, TypeInv, WorkGood, NEW s \in Slots, CompleteCreate(s) PROVE WorkGood'
<1> DEFINE k == req[s].j
           row == Submission(req[s].number, "PENDING")
           n == Len(submissions[k])
           r == [op |-> "complete", pc |-> "complete_write", j |-> k]
<1>1. /\ req' = [req EXCEPT ![s] = r] /\ req[s].pc = "complete_create"
      /\ UNCHANGED <<state, escrow, reviewed, profile>>
  BY DEF CompleteCreate, Goto, At
<1>2. /\ k \in Jobs /\ Knows(req[s], state[k], submissions[k], escrow[k])
      /\ Rests(state[k], submissions[k], escrow[k])
  BY <1>1, KnownAt DEF Changing
<1>3. Adds(k, row) /\ row.status = "PENDING"
  BY CreateAdds DEF Submission
<1>4. r.j = k /\ r.pc = "complete_write"
  OBVIOUS
<1> HIDE DEF r, k, row
<1>5. state[k] \in {"IN_PROGRESS", "REVISION_REQUESTED"}
  BY <1>1, <1>2 DEF Knows, Completing
<1>6. PendingOf(submissions[k]) = {} /\ escrow[k] = "FUNDED"
  BY <1>2, <1>5 DEF Rests, Done
<1>7. OneToJudge(submissions'[k])
  <2>1. /\ n \in Nat /\ DOMAIN submissions[k] = 1 .. n /\ DOMAIN submissions'[k] = 1 .. (n + 1)
        /\ Len(submissions'[k]) = n + 1
        /\ (\A i \in 1 .. n : submissions'[k][i] = submissions[k][i])
        /\ submissions'[k][n + 1] = row
    BY <1>3 DEF Adds
  <2> HIDE DEF n
  <2>2. \A i \in 1 .. n : submissions'[k][i].status # "PENDING"
    BY <1>6, <2>1 DEF PendingOf
  <2>3. PendingOf(submissions'[k]) = {n + 1}
    BY <1>3, <2>1, <2>2 DEF PendingOf
  <2> QED BY <2>1, <2>3 DEF OneToJudge
<1>8. Knows(r, state[k], submissions'[k], escrow[k])
  BY <1>4, <1>5, <1>6, <1>7
     DEF Knows, Completing, Revising, Reviewing, Settling, Releasing, Approving, Changing
<1>9. \A j \in Jobs \ {k} : submissions'[j] = submissions[j]
  BY <1>3 DEF Adds
<1> QED BY <1>1, <1>4, <1>8, <1>9, SubmissionGood DEF k, Completing, Changing

\* requestRevision finds the submission to be judged, and marks that one.
LEMMA ReviseGood ==
    ASSUME Inv, TypeInv, WorkRegime, WorkGood, NEW s \in Slots, ReviseFind(s) \/ ReviseMark(s)
    PROVE  WorkGood'
<1> DEFINE k == req[s].j
<1>1. req[s].pc \in {"revise_find", "revise_mark"}
  BY DEF ReviseFind, ReviseMark, At
<1>2. /\ k \in Jobs /\ Knows(req[s], state[k], submissions[k], escrow[k])
      /\ Rests(state[k], submissions[k], escrow[k])
  BY <1>1, KnownAt DEF Changing
<1>3. state[k] = "WAITING_FOR_APPROVAL"
  BY <1>1, <1>2 DEF Knows, Revising
<1>4. OneToJudge(submissions[k]) /\ escrow[k] = "FUNDED"
  BY <1>2, <1>3 DEF Rests, Done
<1>5. CASE ReviseFind(s)
  <2>1. Len(submissions[k]) \in Nat /\ DOMAIN submissions[k] = 1 .. Len(submissions[k])
        /\ submissions[k] # << >>
    BY <1>2, <1>4, EmptySeq, LenProperties DEF Inv, Typed, OneToJudge
  <2>2. PICK i \in Latest(k) :
            req' = [req EXCEPT ![s] = [op |-> "revise", pc |-> "revise_mark", j |-> k, i |-> i]]
    BY <1>5, <2>1 DEF ReviseFind, Goto
  <2>3. i = Len(submissions[k])
    <3>1. \A x \in DOMAIN submissions[k] : submissions[k][x].number = x
      BY <1>2, InOrder DEF NumberedInOrder
    <3>2. i \in 1 .. Len(submissions[k]) /\ \A x \in 1 .. Len(submissions[k]) : x <= i
      BY <2>1, <2>2, <3>1 DEF Latest
    <3> QED BY <1>4, <2>1, <3>2 DEF OneToJudge
  <2> DEFINE r == [op |-> "revise", pc |-> "revise_mark", j |-> k, i |-> i]
  <2>4. r.j = k /\ r.pc = "revise_mark" /\ r.i = Len(submissions[k]) /\ UNCHANGED workData
    BY <1>5, <2>3 DEF ReviseFind
  <2> HIDE DEF r
  <2>5. Knows(r, state[k], submissions[k], escrow[k])
    BY <1>3, <2>4 DEF Knows, Completing, Revising, Reviewing, Settling, Releasing, Approving,
                      Changing
  <2>6. req' = [req EXCEPT ![s] = r]
    BY <2>2 DEF r
  <2> HIDE DEF k
  <2> QED BY <1>1, <2>4, <2>5, <2>6, SubmissionGood DEF workData, k, Revising, Changing
<1>6. CASE ReviseMark(s)
  <2> DEFINE r == [op |-> "revise", pc |-> "revise_write", j |-> k]
  <2>1. /\ req' = [req EXCEPT ![s] = r] /\ req[s].pc = "revise_mark"
        /\ UNCHANGED <<state, escrow, reviewed, profile>>
    BY <1>6 DEF ReviseMark, Goto, At
  <2>2. r.j = k /\ r.pc = "revise_write"
    OBVIOUS
  <2>3. req[s].i = Len(submissions[k])
    BY <1>2, <2>1 DEF Knows
  <2>4. Marks(k, {req[s].i}, "REVISION_REQUESTED")
    BY <1>6, ReviseMarks
  <2> HIDE DEF r, k
  <2>5. PendingOf(submissions'[k]) = {}
    BY <1>2, <1>4, <2>3, <2>4 DEF Marks, PendingOf, OneToJudge
  <2>6. Knows(r, state[k], submissions'[k], escrow[k])
    BY <1>3, <1>4, <2>2, <2>5
       DEF Knows, Completing, Revising, Reviewing, Settling, Releasing, Approving, Changing
  <2>7. \A j \in Jobs \ {k} : submissions'[j] = submissions[j]
    <3>1. submissions' = [submissions EXCEPT ![k] =
                            IF req[s].i = 0 THEN Append(@, Submission(1, "REVISION_REQUESTED"))
                            ELSE [@ EXCEPT ![req[s].i].status = "REVISION_REQUESTED"]]
      BY <1>6 DEF ReviseMark, k
    <3> QED BY <3>1 DEF Inv, Typed
  <2> QED BY <2>1, <2>2, <2>6, <2>7, SubmissionGood DEF k, Revising, Changing
<1> QED BY <1>5, <1>6

\* The steps of approveJob, up to the write of the statistics.
LEMMA ApprovalGood ==
    ASSUME Inv, TypeInv, WorkGood, NEW s \in Slots, NEW r, NEW k, k = req[s].j,
           req' = [req EXCEPT ![s] = r], r.j = k, r.pc \in Settling, req[s].pc \in Releasing,
           r.pc = "approve_stats" => /\ r.completed = Cardinality(DoneJobs)
                                     /\ req[s].pc # "approve_write",
           UNCHANGED <<reviewed, profile>>, req[s].pc # "approve_write" => UNCHANGED state,
           \A j \in Jobs \ {k} : /\ state'[j] = state[j] /\ submissions'[j] = submissions[j]
                                 /\ escrow'[j] = escrow[j],
           Knows(r, state'[k], submissions'[k], escrow'[k]),
           r.pc \in Changing \/ Rests(state'[k], submissions'[k], escrow'[k])
    PROVE  WorkGood'
<1>1. req[s].pc # "idle" /\ SameKind(req[s], r)
  BY DEF SameKind, Working, Settling, Releasing, Approving
<1>2. NoConflict' /\ AllKnow' /\ AllRest'
  BY <1>1, OwnStep DEF WorkGood
<1>3. r.pc # "review_commit"
  BY DEF Settling, Releasing, Approving
<1>4. CASE req[s].pc # "approve_write"
  <2>1. DoneJobs' = DoneJobs
    BY <1>4 DEF DoneJobs
  <2>2. StatsRight'
    BY <1>3, <2>1, StatsKept DEF WorkGood
  <2> QED BY <1>2, <2>2 DEF WorkGood
<1>5. CASE req[s].pc = "approve_write"
  <2>1. \A t \in Slots : req'[t] = IF t = s THEN r ELSE req[t]
    BY DEF Inv, Typed
  <2>2. ASSUME NEW t \in Slots PROVE req'[t].pc \notin {"approve_stats", "review_commit"}
    <3>1. t # s => ~Conflict(req[s], req[t])
      BY DEF WorkGood, NoConflict
    <3> QED BY <1>3, <1>5, <2>1, <3>1 DEF Conflict, Working, Releasing, Reviewing
  <2>3. req'[s].pc \in Settling
    BY <2>1
  <2>4. StatsRight'
    BY <2>2, <2>3 DEF WorkGood, StatsRight
  <2> QED BY <1>2, <2>4 DEF WorkGood
<1> QED BY <1>4, <1>5

LEMMA ApproveGood ==
    ASSUME Inv, TypeInv, WorkGood, NEW s \in Slots,
           ApproveJob(s) \/ ApproveMark(s) \/ ReleaseFind(s) \/ ReleaseEscrow(s)
             \/ ApproveCount(s)
    PROVE  WorkGood'
<1> DEFINE k == req[s].j
           After(pc) == [req[s] EXCEPT !.pc = pc]
<1>1. req[s].pc \in Approving /\ req[s].pc \in Releasing /\ req[s].pc # "idle"
  BY DEF ApproveJob, WriteStatus, ApproveMark, ReleaseFind, ReleaseEscrow, ApproveCount, At,
         Approving, Releasing
<1>2. /\ k \in Jobs /\ Knows(req[s], state[k], submissions[k], escrow[k])
      /\ req[s].pc \in Changing \/ Rests(state[k], submissions[k], escrow[k])
  BY <1>1, KnownAt
<1>3. ASSUME NEW pc \in Approving PROVE After(pc).pc = pc /\ After(pc).j = k
  <2>1. req[s] \in [op: {"approve"}, pc: Approving, j: Jobs]
    BY <1>1, SoundAt DEF Sound
  <2> QED BY <2>1
<1>4. "approve_mark" \in Approving /\ "release_find" \in Approving /\ "release_tx" \in Approving
      /\ "approve_count" \in Approving /\ DOMAIN submissions = Jobs /\ DOMAIN escrow = Jobs
      /\ DOMAIN state = Jobs
  BY DEF Approving, Inv, Typed, TypeInv, DataTyped
<1> HIDE DEF k, After
<1>5. CASE ApproveJob(s)
  <2> DEFINE r == After("approve_mark")
  <2>1. /\ req' = [req EXCEPT ![s] = r] /\ req[s].pc = "approve_write"
        /\ state' = [state EXCEPT ![k] = "COMPLETED"]
        /\ UNCHANGED <<submissions, escrow, reviewed, profile>>
    BY <1>5 DEF ApproveJob, WriteStatus, Goto, At, After, k
  <2>2. r.pc = "approve_mark" /\ r.j = k
    BY <1>3, <1>4
  <2> HIDE DEF r
  <2>3. OneToJudge(submissions[k]) /\ escrow[k] = "FUNDED"
    <3>1. Rests(state[k], submissions[k], escrow[k]) /\ state[k] = "WAITING_FOR_APPROVAL"
      BY <1>2, <2>1 DEF Knows, Changing
    <3> QED BY <3>1 DEF Rests, Done
  <2>4. state'[k] = "COMPLETED" /\ \A j \in Jobs \ {k} : state'[j] = state[j]
    BY <1>2, <1>4, <2>1
  <2>5. Knows(r, state'[k], submissions'[k], escrow'[k])
    BY <2>1, <2>2, <2>3, <2>4
       DEF Knows, Completing, Revising, Reviewing, Settling, Releasing, Approving, Changing
  <2> QED BY <1>1, <2>1, <2>2, <2>4, <2>5, ApprovalGood DEF k, Settling, Releasing, Approving, Changing
<1>6. CASE ApproveMark(s)
  <2> DEFINE r == After("release_find")
  <2>1. /\ req' = [req EXCEPT ![s] = r] /\ req[s].pc = "approve_mark"
        /\ \E rows : submissions' = [submissions EXCEPT ![k] = rows]
        /\ UNCHANGED <<state, escrow, reviewed, profile>>
    BY <1>6 DEF ApproveMark, Goto, At, After, k
  <2>2. r.pc = "release_find" /\ r.j = k
    BY <1>3, <1>4
  <2> HIDE DEF r
  <2>3. PendingOf(submissions'[k]) = {}
    <3>1. Marks(k, Pending(k), "APPROVED")
      BY <1>6, ApproveMarks DEF k
    <3>2. /\ DOMAIN submissions'[k] = DOMAIN submissions[k]
          /\ \A i \in DOMAIN submissions[k] :
                submissions'[k][i].status = IF i \in Pending(k) THEN "APPROVED"
                                            ELSE submissions[k][i].status
      BY <1>2, <3>1 DEF Marks
    <3> QED BY <3>2 DEF PendingOf, Pending
  <2>4. state[k] = "COMPLETED" /\ escrow[k] = "FUNDED"
    BY <1>2, <2>1 DEF Knows, Settling, Releasing, Approving, Changing
  <2>5. Knows(r, state'[k], submissions'[k], escrow'[k])
    BY <2>1, <2>2, <2>3, <2>4
       DEF Knows, Completing, Revising, Reviewing, Settling, Releasing, Approving, Changing
  <2>6. \A j \in Jobs \ {k} : submissions'[j] = submissions[j]
    BY <1>4, <2>1
  <2> QED BY <1>1, <2>1, <2>2, <2>5, <2>6, ApprovalGood DEF k, Settling, Releasing, Approving, Changing
<1>7. CASE ReleaseFind(s)
  <2> DEFINE r == After("release_tx")
  <2>1. req[s].pc = "release_find" /\ UNCHANGED workData
    BY <1>7 DEF ReleaseFind, At
  <2>2. state[k] = "COMPLETED" /\ escrow[k] = "FUNDED" /\ PendingOf(submissions[k]) = {}
    BY <1>2, <2>1 DEF Knows, Settling, Releasing, Approving, Changing
  <2>3. req' = [req EXCEPT ![s] = r]
    BY <1>7, <2>2 DEF ReleaseFind, Goto, After, k
  <2>4. r.pc = "release_tx" /\ r.j = k
    BY <1>3, <1>4
  <2> HIDE DEF r
  <2>5. Knows(r, state'[k], submissions'[k], escrow'[k])
    BY <2>1, <2>2, <2>4
       DEF workData, Knows, Completing, Revising, Reviewing, Settling, Releasing, Approving, Changing
  <2> QED BY <1>1, <2>1, <2>3, <2>4, <2>5, ApprovalGood
         DEF workData, k, Settling, Releasing, Approving, Changing
<1>8. CASE ReleaseEscrow(s)
  <2> DEFINE r == After("approve_count")
  <2>1. /\ req' = [req EXCEPT ![s] = r] /\ req[s].pc = "release_tx"
        /\ escrow' = [escrow EXCEPT ![k] = "RELEASED"]
        /\ UNCHANGED <<state, submissions, reviewed, profile>>
    BY <1>8 DEF ReleaseEscrow, Goto, At, After, k
  <2>2. state[k] = "COMPLETED" /\ PendingOf(submissions[k]) = {}
    BY <1>2, <2>1 DEF Knows, Settling, Releasing, Approving
  <2>3. r.pc = "approve_count" /\ r.j = k
    BY <1>3, <1>4
  <2> HIDE DEF r
  <2>4. escrow'[k] = "RELEASED" /\ \A j \in Jobs \ {k} : escrow'[j] = escrow[j]
    BY <1>2, <1>4, <2>1
  <2>5. Knows(r, state'[k], submissions'[k], escrow'[k])
    BY <2>1, <2>2, <2>3
       DEF Knows, Completing, Revising, Reviewing, Settling, Releasing, Approving, Changing
  <2>6. Rests(state'[k], submissions'[k], escrow'[k])
    BY <2>1, <2>2, <2>4 DEF Rests, Done
  <2> QED BY <1>1, <2>1, <2>3, <2>4, <2>5, <2>6, ApprovalGood
         DEF k, Settling, Releasing, Approving
<1>9. CASE ApproveCount(s)
  <2> DEFINE r == [op |-> "approve", pc |-> "approve_stats", j |-> k,
                   completed |-> Cardinality(DoneJobs)]
  <2>1. req' = [req EXCEPT ![s] = r] /\ req[s].pc = "approve_count" /\ UNCHANGED workData
    BY <1>9 DEF ApproveCount, Goto, At, k
  <2>2. r.pc = "approve_stats" /\ r.j = k /\ r.completed = Cardinality(DoneJobs)
    OBVIOUS
  <2> HIDE DEF r
  <2>3. state[k] = "COMPLETED" /\ Rests(state[k], submissions[k], escrow[k])
    BY <1>2, <2>1 DEF Knows, Settling, Releasing, Approving, Changing
  <2>4. Knows(r, state[k], submissions[k], escrow[k])
    BY <2>2, <2>3
       DEF Knows, Completing, Revising, Reviewing, Settling, Releasing, Approving, Changing
  <2> QED BY <1>1, <2>1, <2>2, <2>3, <2>4, ApprovalGood
         DEF workData, k, Settling, Releasing, Approving
<1> QED BY <1>5, <1>6, <1>7, <1>8, <1>9

\* The last write of approveJob, and the two steps of createReview.
LEMMA StatsGood ==
    ASSUME Inv, TypeInv, WorkGood, NEW s \in Slots,
           ApproveStats(s) \/ ReviewStats(s) \/ CreateReview(s)
    PROVE  WorkGood'
<1> DEFINE k == req[s].j
<1>1. req[s].pc \in {"approve_stats", "review_tx", "review_commit"}
  BY DEF ApproveStats, ReviewStats, CreateReview, At
<1>2. /\ k \in Jobs /\ Knows(req[s], state[k], submissions[k], escrow[k])
      /\ Rests(state[k], submissions[k], escrow[k])
  BY <1>1, KnownAt DEF Changing
<1>3. state[k] \in Done
  BY <1>1, <1>2 DEF Knows, Settling, Releasing, Approving, Reviewing, Done
<1>4. \A t \in Slots : t # s =>
          /\ req[t].pc \notin {"approve_stats", "review_commit"}
          /\ req[s].pc # "approve_stats" => req[t].pc \notin Settling
  <2>1. \A t \in Slots : t # s => ~Conflict(req[s], req[t])
    BY DEF WorkGood, NoConflict
  <2> QED BY <1>1, <2>1 DEF Conflict, Working, Settling, Releasing, Reviewing
<1>5. CASE ReviewStats(s)
  <2> DEFINE r == [op |-> "review", pc |-> "review_commit", j |-> k,
                   stats |-> [rated     |-> reviewed \cup {k},
                              completed |-> Cardinality(DoneJobs \cup {k})]]
  <2>1. req' = [req EXCEPT ![s] = r] /\ req[s].pc = "review_tx" /\ UNCHANGED workData
    BY <1>5 DEF ReviewStats, Goto, At
  <2>2. DoneJobs \cup {k} = DoneJobs /\ DoneJobs' = DoneJobs
    BY <1>2, <1>3, <2>1 DEF DoneJobs, workData
  <2>3. /\ r.pc = "review_commit" /\ r.j = k /\ r.stats.rated = reviewed \cup {k}
        /\ r.stats.completed = Cardinality(DoneJobs)
    BY <2>2
  <2> HIDE DEF r
  <2>4. Knows(r, state[k], submissions[k], escrow[k])
    BY <1>3, <2>3
       DEF Knows, Completing, Revising, Reviewing, Settling, Releasing, Approving, Changing
  <2>5. SameKind(req[s], r)
    BY <2>1, <2>3 DEF SameKind, Reviewing
  <2>6. NoConflict' /\ AllKnow' /\ AllRest'
    BY <1>1, <1>2, <2>1, <2>3, <2>4, <2>5, OwnStep DEF workData, WorkGood
  <2>7. req[s].pc \notin Settling /\ r.pc # "approve_stats"
    BY <2>1, <2>3 DEF Settling, Releasing, Approving
  <2>8. StatsRight'
    BY <2>1, <2>2, <2>3, <2>7, StatsKept DEF workData, WorkGood
  <2> QED BY <2>6, <2>8 DEF WorkGood
<1>6. CASE ApproveStats(s)
  <2>1. /\ req' = [req EXCEPT ![s] = Idle] /\ req[s].pc = "approve_stats"
        /\ profile' = [profile EXCEPT !.completed = req[s].completed]
        /\ UNCHANGED <<state, submissions, escrow, reviewed>>
    BY <1>6 DEF ApproveStats, Finish, Goto, At
  <2>2. \A t \in Slots : req'[t] = IF t = s THEN Idle ELSE req[t]
    BY <2>1 DEF Inv, Typed
  <2>3. NoConflict' /\ AllKnow' /\ AllRest'
    BY <1>1, <1>2, <2>1, OwnStep DEF WorkGood
  <2>4. DoneJobs' = DoneJobs
    BY <2>1 DEF DoneJobs
  <2>5. req[s].completed = Cardinality(DoneJobs) /\ profile.rated = reviewed
    BY <2>1 DEF WorkGood, StatsRight
  <2>6. profile \in Profiles
    BY DEF TypeInv, DataTyped
  <2>7. profile'.rated = reviewed' /\ profile'.completed = Cardinality(DoneJobs)
    BY <2>1, <2>5, <2>6 DEF Profiles
  <2>8. \A t \in Slots : req'[t].pc \notin {"approve_stats", "review_commit"}
    BY <1>4, <2>1, <2>2 DEF Idle, Settling, Releasing
  <2>9. StatsRight'
    BY <2>4, <2>7, <2>8 DEF StatsRight
  <2> QED BY <2>3, <2>9 DEF WorkGood
<1>7. CASE CreateReview(s)
  <2>1. req' = [req EXCEPT ![s] = Idle] /\ req[s].pc = "review_commit"
        /\ UNCHANGED <<submissions, escrow>>
    BY <1>7 DEF CreateReview, Finish, Goto, At
  <2>2. \A t \in Slots : req'[t] = IF t = s THEN Idle ELSE req[t]
    BY <2>1 DEF Inv, Typed
  <2>3. \/ UNCHANGED <<reviewed, state, profile>>
        \/ /\ reviewed' = reviewed \cup {k} /\ profile' = req[s].stats
           /\ state' = [state EXCEPT ![k] = "CLOSED"]
    BY <1>7 DEF CreateReview
  <2>4. state'[k] \in Done /\ \A j \in Jobs \ {k} : state'[j] = state[j]
    BY <1>2, <1>3, <2>3 DEF TypeInv, DataTyped, Done
  <2>5. Rests(state'[k], submissions'[k], escrow'[k])
    BY <1>2, <1>3, <2>1, <2>4 DEF Rests, Done
  <2>6. NoConflict' /\ AllKnow' /\ AllRest'
    BY <1>1, <1>2, <2>1, <2>4, <2>5, OwnStep DEF WorkGood
  <2>7. DoneJobs' = DoneJobs
    <3>1. CASE UNCHANGED state
      BY <3>1 DEF DoneJobs
    <3>2. CASE state' = [state EXCEPT ![k] = "CLOSED"]
      BY <1>2, <1>3, <3>2, DoneSame DEF Done, WorkStatuses
    <3> QED BY <2>3, <3>1, <3>2
  <2>8. /\ req[s].stats.rated = reviewed \cup {k}
        /\ req[s].stats.completed = Cardinality(DoneJobs)
        /\ profile.rated = reviewed
    BY <2>1 DEF WorkGood, StatsRight
  <2>9. \A t \in Slots : req[t].pc \notin Settling
    BY <1>4, <2>1 DEF Settling, Releasing, Approving
  <2>10. profile.completed = Cardinality(DoneJobs)
    BY <2>9 DEF WorkGood, StatsRight
  <2> HIDE DEF k
  <2>11. profile'.rated = reviewed' /\ profile'.completed = Cardinality(DoneJobs)
    BY <2>3, <2>8, <2>10
  <2>12. \A t \in Slots : req'[t].pc \notin {"approve_stats", "review_commit"}
    BY <1>4, <2>1, <2>2 DEF Idle
  <2>13. StatsRight'
    BY <2>7, <2>11, <2>12 DEF StatsRight
  <2> QED BY <2>6, <2>13 DEF WorkGood
<1> QED BY <1>5, <1>6, <1>7

LEMMA WorkInit == JobWorkInit /\ HandlersInit => WorkInv
<1> SUFFICES ASSUME JobWorkInit, HandlersInit PROVE NoConflict /\ AllKnow /\ AllRest /\ StatsRight
  BY DEF WorkInv
<1>1. \A s \in Slots : req[s] = Idle /\ req[s].pc = "idle"
  BY DEF HandlersInit, Idle
<1>2. NoConflict
  BY <1>1 DEF NoConflict, Conflict, Working, Completing, Revising, Releasing, Approving, Reviewing
<1>3. AllKnow
  BY <1>1 DEF AllKnow
<1>4. AllRest
  BY DEF JobWorkInit, AllRest, Rests, PendingOf, Done
<1>5. StatsRight
  <2>1. DoneJobs = {}
    BY DEF JobWorkInit, DoneJobs, Done
  <2> QED BY <1>1, <2>1, FS_EmptySet DEF JobWorkInit, StatsRight
<1> QED BY <1>2, <1>3, <1>4, <1>5

LEMMA WorkNext == Inv /\ TypeInv /\ WorkInv /\ [JobWorkNext]_workVars => WorkInv'
<1> SUFFICES ASSUME Inv, TypeInv, WorkInv, [JobWorkNext]_workVars, WorkRegime' PROVE WorkGood'
  BY DEF WorkInv, WorkGood
<1>1. UNCHANGED <<apart, failing>>
  <2>1. ASSUME NEW s \in Slots, JobWorkRequest(s) PROVE UNCHANGED <<apart, failing>>
    BY <2>1 DEF JobWorkRequest, StartRead, CompleteRead, ReviseRead, ApproveRead, ReviewRead,
                ReadJob, Begin, Arrives
  <2>2. ASSUME NEW s \in Slots, JobWorkStep(s) \/ JobWorkAbandon(s)
        PROVE  UNCHANGED <<apart, failing>>
    BY <2>2 DEF JobWorkStep, JobWorkAbandon, Stops, Finish, Goto, StartJob, CompleteCount,
                CompleteCreate, CompleteJob, ReviseFind, ReviseMark, RequestRevision,
                ApproveJob, ApproveMark, ReleaseFind, ReleaseEscrow, ApproveCount,
                ApproveStats, ReviewStats, CreateReview
  <2> QED BY <2>1, <2>2 DEF JobWorkNext, workVars, handlers
<1>2. WorkRegime /\ WorkGood
  BY <1>1 DEF WorkRegime, Apart, WorkInv, WorkGood
<1>3. ASSUME NEW s \in Slots, JobWorkStep(s) PROVE WorkGood'
  BY <1>2, <1>3, WriteGood, CountGood, CreateGood, ReviseGood, ApproveGood, StatsGood
     DEF JobWorkStep
<1>4. ASSUME NEW s \in Slots, JobWorkAbandon(s) PROVE FALSE
  BY <1>2, <1>4 DEF JobWorkAbandon, Stops, WorkRegime
<1>5. CASE UNCHANGED workVars
  BY <1>2, <1>5 DEF workVars, workData, handlers, WorkGood, NoConflict, AllKnow, AllRest,
                    Changed, StatsRight, DoneJobs
<1> QED BY <1>2, <1>3, <1>4, <1>5, RequestGood DEF JobWorkNext
-----------------------------------------------------------------------------
(* Theorems *)

\* With completeJob kept from overlapping itself, no two submissions of a job
\* bear the same number, whatever else overlaps or stops halfway: requestRevision,
\* which would add a submission numbered 1 if it found none, always finds one.
THEOREM NumbersDistinctAlways == JobWorkSpec => []NumbersDistinct
<1>1. Inv => NumbersDistinct
  BY DEF Inv, CompleteLock, NumberedInOrder, NumbersDistinct, IsInjective
<1> QED BY <1>1, InitInv, NextInv, PTL DEF JobWorkSpec

LEMMA AllInvariants == JobWorkSpec => [](Inv /\ TypeInv /\ WorkInv)
<1>1. JobWorkInit /\ HandlersInit => Inv /\ TypeInv /\ WorkInv
  BY InitInv, TypeInit, WorkInit
<1>2. Inv /\ TypeInv /\ WorkInv /\ [JobWorkNext]_workVars => (Inv /\ TypeInv /\ WorkInv)'
  BY NextInv, TypeNext, WorkNext
<1> QED BY <1>1, <1>2, PTL DEF JobWorkSpec

\* Whatever overlaps or stops halfway, the tables hold what their columns may hold,
\* completed_jobs is never more than the helper's jobs, and no submission has a
\* number beyond that of the requests made.
THEOREM TypeCorrect == JobWorkSpec => []JobWorkTypeOK
<1>1. Inv /\ TypeInv => JobWorkTypeOK
  <2> SUFFICES ASSUME Inv, TypeInv PROVE JobWorkTypeOK
    OBVIOUS
  <2>1. ASSUME NEW j \in Jobs, NEW i \in DOMAIN submissions[j]
        PROVE  submissions[j][i].status \in SubmissionStatuses
    <3>1. submissions[j] \in Seq(Rows)
      BY DEF Inv, Typed
    <3>2. submissions[j][i] \in Rows
      BY <3>1
    <3> QED BY <3>2 DEF Rows
  <2> QED BY <2>1 DEF TypeInv, DataTyped, NumbersTyped, Profiles, JobWorkTypeOK
<1> QED BY <1>1, AllInvariants, PTL

\* A job that no handler is on is not in the middle of a change.
LEMMA UntouchedRests ==
    ASSUME WorkInv, WorkRegime, NEW j \in Jobs, Untouched(j)
    PROVE  Rests(state[j], submissions[j], escrow[j])
<1>1. \A s \in Slots : req[s].pc \in Changing => req[s].j # j
  BY DEF Untouched, Busy, Idle, Changing
<1> QED BY <1>1 DEF WorkInv, AllRest, Changed

\* With the work on the jobs kept apart and nothing stopping halfway, a job that
\* waits for approval has one submission to judge, the latest: completeJob adds one
\* when none is pending, and requestRevision marks the one that was.
THEOREM WaitingHasOnePendingAlways == JobWorkSpec => []WaitingHasOnePending
<1>1. Inv /\ TypeInv /\ WorkInv => WaitingHasOnePending
  <2> SUFFICES ASSUME Inv, WorkInv, WorkRegime, NEW j \in Jobs,
                      state[j] = "WAITING_FOR_APPROVAL", Untouched(j)
               PROVE  Pending(j) = Latest(j) /\ Cardinality(Pending(j)) = 1
    BY DEF WaitingHasOnePending, WorkRegime
  <2>1. OneToJudge(submissions[j])
    BY UntouchedRests DEF Rests
  <2>2. /\ submissions[j] \in Seq(Rows) /\ Len(submissions[j]) \in Nat
        /\ DOMAIN submissions[j] = 1 .. Len(submissions[j])
    BY LenProperties DEF Inv, Typed
  <2>3. \A i \in DOMAIN submissions[j] : submissions[j][i].number = i
    BY InOrder DEF NumberedInOrder
  <2>4. Latest(j) = {Len(submissions[j])}
    BY <2>1, <2>2, <2>3 DEF Latest, OneToJudge
  <2>5. Pending(j) = {Len(submissions[j])}
    BY <2>1 DEF OneToJudge, Pending, PendingOf
  <2> QED BY <2>4, <2>5, FS_Singleton
<1> QED BY <1>1, AllInvariants, PTL

\* With the work on the jobs kept apart and nothing stopping halfway, approveJob has
\* settled a job that is done: its escrow is released and nothing is left to judge.
THEOREM CompletedIsSettledAlways == JobWorkSpec => []CompletedIsSettled
<1>1. Inv /\ TypeInv /\ WorkInv => CompletedIsSettled
  BY UntouchedRests DEF CompletedIsSettled, WorkRegime, DoneJobs, Rests, Done, Pending, PendingOf
<1> QED BY <1>1, AllInvariants, PTL

\* With the work on the jobs kept apart and nothing stopping halfway, the profile
\* counts every review and every job done once no handler is in flight, although
\* approveJob and createReview write counts that they took earlier.
THEOREM StatsAgreeAlways == JobWorkSpec => []StatsAgree
<1>1. Inv /\ TypeInv /\ WorkInv => StatsAgree
  <2> SUFFICES ASSUME TypeInv, WorkInv, WorkRegime, Quiet
               PROVE  profile = [rated |-> reviewed, completed |-> Cardinality(DoneJobs)]
    BY DEF StatsAgree, WorkRegime
  <2>1. \A s \in Slots : req[s].pc \notin Settling
    BY DEF Quiet, Busy, Idle, Settling, Releasing, Approving
  <2>2. profile.rated = reviewed /\ profile.completed = Cardinality(DoneJobs)
    BY <2>1 DEF WorkInv, StatsRight
  <2>3. profile \in Profiles
    BY DEF TypeInv, DataTyped
  <2> QED BY <2>2, <2>3 DEF Profiles
<1> QED BY <1>1, AllInvariants, PTL
=============================================================================
