------------------------------ MODULE JobWork -------------------------------
(***************************************************************************)
(* The work on the jobs of one helper, from the payment to the review:     *)
(* submissions and their numbers, revisions, approval with its escrow, and *)
(* the statistics shown on the helper's profile.  It models                *)
(*   Job/job.services.ts         startJob, completeJob, requestRevision,   *)
(*                               approveJob                                *)
(*   Payment/payment.services.ts releaseEscrow, as approveJob calls it     *)
(*   Review/review.services.ts   createReview                              *)
(* Each job is paid and its selected application stays the helper's; what  *)
(* happens when that changes is the business of Escrow and Hiring.         *)
(***************************************************************************)
EXTENDS Handlers, SequencesExt, FiniteSetsExt

CONSTANT Jobs   \* the helper's jobs

ASSUME JobWorkAssumption == IsFiniteSet(Jobs)

VARIABLES
    state,       \* job_posts.status
    submissions, \* job_submissions of a job, in the order of their creation
    escrow,      \* payments.status of the job
    reviewed,    \* jobs with a review
    profile      \* users: reviews behind rating_average and total_reviews,
                 \* and completed_jobs

workData == <<state, submissions, escrow, reviewed, profile>>
workVars == <<workData, handlers>>

-----------------------------------------------------------------------------
(* Data *)

WorkStatuses == {"ASSIGNED", "IN_PROGRESS", "WAITING_FOR_APPROVAL",
                 "REVISION_REQUESTED", "COMPLETED", "CLOSED"}
Done == {"COMPLETED", "CLOSED"}
SubmissionStatuses == {"PENDING", "REVISION_REQUESTED", "APPROVED"}
Submission(n, st) == [number |-> n, status |-> st]

Pending(j) == {i \in DOMAIN submissions[j] : submissions[j][i].status = "PENDING"}

\* orderBy submission_number desc: one with the greatest number.
Latest(j) == {i \in DOMAIN submissions[j] :
                \A k \in DOMAIN submissions[j] :
                    submissions[j][k].number <= submissions[j][i].number}

DoneJobs == {j \in Jobs : state[j] \in Done}

JobWorkInit ==
    /\ state = [j \in Jobs |-> "ASSIGNED"]
    /\ submissions = [j \in Jobs |-> << >>]
    /\ escrow = [j \in Jobs |-> "FUNDED"]
    /\ reviewed = {}
    /\ profile = [rated |-> {}, completed |-> 0]

-----------------------------------------------------------------------------
(* The helper: startJob and completeJob *)

ReadJob(s, j, op, pc, froms) ==
    /\ state[j] \in froms
    /\ Begin(s, [op |-> op, pc |-> pc, j |-> j])
    /\ UNCHANGED workData

\* The handler's update of the status, which looks at nothing.
WriteStatus(s, pc, status) ==
    /\ At(s, pc)
    /\ state' = [state EXCEPT ![req[s].j] = status]

StartRead(s, j) == ReadJob(s, j, "start", "start_write", {"ASSIGNED"})
StartJob(s) ==
    /\ WriteStatus(s, "start_write", "IN_PROGRESS")
    /\ Finish(s)
    /\ UNCHANGED <<submissions, escrow, reviewed, profile>>

CompleteRead(s, j) ==
    ReadJob(s, j, "complete", "complete_count", {"IN_PROGRESS", "REVISION_REQUESTED"})

\* The number of the new submission, from a count of the earlier ones.
NextNumber_PendingOnly(j) == Cardinality(Pending(j)) + 1
NextNumber_FromZero(j) == Len(submissions[j])
NextNumber(j) == Len(submissions[j]) + 1

\* After the upload of the photos.
CompleteCount(s) ==
    /\ At(s, "complete_count")
    /\ Goto(s, [op |-> "complete", pc |-> "complete_create", j |-> req[s].j,
                number |-> NextNumber(req[s].j)])
    /\ UNCHANGED workData

CompleteCreate(s) ==
    /\ At(s, "complete_create")
    /\ submissions' = [submissions EXCEPT ![req[s].j] =
                         Append(@, Submission(req[s].number, "PENDING"))]
    /\ Goto(s, [op |-> "complete", pc |-> "complete_write", j |-> req[s].j])
    /\ UNCHANGED <<state, escrow, reviewed, profile>>

CompleteJob(s) ==
    /\ WriteStatus(s, "complete_write", "WAITING_FOR_APPROVAL")
    /\ Finish(s)
    /\ UNCHANGED <<submissions, escrow, reviewed, profile>>

-----------------------------------------------------------------------------
(* The customer: requestRevision and approveJob *)

ReviseRead(s, j) ==
    ReadJob(s, j, "revise", "revise_find", {"WAITING_FOR_APPROVAL"})

\* findFirst of the latest submission, 0 when there is none.
ReviseFind(s) ==
    /\ At(s, "revise_find")
    /\ \E i \in IF submissions[req[s].j] = << >> THEN {0} ELSE Latest(req[s].j) :
          Goto(s, [op |-> "revise", pc |-> "revise_mark", j |-> req[s].j, i |-> i])
    /\ UNCHANGED workData

ReviseMark_Nothing(s) ==
    /\ At(s, "revise_mark")
    /\ Goto(s, [op |-> "revise", pc |-> "revise_write", j |-> req[s].j])
    /\ UNCHANGED workData
ReviseMark(s) ==
    /\ At(s, "revise_mark")
    /\ LET j == req[s].j
           i == req[s].i
       IN  submissions' = [submissions EXCEPT ![j] =
             IF i = 0 THEN Append(@, Submission(1, "REVISION_REQUESTED"))
                      ELSE [@ EXCEPT ![i].status = "REVISION_REQUESTED"]]
    /\ Goto(s, [op |-> "revise", pc |-> "revise_write", j |-> req[s].j])
    /\ UNCHANGED <<state, escrow, reviewed, profile>>

RequestRevision(s) ==
    /\ WriteStatus(s, "revise_write", "REVISION_REQUESTED")
    /\ Finish(s)
    /\ UNCHANGED <<submissions, escrow, reviewed, profile>>

ApproveRead(s, j) ==
    ReadJob(s, j, "approve", "approve_write", {"WAITING_FOR_APPROVAL"})

ApproveJob(s) ==
    /\ WriteStatus(s, "approve_write", "COMPLETED")
    /\ Goto(s, [req[s] EXCEPT !.pc = "approve_mark"])
    /\ UNCHANGED <<submissions, escrow, reviewed, profile>>

ApproveMark_Skipped(s) ==
    /\ At(s, "approve_mark")
    /\ Goto(s, [req[s] EXCEPT !.pc = "release_find"])
    /\ UNCHANGED workData
\* updateMany over the PENDING submissions.
ApproveMark(s) ==
    /\ At(s, "approve_mark")
    /\ submissions' = [submissions EXCEPT ![req[s].j] =
                         [i \in DOMAIN @ |-> IF i \in Pending(req[s].j)
                                             THEN [@[i] EXCEPT !.status = "APPROVED"]
                                             ELSE @[i]]]
    /\ Goto(s, [req[s] EXCEPT !.pc = "release_find"])
    /\ UNCHANGED <<state, escrow, reviewed, profile>>

\* releaseEscrow throws when it finds no FUNDED payment.
ReleaseFind(s) ==
    /\ At(s, "release_find")
    /\ IF escrow[req[s].j] = "FUNDED"
       THEN Goto(s, [req[s] EXCEPT !.pc = "release_tx"])
       ELSE Finish(s)
    /\ UNCHANGED workData

ReleaseEscrow(s) ==
    /\ At(s, "release_tx")
    /\ escrow' = [escrow EXCEPT ![req[s].j] = "RELEASED"]
    /\ Goto(s, [req[s] EXCEPT !.pc = "approve_count"])
    /\ UNCHANGED <<state, submissions, reviewed, profile>>

ApproveCount(s) ==
    /\ At(s, "approve_count")
    /\ Goto(s, [op |-> "approve", pc |-> "approve_stats", j |-> req[s].j,
                completed |-> Cardinality(DoneJobs)])
    /\ UNCHANGED workData

ApproveStats(s) ==
    /\ At(s, "approve_stats")
    /\ profile' = [profile EXCEPT !.completed = req[s].completed]
    /\ Finish(s)
    /\ UNCHANGED <<state, submissions, escrow, reviewed>>

-----------------------------------------------------------------------------
(* createReview: its transaction inserts the review, closes the job and     *)
(* computes the statistics from what is committed, plus its own rows.       *)

ReviewRead(s, j) ==
    /\ j \notin reviewed
    /\ ReadJob(s, j, "review", "review_tx", Done)

ReviewStats(s) ==
    /\ At(s, "review_tx")
    /\ Goto(s, [op |-> "review", pc |-> "review_commit", j |-> req[s].j,
                stats |-> [rated     |-> reviewed \cup {req[s].j},
                           completed |-> Cardinality(DoneJobs \cup {req[s].j})]])
    /\ UNCHANGED workData

CreateReview_JobOnly(s) ==
    /\ At(s, "review_commit")
    /\ reviewed' = reviewed \cup {req[s].j}
    /\ state' = [state EXCEPT ![req[s].j] = "CLOSED"]
    /\ Finish(s)
    /\ UNCHANGED <<submissions, escrow, profile>>
\* The unique job_id fails the whole transaction when there is a review by now.
CreateReview(s) ==
    /\ At(s, "review_commit")
    /\ IF req[s].j \in reviewed
       THEN UNCHANGED <<reviewed, state, profile>>
       ELSE /\ reviewed' = reviewed \cup {req[s].j}
            /\ state' = [state EXCEPT ![req[s].j] = "CLOSED"]
            /\ profile' = req[s].stats
    /\ Finish(s)
    /\ UNCHANGED <<submissions, escrow>>

-----------------------------------------------------------------------------
JobWorkAbandon(s) == Stops(s) /\ UNCHANGED workData

JobWorkStep(s) ==
    \/ StartJob(s)
    \/ CompleteCount(s) \/ CompleteCreate(s) \/ CompleteJob(s)
    \/ ReviseFind(s) \/ ReviseMark(s) \/ RequestRevision(s)
    \/ ApproveJob(s) \/ ApproveMark(s) \/ ReleaseFind(s) \/ ReleaseEscrow(s)
    \/ ApproveCount(s) \/ ApproveStats(s)
    \/ ReviewStats(s) \/ CreateReview(s)

JobWorkRequest(s) ==
    \E j \in Jobs : \/ StartRead(s, j) \/ CompleteRead(s, j) \/ ReviseRead(s, j)
                    \/ ApproveRead(s, j) \/ ReviewRead(s, j)

JobWorkNext ==
    \E s \in Slots : JobWorkRequest(s) \/ JobWorkStep(s) \/ JobWorkAbandon(s)

JobWorkSpec == JobWorkInit /\ HandlersInit /\ [][JobWorkNext]_workVars

-----------------------------------------------------------------------------
(* Properties *)

Untouched(j) == \A s \in Slots : Busy(s) => req[s].j # j

\* The locks under which the submissions and statistics stay in order: only a
\* review may overlap the work on another job.
WorkLocks == {{a, b} : a, b \in {"start", "complete", "revise", "approve"}}
                \cup {{"approve", "review"}, {"review"}}

\* Type invariant.
JobWorkTypeOK ==
    /\ state \in [Jobs -> WorkStatuses]
    /\ \A j \in Jobs : \A i \in DOMAIN submissions[j] :
         submissions[j][i].number \in 1 .. MaxRequests
           /\ submissions[j][i].status \in SubmissionStatuses
    /\ escrow \in [Jobs -> {"FUNDED", "RELEASED"}]
    /\ reviewed \subseteq Jobs
    /\ profile \in [rated: SUBSET Jobs, completed: 0 .. Cardinality(Jobs)]

\* With completeJob kept from overlapping itself, the submissions of a job are
\* numbered apart, through revisions, repeated starts and handlers that stop
\* halfway: the customer who asks for a revision means the latest one.
NumbersDistinct ==
    Apart({{"complete"}}) =>
        \A j \in Jobs : IsInjective([i \in DOMAIN submissions[j] |-> submissions[j][i].number])

\* With the work kept apart and no handler stopping, a job that waits for the
\* customer's approval has exactly one submission for him to judge, the latest.
WaitingHasOnePending ==
    (Apart(WorkLocks) /\ ~failing) =>
        \A j \in Jobs : (state[j] = "WAITING_FOR_APPROVAL" /\ Untouched(j))
                            => Pending(j) = Latest(j) /\ Cardinality(Pending(j)) = 1

\* With the work kept apart and no handler stopping, approveJob has done all it
\* does in its separate calls: a job that is done has its escrow released and no
\* submission left to judge.
CompletedIsSettled ==
    (Apart(WorkLocks) /\ ~failing) =>
        \A j \in DoneJobs : Untouched(j) => escrow[j] = "RELEASED" /\ Pending(j) = {}

\* With the work kept apart and no handler stopping, the profile counts every
\* review and every job done, once: approveJob and createReview write counts
\* they took earlier, so one may undo what another added.
StatsAgree ==
    (Apart(WorkLocks) /\ ~failing /\ Quiet) =>
        profile = [rated |-> reviewed, completed |-> Cardinality(DoneJobs)]
=============================================================================
