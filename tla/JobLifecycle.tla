---------------------------- MODULE JobLifecycle ----------------------------
(***************************************************************************)
(* What a job post promises its customer and its helper, without handlers, *)
(* payments or wallets: the order of its statuses, that work happens on a  *)
(* paid job only, and that the helper is paid out after completion, once.  *)
(* The edges are those the services of src/src/app/modules write; Escrow   *)
(* is shown to implement this module.                                      *)
(***************************************************************************)
CONSTANT Jobs

VARIABLES
    status,     \* the status of each job
    paid,       \* jobs whose customer has paid into escrow
    paidOut     \* jobs whose helper has got the escrow

vars == <<status, paid, paidOut>>

Move(j, froms, to) == status[j] \in froms /\ status' = [status EXCEPT ![j] = to]

\* fulfillPayment: payment and assignment are one event.
Pay(j) ==
    /\ Move(j, {"OPEN"}, "ASSIGNED")
    /\ j \notin paid
    /\ paid' = paid \cup {j}
    /\ UNCHANGED paidOut

\* startJob, completeJob, requestRevision, approveJob, createReview.
Work(j) ==
    /\ \/ Move(j, {"ASSIGNED"}, "IN_PROGRESS")
       \/ Move(j, {"IN_PROGRESS", "REVISION_REQUESTED"}, "WAITING_FOR_APPROVAL")
       \/ Move(j, {"WAITING_FOR_APPROVAL"}, "REVISION_REQUESTED")
       \/ Move(j, {"WAITING_FOR_APPROVAL"}, "COMPLETED")
       \/ Move(j, {"COMPLETED"}, "CLOSED")
    /\ UNCHANGED <<paid, paidOut>>

\* releaseEscrow: only for a completed job, and once.
PayOut(j) ==
    /\ status[j] \in {"COMPLETED", "CLOSED"}
    /\ j \in paid \ paidOut
    /\ paidOut' = paidOut \cup {j}
    /\ UNCHANGED <<status, paid>>

\* deleteJob: at any time, with the money where it is.
Delete(j) ==
    /\ status[j] # "DELETED"
    /\ status' = [status EXCEPT ![j] = "DELETED"]
    /\ UNCHANGED <<paid, paidOut>>

Init ==
    /\ status = [j \in Jobs |-> "OPEN"]
    /\ paid = {}
    /\ paidOut = {}

Next == \E j \in Jobs : Pay(j) \/ Work(j) \/ PayOut(j) \/ Delete(j)

Spec == Init /\ [][Next]_vars
=============================================================================
