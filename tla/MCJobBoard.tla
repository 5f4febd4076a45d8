----------------------------- MODULE MCJobBoard -----------------------------
(***************************************************************************)
(* Hiring for one job and the work on the jobs of one helper side by side: *)
(* a behaviour is one of the two, as focus says.  What crosses from one to *)
(* the other, the payment, is the business of Escrow.                      *)
(***************************************************************************)
EXTENDS Hiring, JobWork, TLC

CONSTANTS h1, h2, p1, p2, j1, j2, s1, s2

VARIABLE focus

boardVars == <<hiringVars, workVars, focus>>

Symmetry == Permutations(Helpers) \cup Permutations(PaymentIds)
              \cup Permutations(Jobs) \cup Permutations(Slots)

HiringLocks == {{"reject", "select"}, {"reject", "accept"},
                {"apply", "fulfil"}, {"select", "fulfil"}}

\* The program, and the program with locks, on which nothing fails or only the
\* numbering is protected.
BoardRegimes ==
    {[apart |-> {}, failing |-> TRUE],
     [apart |-> {{"complete"}}, failing |-> TRUE],
     [apart |-> HiringLocks \cup WorkLocks, failing |-> FALSE]}

\* The locked work has far fewer behaviours, and MaxRequests for its own: both
\* jobs can be done and reviewed.
FewerRequests == 7
WithinBound == (focus = "work" /\ ~failing) \/ requests' <= FewerRequests

\* The numbering lock says nothing new of hiring.
BoardInit ==
    /\ HandlersInit /\ HiringInit /\ JobWorkInit
    /\ focus \in {"hiring", "work"}
    /\ focus = "hiring" => apart # {{"complete"}}

BoardNext ==
    /\ \/ focus = "hiring" /\ HiringNext /\ UNCHANGED <<workData, focus>>
       \/ focus = "work" /\ JobWorkNext /\ UNCHANGED <<hiringData, focus>>
    /\ WithinBound

BoardSpec == BoardInit /\ [][BoardNext]_boardVars
=============================================================================
