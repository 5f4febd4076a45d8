------------------------------ MODULE Handlers ------------------------------
(***************************************************************************)
(* The handlers in flight, for the modules of the job board, of messaging  *)
(* and of the accounts.  A request or socket event occupies a slot from    *)
(* its first await to its end: `op' is the operation, `pc' the call it     *)
(* makes next, the other fields what it has read so far.                   *)
(*                                                                         *)
(* Two variables never change.  `apart' are the pairs of operations that   *)
(* never overlap: the code keeps none apart, so {} is the program, and the *)
(* other regimes ask which locks would be enough for a property.           *)
(* `failing' says whether a handler may stop at an await.                  *)
(***************************************************************************)
EXTENDS Integers, FiniteSets

CONSTANTS Slots,       \* handlers in flight at once (a bound of the instance)
          MaxRequests, \* requests and events in all (a bound of the instance)
          Regimes,     \* the values of apart and failing to explore
          None

ASSUME HandlersAssumption == /\ MaxRequests \in Nat
                             /\ \A r \in Regimes : r.failing \in BOOLEAN

VARIABLES req, requests, apart, failing

handlers == <<req, requests, apart, failing>>

Idle == [pc |-> "idle", op |-> "none"]

HandlersInit ==
    /\ req = [s \in Slots |-> Idle]
    /\ requests = 0
    /\ \E r \in Regimes : apart = r.apart /\ failing = r.failing

Busy(s) == req[s] # Idle
Quiet   == \A s \in Slots : ~Busy(s)

\* The pairs of operations in locks never overlap.
Apart(locks) == locks \subseteq apart

\* No handler in flight excludes op.
MayRun(op) == \A t \in Slots : {req[t].op, op} \notin apart

Arrives(op) ==
    /\ MayRun(op)
    /\ requests < MaxRequests
    /\ requests' = requests + 1
    /\ UNCHANGED <<apart, failing>>

\* The handler in slot s starts: its first read has succeeded and its checks
\* have passed.
Begin(s, r) ==
    /\ ~Busy(s)
    /\ Arrives(r.op)
    /\ req' = [req EXCEPT ![s] = r]

At(s, pc)  == req[s].pc = pc
Goto(s, r) == req' = [req EXCEPT ![s] = r] /\ UNCHANGED <<requests, apart, failing>>
Finish(s)  == Goto(s, Idle)

\* A handler that is a single step.
AtOnce(op) == Arrives(op) /\ UNCHANGED req

\* The handler stops: the call it awaits throws, or the process dies there.
Stops(s) == failing /\ Busy(s) /\ Finish(s)
=============================================================================
