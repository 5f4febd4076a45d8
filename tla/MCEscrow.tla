------------------------------ MODULE MCEscrow ------------------------------
(***************************************************************************)
(* Instances of Escrow for TLC.  Symmetry is used by the runs that check   *)
(* invariants only.                                                        *)
(***************************************************************************)
EXTENDS Escrow, TLC

CONSTANTS j1, j2, h1, h2, p1, p2, p3, s1, s2

\* 33.33 and 10.00 dollars: with a fee of 10 % the first rounds.
Prices == {3333, 1000}
OnePrice == {3333}

Symmetry == Permutations(Helpers) \cup Permutations(PaymentIds) \cup Permutations(Slots)
=============================================================================
