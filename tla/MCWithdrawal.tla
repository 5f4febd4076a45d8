---------------------------- MODULE MCWithdrawal ----------------------------
(***************************************************************************)
(* Instances of Withdrawal for TLC.                                        *)
(***************************************************************************)
EXTENDS Withdrawal, TLC

CONSTANTS a1, a2, w1, w2, s1, s2

Symmetry == Permutations(Accounts) \cup Permutations(WithdrawalIds) \cup Permutations(Slots)
=============================================================================
