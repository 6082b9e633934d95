---------------------------- MODULE MCCondition ----------------------------
(* An instance of Condition for TLC.                                       *)
EXTENDS Condition, TLC

CONSTANTS t1, t2, t3, t4, c1, c2

Symmetry == Permutations(Threads) \cup Permutations(Conds)
=============================================================================
