-------------------------- MODULE MCFinanceLedger --------------------------
(* FinanceLedger on small instances. *)
EXTENDS FinanceLedger, TLC

\* One amount that pays, one that a negative sign turns into a withdrawal.
SomeAmounts == {-1, 2}

Symmetry == Permutations(Workers)
============================================================================
