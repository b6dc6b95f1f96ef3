-------------------------- MODULE MCParentPayments --------------------------
(* ParentPayments on small instances. *)
EXTENDS ParentPayments, TLC

\* An amount that pays, and one that a negative sign turns into a withdrawal.
SomeAmounts == {-1, 1}

Symmetry ==
    Permutations(Handlers) \union Permutations(Sessions) \union Permutations(Refunds)
=============================================================================
