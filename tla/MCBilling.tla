----------------------------- MODULE MCBilling -----------------------------
(* Billing on small instances: the month turns with the third day. *)
EXTENDS Billing, TLC

CONSTANTS p1, p2, a

OneSchool == [p \in Payments |-> a]
MonthOfDay == <<1, 1, 2>>
\* A server east of Greenwich, where the day begins before it does in UTC.
East == {-1, 0}
Symmetry == Permutations(Schedulers)
=============================================================================
