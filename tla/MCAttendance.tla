---------------------------- MODULE MCAttendance ----------------------------
(* Attendance on small instances. *)
EXTENDS Attendance, TLC

\* One student is absent; the saves of a class may disagree who.
SomeRolls == {[s \in Students |-> IF s = a THEN "absent" ELSE "present"] : a \in Students}

Symmetry ==
    Permutations(Students) \union Permutations(Requests)
        \union Permutations(Saves) \union Permutations(Drains)
=============================================================================
