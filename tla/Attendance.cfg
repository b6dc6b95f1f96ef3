CONSTANTS
    Students = {s1, s2}
    Rolls <- SomeRolls
    MaxOps = 2
    Saves = {v1, v2}
    Drains = {d1}
    Requests = {q1, q2}
    MaxOutages = 1
    Nobody = Nobody
SPECIFICATION Spec
SYMMETRY Symmetry
INVARIANTS
    TypeOK
    DoneIsMarked
    DoneIsTold
    KeptUntilAnswered
CHECK_DEADLOCK FALSE
