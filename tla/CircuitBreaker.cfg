CONSTANTS
    Threads = {t1, t2, t3, t4}
    AsyncTasks = {t4}
    Threshold = 3
    MaxTrials = 2
SPECIFICATION FairSpec
INVARIANTS
    TypeOK
    BrokenIsEarned
    ProbesBounded
    NeverWedged
PROPERTY KeepsProbing
