CONSTANTS
    p1 = p1
    p2 = p2
    a = a
    Payments = {p1, p2}
    Schools = {a}
    SchoolOf <- OneSchool
    Schedulers = {s1, s2}
    MaxDay = 3
    MonthOf <- MonthOfDay
    Offsets <- East
    SystemSchool = TRUE
    CsrfExempt = TRUE
    Webhook = Webhook
    None = None
SPECIFICATION Spec
SYMMETRY Symmetry
INVARIANTS
    TypeOK
    ChargedTwiceTogether
    BilledTwiceTogether
    FeesFollowBills
CHECK_DEADLOCK FALSE
