------------------------ MODULE CircuitBreakerProofs ------------------------
(***************************************************************************)
(* Proofs about CircuitBreaker for any number of threads, any threshold    *)
(* and any number of trials.                                               *)
(***************************************************************************)
EXTENDS CircuitBreaker, FiniteSetTheorems, TLAPS

\* Probes exist in a half-open period only, and are no more than its trials.
ProbesAreTrials ==
    /\ state = "half_open" => Cardinality(Probes) <= trials
    /\ state # "half_open" => Probes = {}

\* A half-open breaker has a probe until a call is cancelled.
SomeProbe == state = "half_open" /\ ~cancelled => Probes # {}

BreakerInv == TypeOK /\ BrokenIsEarned /\ ProbesAreTrials /\ SomeProbe

\* The probes are finitely many, for the threads are.
LEMMA ProbesFinite == IsFiniteSet(Probes)
  BY ThreadsAreFinite, FS_Subset DEF Probes

\* The initial state has no probe and a closed breaker.
LEMMA InitInv == Init => BreakerInv
<1> SUFFICES ASSUME Init PROVE BreakerInv
  OBVIOUS
<1>1. TypeOK
  <2>1. rested \in BOOLEAN /\ cancelled \in BOOLEAN
    BY Zenon DEF Init
  <2>2. failures \in 0..Threshold /\ trials \in 0..MaxTrials
    BY ThresholdIsPositive, TrialsArePositive DEF Init
  <2>3. call \in [Threads -> {"idle", "call", "probe"}]
    BY DEF Init
  <2> QED
    BY <2>1, <2>2, <2>3 DEF Init, TypeOK
<1>2. Probes = {} /\ state = "closed"
  BY DEF Init, Probes
<1> QED
  BY <1>1, <1>2 DEF BreakerInv, BrokenIsEarned, ProbesAreTrials, SomeProbe

\* When a period ends, nothing that still runs counts as its probe.
LEMMA EndedPeriod ==
    ASSUME NEW t \in Threads, TypeOK, Ends(t)
    PROVE  /\ call' \in [Threads -> {"idle", "call", "probe"}]
           /\ Probes' = {}
  BY DEF Ends, Probes, TypeOK

\* The first trial of a half-open period is its only probe.
LEMMA RecoveringInv ==
    ASSUME BreakerInv, NEW t \in Threads, AdmitRecovering(t)
    PROVE  BreakerInv'
<1>1. TypeOK'
  BY TrialsArePositive DEF AdmitRecovering, BreakerInv, TypeOK
<1>2. Probes' = {t}
  BY DEF AdmitRecovering, BreakerInv, ProbesAreTrials, TypeOK, Probes
<1>3. Cardinality(Probes') = 1
  BY <1>2, FS_Singleton
<1> QED
  BY <1>1, <1>2, <1>3
  DEF AdmitRecovering, BreakerInv, BrokenIsEarned, ProbesAreTrials, SomeProbe

\* A further trial adds one probe and one trial.
LEMMA TrialInv ==
    ASSUME BreakerInv, NEW t \in Threads, AdmitTrial(t)
    PROVE  BreakerInv'
<1>1. TypeOK'
  BY TrialsArePositive DEF AdmitTrial, BreakerInv, TypeOK
<1>2. Probes' = Probes \union {t}
  BY DEF AdmitTrial, BreakerInv, TypeOK, Probes
<1>3. t \notin Probes
  BY DEF AdmitTrial, Probes
<1>4. Cardinality(Probes') = Cardinality(Probes) + 1
  BY <1>2, <1>3, ProbesFinite, FS_AddElement
<1>5. Cardinality(Probes) \in Nat
  BY ProbesFinite, FS_CardinalityType
<1> QED
  BY <1>1, <1>2, <1>4, <1>5
  DEF AdmitTrial, BreakerInv, TypeOK, BrokenIsEarned, ProbesAreTrials, SomeProbe

\* A cancelled call may be a probe: then the history says so.
LEMMA CancelledInv ==
    ASSUME BreakerInv, NEW t \in Threads, Cancelled(t)
    PROVE  BreakerInv'
<1>1. TypeOK'
  BY DEF Cancelled, BreakerInv, TypeOK
<1>2. Probes' = Probes \ {t}
  BY DEF Cancelled, BreakerInv, TypeOK, Probes
<1>3. Cardinality(Probes') <= Cardinality(Probes)
  BY <1>2, ProbesFinite, FS_Subset
<1>4. Cardinality(Probes) \in Nat /\ Cardinality(Probes') \in Nat
  BY <1>2, ProbesFinite, FS_CardinalityType, FS_Subset
<1>5. ProbesAreTrials' /\ BrokenIsEarned'
  BY <1>2, <1>3, <1>4 DEF Cancelled, BreakerInv, TypeOK, BrokenIsEarned, ProbesAreTrials
<1>6. SomeProbe'
  BY DEF Cancelled, SomeProbe
<1> QED
  BY <1>1, <1>5, <1>6 DEF BreakerInv

\* A result ends the half-open period: a success closes the breaker, and a
\* failure finds the count at the threshold.
LEMMA ReportsInv ==
    ASSUME BreakerInv, NEW t \in Threads, Reports(t)
    PROVE  BreakerInv'
<1>1. CASE Succeeds(t)
  <2>1. Probes' = {} /\ call' \in [Threads -> {"idle", "call", "probe"}]
    BY <1>1, EndedPeriod DEF Succeeds, BreakerInv
  <2>2. TypeOK'
    <3>1. rested' \in BOOLEAN /\ cancelled' \in BOOLEAN
      BY <1>1, Zenon DEF Succeeds, BreakerInv, TypeOK
    <3>2. failures' \in 0..Threshold /\ trials' \in 0..MaxTrials
      BY <1>1, ThresholdIsPositive, TrialsArePositive DEF Succeeds, BreakerInv, TypeOK
    <3> QED
      BY <1>1, <2>1, <3>1, <3>2 DEF Succeeds, TypeOK
  <2>3. state' = "closed"
    BY <1>1 DEF Succeeds
  <2> QED
    BY <2>1, <2>2, <2>3 DEF BreakerInv, BrokenIsEarned, ProbesAreTrials, SomeProbe
<1>2. CASE FailsOpening(t)
  <2>1. Probes' = {} /\ call' \in [Threads -> {"idle", "call", "probe"}]
    BY <1>2, EndedPeriod DEF FailsOpening, BreakerInv
  <2>2. failures' = Threshold
    BY <1>2, ThresholdIsPositive DEF FailsOpening, AtThreshold, Counted, BreakerInv, TypeOK
  <2>3. TypeOK'
    <3>1. rested' \in BOOLEAN /\ cancelled' \in BOOLEAN
      BY <1>2, Zenon DEF FailsOpening, BreakerInv, TypeOK
    <3>2. failures' \in 0..Threshold /\ trials' \in 0..MaxTrials
      BY <1>2, <2>2, ThresholdIsPositive, TrialsArePositive DEF FailsOpening, BreakerInv, TypeOK
    <3> QED
      BY <1>2, <2>1, <3>1, <3>2 DEF FailsOpening, TypeOK
  <2>4. state' = "open"
    BY <1>2 DEF FailsOpening
  <2> QED
    BY <2>1, <2>2, <2>3, <2>4, ThresholdIsPositive
    DEF BreakerInv, BrokenIsEarned, ProbesAreTrials, SomeProbe
<1>3. CASE FailsBelow(t)
  <2>1. state = "closed"
    BY <1>3, ThresholdIsPositive
    DEF FailsBelow, AtThreshold, BreakerInv, TypeOK, BrokenIsEarned
  <2>2. Probes' = {}
    BY <1>3, <2>1 DEF FailsBelow, BreakerInv, ProbesAreTrials, TypeOK, Probes
  <2>3. failures' \in 0..Threshold
    BY <1>3, ThresholdIsPositive
    DEF FailsBelow, AtThreshold, Counted, BreakerInv, TypeOK
  <2> QED
    BY <1>3, <2>1, <2>2, <2>3
    DEF FailsBelow, BreakerInv, TypeOK, BrokenIsEarned, ProbesAreTrials, SomeProbe
<1> QED
  BY <1>1, <1>2, <1>3 DEF Reports

\* A call admitted by a closed breaker is no probe.
LEMMA ClosedInv ==
    ASSUME BreakerInv, NEW t \in Threads, AdmitClosed(t)
    PROVE  BreakerInv'
<1>1. Probes' = Probes
  BY DEF AdmitClosed, BreakerInv, TypeOK, Probes
<1> QED
  BY <1>1
  DEF AdmitClosed, BreakerInv, TypeOK, BrokenIsEarned, ProbesAreTrials, SomeProbe

\* Every step of the breaker preserves the invariant.
LEMMA StepInv == BreakerInv /\ [Next]_vars => BreakerInv'
<1> SUFFICES ASSUME BreakerInv, [Next]_vars PROVE BreakerInv'
  OBVIOUS
<1>1. CASE TimePasses
  BY <1>1 DEF TimePasses, BreakerInv, TypeOK, BrokenIsEarned, ProbesAreTrials, SomeProbe, Probes
<1>2. CASE Reset
  <2>1. Probes' = {} /\ call' \in [Threads -> {"idle", "call", "probe"}]
    BY <1>2 DEF Reset, Probes
  <2>2. TypeOK'
    <3>1. rested' \in BOOLEAN /\ cancelled' \in BOOLEAN
      BY <1>2, Zenon DEF Reset
    <3>2. failures' \in 0..Threshold /\ trials' \in 0..MaxTrials
      BY <1>2, ThresholdIsPositive, TrialsArePositive DEF Reset
    <3> QED
      BY <1>2, <2>1, <3>1, <3>2 DEF Reset, TypeOK
  <2>3. state' = "closed"
    BY <1>2 DEF Reset
  <2> QED
    BY <2>1, <2>2, <2>3 DEF BreakerInv, BrokenIsEarned, ProbesAreTrials, SomeProbe
<1>3. ASSUME NEW t \in Threads, Admit(t) PROVE BreakerInv'
  BY <1>3, ClosedInv, RecoveringInv, TrialInv DEF Admit
<1>4. ASSUME NEW t \in Threads, Reports(t) \/ Cancelled(t) PROVE BreakerInv'
  BY <1>4, ReportsInv, CancelledInv
<1>5. CASE UNCHANGED vars
  BY <1>5 DEF vars, BreakerInv, TypeOK, BrokenIsEarned, ProbesAreTrials, SomeProbe, Probes
<1> QED
  BY <1>1, <1>2, <1>3, <1>4, <1>5 DEF Next

\* The invariant holds in every state of every behaviour.
THEOREM BreakerCorrect == Spec => []BreakerInv
  BY InitInv, StepInv, PTL DEF Spec

\* The breaker's state always has its type.
THEOREM BreakerTyped == Spec => []TypeOK
<1>1. BreakerInv => TypeOK
  BY DEF BreakerInv
<1> QED
  BY <1>1, BreakerCorrect, PTL

\* A breaker that rejects calls has seen threshold failures since the last
\* success, late results and resets included (_on_failure, _on_success).
THEOREM RejectsOnlyWhenEarned == Spec => []BrokenIsEarned
<1>1. BreakerInv => BrokenIsEarned
  BY DEF BreakerInv
<1> QED
  BY <1>1, BreakerCorrect, PTL

\* A half-open period never runs more trials at once than half_open_max_retries.
THEOREM TrialsAreBounded == Spec => []ProbesBounded
<1>1. BreakerInv => ProbesBounded
  <2> SUFFICES ASSUME BreakerInv, state = "half_open"
               PROVE  Cardinality(Probes) <= MaxTrials
    BY DEF ProbesBounded
  <2>1. Cardinality(Probes) \in Nat
    BY ProbesFinite, FS_CardinalityType
  <2> QED
    BY <2>1, TrialsArePositive DEF BreakerInv, TypeOK, ProbesAreTrials
<1> QED
  BY <1>1, BreakerCorrect, PTL

\* Without a cancelled call, a half-open breaker always has a probe whose result
\* will move it on: it is never stuck rejecting every call.
THEOREM NotWedged == Spec => []NeverWedged
<1>1. BreakerInv => NeverWedged
  BY DEF BreakerInv, SomeProbe, NeverWedged
<1> QED
  BY <1>1, BreakerCorrect, PTL

\* A half-open breaker whose trials are used up while no call runs.
Abandoned == state = "half_open" /\ trials >= MaxTrials /\ Running = {}

\* Every step but a reset leaves it so.
LEMMA AbandonedStep ==
    ASSUME BreakerInv, Abandoned, [Next]_vars, ~Reset
    PROVE  Abandoned'
<1>1. \A t \in Threads : call[t] = "idle"
  BY DEF Abandoned, Running
<1>2. ~(trials < MaxTrials)
  BY TrialsArePositive DEF Abandoned, BreakerInv, TypeOK
<1>3. ASSUME NEW t \in Threads
      PROVE  ~Admit(t)
  BY <1>2 DEF Abandoned, Admit, AdmitClosed, AdmitRecovering, AdmitTrial
<1>4. ASSUME NEW t \in Threads
      PROVE  ~Reports(t) /\ ~Cancelled(t)
  BY <1>1 DEF Reports, Succeeds, FailsOpening, FailsBelow, Cancelled
<1>5. UNCHANGED <<state, trials, call>>
  BY <1>3, <1>4 DEF Next, TimePasses, vars
<1> QED
  BY <1>5 DEF Abandoned, Running

\* Such a breaker rejects every call until somebody resets it: recovery_timeout is
\* consulted only when it is open (_maybe_recover), and nobody is left to report.
THEOREM OnlyResetRevives == Spec => [][Abandoned => Abandoned' \/ Reset]_vars
<1>1. BreakerInv /\ [Next]_vars => [Abandoned => Abandoned' \/ Reset]_vars
  BY AbandonedStep
<1> QED
  BY <1>1, BreakerCorrect, PTL DEF Spec

\* It comes to that only by a cancelled call: every trial that ends with a result
\* closes or opens the breaker.
THEOREM CancelledAbandons == Spec => [](Abandoned => cancelled)
<1>1. NeverWedged => (Abandoned => cancelled)
  BY DEF NeverWedged, Abandoned, Running, Probes
<1> QED
  BY <1>1, NotWedged, PTL
=============================================================================
