--------------------------- MODULE CircuitBreaker ---------------------------
(***************************************************************************)
(* The circuit breaker of backend/app/utils/circuit_breaker.py that guards *)
(* every call to an external service: Chapa, the license server, the VPS,  *)
(* SMTP, Telegram, the cloud backup.  Its lock is held for the decision to *)
(* admit a call and for the recording of the result, not for the call: a   *)
(* call may report to a breaker that has changed state several times since *)
(* it was admitted.  A rejected call changes nothing and is no action.     *)
(*                                                                         *)
(* Time is the one thing the code asks of it: whether recovery_timeout has *)
(* passed since the last failure.  failure_count is only ever compared     *)
(* with the threshold, so it stops there.                                  *)
(***************************************************************************)
EXTENDS Naturals, FiniteSets

CONSTANTS
    Threads,        \* the threads and tasks that call the service
    AsyncTasks,     \* those that use call_async and may be cancelled in it
    Threshold,      \* failure_threshold
    MaxTrials       \* half_open_max_retries

ASSUME ThreadsAreFinite == IsFiniteSet(Threads)
ASSUME ThresholdIsPositive == Threshold \in Nat \ {0}
ASSUME TrialsArePositive == MaxTrials \in Nat \ {0}

VARIABLES
    state,          \* "closed", "open" or "half_open"
    failures,       \* failure_count, up to the threshold
    trials,         \* half_open_retries
    rested,         \* has recovery_timeout passed since the last failure?
    call,           \* what each thread is doing; a "probe" was admitted by the
                    \* half-open period that still lasts
    cancelled       \* history: a call vanished in this half-open period

vars == <<state, failures, trials, rested, call, cancelled>>

Running == {t \in Threads : call[t] # "idle"}
Probes == {t \in Threads : call[t] = "probe"}

\* Thread t ends; what still runs reports to another period than its own.
Ends(t) ==
    call' = [u \in Threads |-> IF u = t \/ call[u] = "idle" THEN "idle" ELSE "call"]

-----------------------------------------------------------------------------
Init ==
    /\ state = "closed"
    /\ failures = 0
    /\ trials = 0
    /\ rested = TRUE
    /\ call = [t \in Threads |-> "idle"]
    /\ cancelled = FALSE

TimePasses ==
    /\ rested' = TRUE
    /\ UNCHANGED <<state, failures, trials, call, cancelled>>

AdmitClosed(t) ==
    /\ call[t] = "idle"
    /\ state = "closed"
    /\ call' = [call EXCEPT ![t] = "call"]
    /\ UNCHANGED <<state, failures, trials, rested, cancelled>>

\* Faulty: the trials of the last half-open period are still counted.
AdmitRecoveringSpent(t) ==
    /\ call[t] = "idle"
    /\ state = "open" /\ rested
    /\ state' = "half_open"
    /\ IF trials < MaxTrials
       THEN trials' = trials + 1 /\ call' = [call EXCEPT ![t] = "probe"]
       ELSE UNCHANGED <<trials, call>>
    /\ UNCHANGED <<failures, rested, cancelled>>

\* _maybe_recover, and the first trial of the half-open period.
AdmitRecovering(t) ==
    /\ call[t] = "idle"
    /\ state = "open" /\ rested
    /\ state' = "half_open"
    /\ trials' = 1
    /\ call' = [call EXCEPT ![t] = "probe"]
    /\ UNCHANGED <<failures, rested, cancelled>>

\* Faulty: the trials of the period are not counted against the limit.
AdmitTrialUnlimited(t) ==
    /\ call[t] = "idle"
    /\ state = "half_open"
    /\ trials' = trials + 1
    /\ call' = [call EXCEPT ![t] = "probe"]
    /\ UNCHANGED <<state, failures, rested, cancelled>>

\* Faulty: a half-open breaker recovers once more and starts counting again.
AdmitTrialAfresh(t) ==
    /\ call[t] = "idle"
    /\ state = "half_open"
    /\ trials' = 1
    /\ call' = [call EXCEPT ![t] = "probe"]
    /\ UNCHANGED <<state, failures, rested, cancelled>>

AdmitTrial(t) ==
    /\ call[t] = "idle"
    /\ state = "half_open" /\ trials < MaxTrials
    /\ trials' = trials + 1
    /\ call' = [call EXCEPT ![t] = "probe"]
    /\ UNCHANGED <<state, failures, rested, cancelled>>

\* _on_success closes the breaker whatever its state is by now.
Succeeds(t) ==
    /\ call[t] # "idle"
    /\ state' = "closed"
    /\ failures' = 0
    /\ trials' = 0
    /\ Ends(t)
    /\ cancelled' = FALSE
    /\ UNCHANGED rested

Counted == IF failures = Threshold THEN failures ELSE failures + 1

\* Faulty: the breaker opens one failure early.
AtThresholdEarly == failures + 2 >= Threshold

\* Faulty: the count is compared for equality, and passes the threshold.
AtThresholdExactly == failures + 1 = Threshold

AtThreshold == failures + 1 >= Threshold

\* _on_failure counts in every state and opens at the threshold; the trials of
\* the half-open period are left as they are.
FailsOpening(t) ==
    /\ call[t] # "idle"
    /\ AtThreshold
    /\ state' = "open"
    /\ failures' = Counted
    /\ rested' = FALSE
    /\ Ends(t)
    /\ cancelled' = FALSE
    /\ UNCHANGED trials

FailsBelow(t) ==
    /\ call[t] # "idle"
    /\ ~AtThreshold
    /\ failures' = Counted
    /\ rested' = FALSE
    /\ call' = [call EXCEPT ![t] = "idle"]
    /\ UNCHANGED <<state, trials, cancelled>>

\* A CancelledError is no Exception: neither result is recorded.
Cancelled(t) ==
    /\ t \in AsyncTasks
    /\ call[t] # "idle"
    /\ call' = [call EXCEPT ![t] = "idle"]
    /\ cancelled' = (cancelled \/ state = "half_open")
    /\ UNCHANGED <<state, failures, trials, rested>>

Reset ==
    /\ state' = "closed"
    /\ failures' = 0
    /\ trials' = 0
    /\ rested' = TRUE
    /\ call' = [t \in Threads |-> IF call[t] = "idle" THEN "idle" ELSE "call"]
    /\ cancelled' = FALSE

Admit(t) == AdmitClosed(t) \/ AdmitRecovering(t) \/ AdmitTrial(t)
Reports(t) == Succeeds(t) \/ FailsOpening(t) \/ FailsBelow(t)

Next ==
    \/ TimePasses
    \/ Reset
    \/ \E t \in Threads : Admit(t) \/ Reports(t) \/ Cancelled(t)

Spec == Init /\ [][Next]_vars

\* The worker loops, and the users, keep calling; every call has a timeout.
Fairness ==
    /\ WF_vars(TimePasses)
    /\ WF_vars(\E t \in Threads : Admit(t))
    /\ \A t \in Threads : WF_vars(Reports(t))

FairSpec == Spec /\ Fairness

-----------------------------------------------------------------------------
(* Properties *)

TypeOK ==
    /\ state \in {"closed", "open", "half_open"}
    /\ failures \in 0..Threshold
    /\ trials \in 0..MaxTrials
    /\ rested \in BOOLEAN
    /\ call \in [Threads -> {"idle", "call", "probe"}]
    /\ cancelled \in BOOLEAN

\* Whatever late results arrive, the breaker rejects calls only after as many
\* failures as the threshold since the last success: a half-open breaker has
\* them too, which is why one failed trial opens it again.
BrokenIsEarned == state # "closed" => failures >= Threshold

\* A half-open breaker never runs more trials at once than it was built with,
\* however many calls of earlier periods still run.
ProbesBounded == state = "half_open" => Cardinality(Probes) <= MaxTrials

\* A half-open breaker whose trials are used up waits for one that still runs:
\* it would stay so for ever otherwise, for nothing but a result changes it.
\* Only a cancelled call can leave it so.
NeverWedged ==
    state = "half_open" /\ trials >= MaxTrials => Probes # {} \/ cancelled

\* A broken breaker lets a call through in the end, so that a service that is
\* back is noticed, unless the call that was let through was cancelled.
KeepsProbing == state # "closed" ~> Probes # {} \/ state = "closed" \/ cancelled
=============================================================================
