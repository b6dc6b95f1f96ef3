------------------------------ MODULE Billing ------------------------------
(***************************************************************************)
(* What the platform charges the schools: a fee for every payment, an      *)
(* invoice for every school and month, and the payment of that invoice     *)
(* (services/platform_commission_service.py, core/scheduler.py,            *)
(* endpoints/platform_commission.py).                                      *)
(*                                                                         *)
(* Every server process starts a scheduler of its own, so each job runs    *)
(* once in every process, at the same time.  A step is the stretch between *)
(* two database statements that see, or wait for, what others committed.   *)
(* What a job has written but not committed is its draft.                  *)
(***************************************************************************)
EXTENDS Integers, FiniteSets

CONSTANTS
    Payments,     \* payments that may be made
    Schools,
    SchoolOf,     \* the school a payment is made to
    Schedulers,   \* server processes
    MaxDay,       \* bound: how many days pass
    MonthOf,      \* the month a day is in
    Offsets,      \* days by which the date in UTC may differ from the server's own
    SystemSchool, \* is there a school "system", to which the numbers belong?
    CsrfExempt,   \* does CSRFMiddleware let the webhook of an invoice pass?
    Webhook,      \* who records the fee of a payment made online
    None

Days == 1..MaxDay
Months == {MonthOf[d] : d \in Days}

ASSUME DaysAreCounted == MaxDay \in Nat \ {0}
ASSUME PaymentsHaveSchools == SchoolOf \in [Payments -> Schools]
ASSUME MonthsFollow == /\ MonthOf \in [Days -> Int]
                       /\ \A d, e \in Days : d <= e => MonthOf[d] <= MonthOf[e]
ASSUME OffsetsAreDays == Offsets \subseteq -1..1
ASSUME WebhookIsNoScheduler == Webhook \notin Schedulers
ASSUME NoneIsNobody == None \notin Schedulers \union Schools

VARIABLES
    day,      \* today, where the server is
    dated,    \* table payments: payment_date, 0 when there is no such payment
    fees,     \* tables school_transactions and platform_fees
    bills,    \* table monthly_platform_invoices
    daily,    \* run_daily_fee_calculation, in each process
    monthly,  \* run_monthly_invoice_generation, in each process
    holder,   \* who has locked or inserted the number_sequences row "PINV"
    paying,   \* webhooks that hold the lock of an invoice
    ran       \* the last day each job was started on

vars == <<day, dated, fees, bills, daily, monthly, holder, paying, ran>>

Idle == [at |-> "idle"]
\* Jobs start, and payments are due for a fee, by the server's date; months are
\* counted in UTC: {0, -1} east of Greenwich, {0, 1} west of it.
UtcDays == {d \in Days : d - day \in Offsets}

\* The table's rows for a month of a school.
FeesOf(school, month) == {f \in fees : SchoolOf[f.pay] = school /\ f.month = month}
BillsOf(school, month) == {b \in bills : b.school = school /\ b.month = month}
Key(f) == <<f.pay, f.by>>

\* History: the runs of the same job in other processes that were under way.
Running(job, s) == {t \in Schedulers \ {s} : job[t] # Idle}
Met(job, s) == [t \in Schedulers |-> IF t # s /\ job[t] # Idle
                                       THEN [job[t] EXCEPT !.met = @ \union {s}] ELSE job[t]]

Fee(p, s, month, met) == [pay |-> p, by |-> s, month |-> month, met |-> met, status |-> "pending"]

-----------------------------------------------------------------------------
(* Payments *)

\* create_payment: the cashier enters the date.
PayAtDesk(p, d) ==
    /\ dated[p] = 0
    /\ dated' = [dated EXCEPT ![p] = d]
    /\ UNCHANGED <<day, fees, bills, daily, monthly, holder, paying, ran>>

\* A gateway's webhook: payment, transaction and fee are committed together.
PayOnline(p) ==
    /\ dated[p] = 0
    /\ \E now \in UtcDays :
          /\ dated' = [dated EXCEPT ![p] = now]
          /\ fees' = fees \union {Fee(p, Webhook, MonthOf[now], {})}
    /\ UNCHANGED <<day, bills, daily, monthly, holder, paying, ran>>

-----------------------------------------------------------------------------
(* 23:30: run_daily_fee_calculation *)

DailyStarts(s) ==
    /\ daily[s] = Idle
    /\ ran[s].daily < day
    /\ ran' = [ran EXCEPT ![s].daily = day]
    /\ daily' = [Met(daily, s) EXCEPT ![s] =
                   [at |-> "charge", todo |-> {p \in Payments : dated[p] = day},
                    draft |-> {}, met |-> Running(daily, s)]]
    /\ UNCHANGED <<day, dated, fees, bills, monthly, holder, paying>>

\* Faulty: the payments read are all charged.
ChargeAll(s, p) ==
    /\ daily[s] # Idle
    /\ p \in daily[s].todo
    /\ \E now \in UtcDays :
          daily' = [daily EXCEPT ![s].todo = @ \ {p},
                                 ![s].draft = @ \union {[pay |-> p, month |-> MonthOf[now]]}]
    /\ UNCHANGED <<day, dated, fees, bills, monthly, holder, paying, ran>>

\* One payment, unless it has a transaction.  The fee is of this month.
Charge(s, p) ==
    /\ daily[s] # Idle
    /\ p \in daily[s].todo
    /\ \E now \in UtcDays :
          daily' = [daily EXCEPT
                      ![s].todo = @ \ {p},
                      ![s].draft = IF \E f \in fees : f.pay = p THEN @
                                   ELSE @ \union {[pay |-> p, month |-> MonthOf[now]]}]
    /\ UNCHANGED <<day, dated, fees, bills, monthly, holder, paying, ran>>

DailyCommits(s) ==
    /\ daily[s] # Idle
    /\ daily[s].todo = {}
    /\ fees' = fees \union {Fee(d.pay, s, d.month, daily[s].met) : d \in daily[s].draft}
    /\ daily' = [daily EXCEPT ![s] = Idle]
    /\ UNCHANGED <<day, dated, bills, monthly, holder, paying, ran>>

-----------------------------------------------------------------------------
(* The first of the month, 1:00: run_monthly_invoice_generation *)

\* The last day of the month before that of d, if the model has one.
EndOfLastMonth(d) == {e \in Days : MonthOf[e] < MonthOf[d] /\ \A c \in Days : c > e => MonthOf[c] >= MonthOf[d]}

\* The schools that have transactions in the month before.  The first of the
\* month is the server's, the month before is that in UTC.
MonthlyStarts(s) ==
    /\ monthly[s] = Idle
    /\ ran[s].monthly < day
    /\ day - 1 \in Days /\ MonthOf[day - 1] # MonthOf[day]
    /\ ran' = [ran EXCEPT ![s].monthly = day]
    /\ \E now \in UtcDays : \E end \in EndOfLastMonth(now) :
          LET last == MonthOf[end]
          IN monthly' = [Met(monthly, s) EXCEPT ![s] =
                           [at |-> "next", month |-> last, school |-> None, fees |-> {},
                            todo |-> {SchoolOf[f.pay] : f \in {g \in fees : g.month = last}},
                            draft |-> {}, met |-> Running(monthly, s)]]
    /\ UNCHANGED <<day, dated, fees, bills, daily, holder, paying>>

\* Faulty: the month's invoice is not looked for.
BillNextAnyway(s, school) ==
    /\ monthly[s] # Idle
    /\ monthly[s].at = "next" /\ school \in monthly[s].todo
    /\ monthly' = [monthly EXCEPT ![s].todo = @ \ {school},
                                  ![s].at = "fees", ![s].school = school]
    /\ UNCHANGED <<day, dated, fees, bills, daily, holder, paying, ran>>

\* generate_monthly_invoice: is there an invoice of that month?
BillNext(s, school) ==
    /\ monthly[s] # Idle
    /\ monthly[s].at = "next" /\ school \in monthly[s].todo
    /\ monthly' = IF BillsOf(school, monthly[s].month) = {}
                    THEN [monthly EXCEPT ![s].todo = @ \ {school},
                                         ![s].at = "fees", ![s].school = school]
                    ELSE [monthly EXCEPT ![s].todo = @ \ {school}]
    /\ UNCHANGED <<day, dated, fees, bills, daily, holder, paying, ran>>

\* Its pending fees; without one there is no invoice.
ReadFees(s) ==
    /\ monthly[s] # Idle
    /\ monthly[s].at = "fees"
    /\ LET pending == {f \in FeesOf(monthly[s].school, monthly[s].month) : f.status = "pending"}
       IN monthly' = IF pending = {}
                       THEN [monthly EXCEPT ![s].at = "next", ![s].school = None]
                       ELSE [monthly EXCEPT ![s].at = "number",
                                            ![s].fees = {Key(f) : f \in pending}]
    /\ UNCHANGED <<day, dated, fees, bills, daily, holder, paying, ran>>

\* next_sequence_number locks the row, or inserts it and makes others that do
\* wait; who waited for the insert rolls back, having nothing to lose, and locks.
\* Then the invoice and the fees are written.
Write(s) ==
    /\ monthly[s] # Idle
    /\ monthly[s].at = "number"
    /\ SystemSchool
    /\ holder \in {None, s}
    /\ holder' = s
    /\ monthly' = [monthly EXCEPT
                     ![s].draft = @ \union {[school |-> monthly[s].school, fees |-> monthly[s].fees]},
                     ![s].at = "next", ![s].school = None, ![s].fees = {}]
    /\ UNCHANGED <<day, dated, fees, bills, daily, paying, ran>>

\* One commit for all schools.  The status is written whatever it is by now.
MonthlyCommits(s) ==
    /\ monthly[s] # Idle
    /\ monthly[s].at = "next" /\ monthly[s].todo = {}
    /\ bills' = bills \union {[school |-> d.school, month |-> monthly[s].month, by |-> s,
                               met |-> monthly[s].met, fees |-> d.fees, status |-> "pending"]
                              : d \in monthly[s].draft}
    /\ fees' = {IF Key(f) \in UNION {d.fees : d \in monthly[s].draft}
                  THEN [f EXCEPT !.status = "invoiced"] ELSE f : f \in fees}
    /\ monthly' = [monthly EXCEPT ![s] = Idle]
    /\ holder' = IF holder = s THEN None ELSE holder
    /\ UNCHANGED <<day, dated, daily, paying, ran>>

\* An error of the database, no school "system", or the end of the process:
\* the job's transaction is rolled back, and tried again on its next date.
DailyDies(s) ==
    /\ daily[s] # Idle
    /\ daily' = [daily EXCEPT ![s] = Idle]
    /\ UNCHANGED <<day, dated, fees, bills, monthly, holder, paying, ran>>

\* Faulty: the job ends without a rollback.
MonthlyGivesUp(s) ==
    /\ monthly[s] # Idle
    /\ monthly' = [monthly EXCEPT ![s] = Idle]
    /\ UNCHANGED <<day, dated, fees, bills, daily, holder, paying, ran>>

MonthlyDies(s) ==
    /\ monthly[s] # Idle
    /\ monthly' = [monthly EXCEPT ![s] = Idle]
    /\ holder' = IF holder = s THEN None ELSE holder
    /\ UNCHANGED <<day, dated, fees, bills, daily, paying, ran>>

-----------------------------------------------------------------------------
(* The school pays an invoice *)

Of(b) == [school |-> b.school, month |-> b.month, by |-> b.by]

\* Faulty: every fee of the month that is not paid.
WebhookLocksMonth(b) ==
    /\ CsrfExempt
    /\ b.status # "paid"
    /\ \A w \in paying : w.of # Of(b)
    /\ paying' = paying \union {[of |-> Of(b),
                                 fees |-> {Key(f) : f \in {g \in FeesOf(b.school, b.month) :
                                                             g.status # "paid"}}]}
    /\ UNCHANGED <<day, dated, fees, bills, daily, monthly, holder, ran>>

\* The gateway's webhook, which has no CSRF token, locks the invoice;
\* mark_invoice_paid reads the fees of the school and month that are invoiced.
WebhookLocks(b) ==
    /\ CsrfExempt
    /\ b.status # "paid"
    /\ \A w \in paying : w.of # Of(b)
    /\ paying' = paying \union {[of |-> Of(b),
                                 fees |-> {Key(f) : f \in {g \in FeesOf(b.school, b.month) :
                                                             g.status = "invoiced"}}]}
    /\ UNCHANGED <<day, dated, fees, bills, daily, monthly, holder, ran>>

WebhookCommits(w) ==
    /\ bills' = {IF Of(b) = w.of THEN [b EXCEPT !.status = "paid"] ELSE b : b \in bills}
    /\ fees' = {IF Key(f) \in w.fees THEN [f EXCEPT !.status = "paid"] ELSE f : f \in fees}
    /\ paying' = paying \ {w}
    /\ UNCHANGED <<day, dated, daily, monthly, holder, ran>>

\* The webhook fails: the gateway may send it again.
WebhookFails(w) ==
    /\ paying' = paying \ {w}
    /\ UNCHANGED <<day, dated, fees, bills, daily, monthly, holder, ran>>

-----------------------------------------------------------------------------

\* Midnight.  Jobs may still be under way.
Turn ==
    /\ day < MaxDay
    /\ day' = day + 1
    /\ UNCHANGED <<dated, fees, bills, daily, monthly, holder, paying, ran>>

Init ==
    /\ day = 1
    /\ dated = [p \in Payments |-> 0]
    /\ fees = {} /\ bills = {} /\ paying = {}
    /\ daily = [s \in Schedulers |-> Idle]
    /\ monthly = [s \in Schedulers |-> Idle]
    /\ holder = None
    /\ ran = [s \in Schedulers |-> [daily |-> 0, monthly |-> 0]]

Next ==
    \/ \E p \in Payments : PayOnline(p) \/ \E d \in Days : PayAtDesk(p, d)
    \/ \E s \in Schedulers :
         \/ DailyStarts(s) \/ DailyCommits(s) \/ DailyDies(s)
         \/ \E p \in Payments : Charge(s, p)
         \/ MonthlyStarts(s) \/ ReadFees(s) \/ Write(s) \/ MonthlyCommits(s) \/ MonthlyDies(s)
         \/ \E school \in Schools : BillNext(s, school)
    \/ \E b \in bills : WebhookLocks(b)
    \/ \E w \in paying : WebhookCommits(w) \/ WebhookFails(w)
    \/ Turn

Spec == Init /\ [][Next]_vars
-----------------------------------------------------------------------------
(* Properties *)

FeeType == [pay : Payments, by : Schedulers \union {Webhook}, month : Months,
            met : SUBSET Schedulers, status : {"pending", "invoiced", "paid"}]
FeeKeys == Payments \X (Schedulers \union {Webhook})
BillType == [school : Schools, month : Months, by : Schedulers, met : SUBSET Schedulers,
             fees : SUBSET FeeKeys, status : {"pending", "paid"}]
DailyType == {Idle} \union
    [at : {"charge"}, todo : SUBSET Payments, draft : SUBSET [pay : Payments, month : Months],
     met : SUBSET Schedulers]
MonthlyType == {Idle} \union
    [at : {"next", "fees", "number"}, month : Months, school : Schools \union {None},
     fees : SUBSET FeeKeys, todo : SUBSET Schools,
     draft : SUBSET [school : Schools, fees : SUBSET FeeKeys], met : SUBSET Schedulers]

\* The tables hold what the code writes; a job that waits for a number has a
\* school, and who holds the numbers is writing invoices.
TypeOK ==
    /\ day \in Days
    /\ dated \in [Payments -> Days \union {0}]
    /\ fees \subseteq FeeType
    /\ bills \subseteq BillType
    /\ daily \in [Schedulers -> DailyType]
    /\ monthly \in [Schedulers -> MonthlyType]
    /\ \A s \in Schedulers : monthly[s] # Idle /\ monthly[s].at # "next" => monthly[s].school # None
    /\ holder \in Schedulers \union {None}
    /\ holder # None => monthly[holder] # Idle
    /\ paying \subseteq [of : [school : Schools, month : Months, by : Schedulers],
                       fees : SUBSET FeeKeys]
    /\ ran \in [Schedulers -> [daily : Days \union {0}, monthly : Days \union {0}]]

\* A payment is charged twice only by the daily jobs of two processes that ran at
\* the same time: never by one job run later, and never when it was made online.
ChargedTwiceTogether ==
    \A f, g \in fees : f # g /\ f.pay = g.pay => f.by \in g.met \/ g.by \in f.met

\* A school has two invoices of a month only when the monthly jobs of two processes
\* ran at the same time, however late a fee of that month is recorded.
BilledTwiceTogether ==
    \A a, b \in bills :
        a # b /\ a.school = b.school /\ a.month = b.month => a.by \in b.met \/ b.by \in a.met

\* A fee is settled by way of an invoice: it is pending as long as it is in none,
\* it is paid only when an invoice of its school and month was paid, and a paid
\* invoice leaves a fee of its own unpaid only when a second invoice has it too.
FeesFollowBills ==
    \A f \in fees :
        /\ f.status = "pending" <=> \A b \in bills : Key(f) \notin b.fees
        /\ f.status = "paid" => \E b \in BillsOf(SchoolOf[f.pay], f.month) : b.status = "paid"
        /\ \A b \in bills :
             b.status = "paid" /\ Key(f) \in b.fees /\ f.status # "paid"
                => \E c \in bills \ {b} : Key(f) \in c.fees
=============================================================================
