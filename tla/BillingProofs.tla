--------------------------- MODULE BillingProofs ---------------------------
(***************************************************************************)
(* What the platform's billing keeps, for any payments, schools, days and  *)
(* number of server processes.                                             *)
(***************************************************************************)
EXTENDS Billing, TLAPS

\* Statuses change, and nothing else of a fee or an invoice does.
Restated(f, status) == [f EXCEPT !.status = status]

LEMMA DaysHaveMonths == \A d \in Days : MonthOf[d] \in Months
  BY DEF Months

LEMMA FeeIsTyped ==
  ASSUME NEW p \in Payments, NEW s \in Schedulers \union {Webhook}, NEW m \in Months,
         NEW met \in SUBSET Schedulers
  PROVE  Fee(p, s, m, met) \in FeeType
  BY DEF Fee, FeeType

LEMMA RestatedIsTyped ==
  ASSUME NEW status \in {"pending", "invoiced", "paid"}
  PROVE  /\ \A f \in FeeType : Restated(f, status) \in FeeType
         /\ \A b \in BillType : status # "invoiced" => Restated(b, status) \in BillType
  BY DEF Restated, FeeType, BillType

LEMMA KeysAreTyped ==
  ASSUME TypeOK
  PROVE  /\ \A f \in fees : Key(f) \in FeeKeys
         /\ \A b \in bills : Of(b) \in [school : Schools, month : Months, by : Schedulers]
  BY DEF TypeOK, FeeType, BillType, Key, FeeKeys, Of

\* The monthly job with the fees it has read.
LEMMA JobReadsFees ==
  ASSUME NEW j \in MonthlyType, j # Idle, NEW K \in SUBSET FeeKeys
  PROVE  [j EXCEPT !.at = "number", !.fees = K] \in MonthlyType
  <1> DEFINE Jobs == [at : {"next", "fees", "number"}, month : Months, school : Schools \union {None},
                      fees : SUBSET FeeKeys, todo : SUBSET Schools,
                      draft : SUBSET [school : Schools, fees : SUBSET FeeKeys], met : SUBSET Schedulers]
  <1>1. j \in Jobs
    BY DEF MonthlyType
  <1>2. [j EXCEPT !.at = "number"] \in Jobs
    BY <1>1
  <1>3. \A i \in Jobs : [i EXCEPT !.fees = K] \in Jobs
    OBVIOUS
  <1>4. [[j EXCEPT !.at = "number"] EXCEPT !.fees = K] \in Jobs
    <2> HIDE DEF Jobs
    <2> QED BY <1>2, <1>3
  <1> QED BY <1>4 DEF MonthlyType

\* The monthly job that is done with a school.
LEMMA JobLeavesSchool ==
  ASSUME NEW j \in MonthlyType, j # Idle
  PROVE  LET m == [j EXCEPT !.at = "next", !.school = None]
         IN  m \in MonthlyType /\ m # Idle /\ m.at = "next"
  <1> DEFINE Jobs == [at : {"next", "fees", "number"}, month : Months, school : Schools \union {None},
                      fees : SUBSET FeeKeys, todo : SUBSET Schools,
                      draft : SUBSET [school : Schools, fees : SUBSET FeeKeys], met : SUBSET Schedulers]
             m == [j EXCEPT !.at = "next", !.school = None]
  <1>1. j \in Jobs
    BY DEF MonthlyType
  <1>2. m \in Jobs /\ m.at = "next"
    BY <1>1
  <1>3. m # Idle
    BY <1>2 DEF Idle
  <1> QED BY <1>2, <1>3 DEF MonthlyType

\* A job that starts notes the others; the others note it.
LEMMA MetIsTyped ==
  ASSUME TypeOK, NEW s \in Schedulers
  PROVE  /\ Met(daily, s) \in [Schedulers -> DailyType]
         /\ Met(monthly, s) \in [Schedulers -> MonthlyType]
         /\ Running(daily, s) \in SUBSET Schedulers
         /\ Running(monthly, s) \in SUBSET Schedulers
  <1>1. ASSUME NEW t \in Schedulers, daily[t] # Idle
        PROVE  [daily[t] EXCEPT !.met = @ \union {s}] \in DailyType
    BY <1>1 DEF TypeOK, DailyType
  <1>2. ASSUME NEW t \in Schedulers, monthly[t] # Idle
        PROVE  [monthly[t] EXCEPT !.met = @ \union {s}] \in MonthlyType
    BY <1>2 DEF TypeOK, MonthlyType
  <1> QED BY <1>1, <1>2 DEF Met, Running, TypeOK

\* The initial states have the types.
LEMMA InitTyped == Init => TypeOK
  BY DaysAreCounted DEF Init, TypeOK, Days, DailyType, MonthlyType

\* Every step keeps the types.
LEMMA TypeStep ==
  ASSUME TypeOK, [Next]_vars
  PROVE  TypeOK'
  <1> USE DaysAreCounted, PaymentsHaveSchools, NoneIsNobody DEF TypeOK
  <1>0. \A now \in UtcDays : MonthOf[now] \in Months
    BY DaysHaveMonths DEF UtcDays
  <1>1. CASE UNCHANGED vars
    BY <1>1 DEF vars
  <1>2. ASSUME NEW p \in Payments, NEW d \in Days, PayAtDesk(p, d)
        PROVE  TypeOK'
    BY <1>2 DEF PayAtDesk
  <1>3. ASSUME NEW p \in Payments, PayOnline(p)
        PROVE  TypeOK'
    <2>1. PICK now \in UtcDays : /\ dated' = [dated EXCEPT ![p] = now]
                                 /\ fees' = fees \union {Fee(p, Webhook, MonthOf[now], {})}
      BY <1>3 DEF PayOnline
    <2>2. Fee(p, Webhook, MonthOf[now], {}) \in FeeType
      BY <1>0, FeeIsTyped
    <2>3. now \in Days
      BY DEF UtcDays
    <2> QED BY <1>3, <2>1, <2>2, <2>3 DEF PayOnline
  <1>4. ASSUME NEW s \in Schedulers, DailyStarts(s)
        PROVE  TypeOK'
    <2>1. [at |-> "charge", todo |-> {p \in Payments : dated[p] = day}, draft |-> {},
           met |-> Running(daily, s)] \in DailyType
      BY MetIsTyped DEF DailyType
    <2>2. ran' \in [Schedulers -> [daily : Days \union {0}, monthly : Days \union {0}]]
      BY <1>4 DEF DailyStarts
    <2> QED BY <1>4, <2>1, <2>2, MetIsTyped DEF DailyStarts
  <1>5. ASSUME NEW s \in Schedulers, NEW p \in Payments, Charge(s, p)
        PROVE  TypeOK'
    <2>1. daily' \in [Schedulers -> DailyType]
      <3>1. daily[s] \in [at : {"charge"}, todo : SUBSET Payments,
                          draft : SUBSET [pay : Payments, month : Months], met : SUBSET Schedulers]
        BY <1>5 DEF Charge, DailyType
      <3>2. \A now \in UtcDays : [pay |-> p, month |-> MonthOf[now]] \in [pay : Payments, month : Months]
        BY <1>0
      <3>3. daily'[s] \in DailyType
        <4>1. PICK now \in UtcDays :
                 daily' = [daily EXCEPT
                             ![s].todo = @ \ {p},
                             ![s].draft = IF \E f \in fees : f.pay = p THEN @
                                          ELSE @ \union {[pay |-> p, month |-> MonthOf[now]]}]
          BY <1>5 DEF Charge
        <4>2. [pay |-> p, month |-> MonthOf[now]] \in [pay : Payments, month : Months]
          BY <3>2
        <4> QED BY <3>1, <4>1, <4>2 DEF DailyType
      <3> QED BY <1>5, <3>3 DEF Charge
    <2> QED BY <1>5, <2>1 DEF Charge
  <1>6. ASSUME NEW s \in Schedulers, DailyCommits(s)
        PROVE  TypeOK'
    <2>1. daily[s].met \in SUBSET Schedulers /\ daily[s].draft \subseteq [pay : Payments, month : Months]
      BY <1>6 DEF DailyCommits, DailyType
    <2>2. \A d \in daily[s].draft : Fee(d.pay, s, d.month, daily[s].met) \in FeeType
      BY <2>1, FeeIsTyped
    <2> QED BY <1>6, <2>2 DEF DailyCommits, DailyType
  <1>7. ASSUME NEW s \in Schedulers, DailyDies(s)
        PROVE  TypeOK'
    BY <1>7 DEF DailyDies, DailyType
  <1>8. ASSUME NEW s \in Schedulers, MonthlyStarts(s)
        PROVE  TypeOK'
    <2> DEFINE Started(m) == [at |-> "next", month |-> m, school |-> None, fees |-> {},
                              todo |-> {SchoolOf[f.pay] : f \in {g \in fees : g.month = m}},
                              draft |-> {}, met |-> Running(monthly, s)]
    <2>1. \A m \in Months : {SchoolOf[f.pay] : f \in {g \in fees : g.month = m}} \subseteq Schools
      BY DEF FeeType
    <2>2. PICK end \in Days : monthly' = [Met(monthly, s) EXCEPT ![s] = Started(MonthOf[end])]
      BY <1>8 DEF MonthlyStarts, EndOfLastMonth
    <2>3. Started(MonthOf[end]) \in MonthlyType
      BY <2>1, DaysHaveMonths, MetIsTyped DEF MonthlyType
    <2>4. monthly' \in [Schedulers -> MonthlyType]
      BY <2>2, <2>3, MetIsTyped
    <2>5. ran' \in [Schedulers -> [daily : Days \union {0}, monthly : Days \union {0}]]
      BY <1>8 DEF MonthlyStarts
    <2>6. ASSUME NEW t \in Schedulers, t # s
          PROVE  /\ monthly[t] = Idle => monthly'[t] = Idle
                 /\ monthly[t] # Idle => /\ monthly'[t] # Idle
                                         /\ monthly'[t].at = monthly[t].at
                                         /\ monthly'[t].school = monthly[t].school
      BY <1>8, <2>6 DEF MonthlyStarts, Met, MonthlyType, Idle
    <2>7. monthly'[s] # Idle /\ monthly'[s].at = "next"
      BY <1>8 DEF MonthlyStarts, Idle, Met
    <2> QED BY <1>8, <2>4, <2>5, <2>6, <2>7 DEF MonthlyStarts
  <1>9. ASSUME NEW s \in Schedulers, monthly[s] # Idle
        PROVE  /\ monthly[s] \in [at : {"next", "fees", "number"}, month : Months,
                                  school : Schools \union {None}, fees : SUBSET FeeKeys,
                                  todo : SUBSET Schools,
                                  draft : SUBSET [school : Schools, fees : SUBSET FeeKeys],
                                  met : SUBSET Schedulers]
               /\ monthly[s].at # "next" => monthly[s].school \in Schools
    BY <1>9 DEF MonthlyType
  <1>10. ASSUME NEW s \in Schedulers, NEW school \in Schools, BillNext(s, school)
         PROVE  TypeOK'
    <2>1. monthly'[s] \in MonthlyType /\ monthly'[s] # Idle
          /\ (monthly'[s].at # "next" => monthly'[s].school = school)
      <3>1. CASE BillsOf(school, monthly[s].month) = {}
        <4>1. monthly'[s] = [monthly[s] EXCEPT !.todo = @ \ {school}, !.at = "fees", !.school = school]
          BY <1>10, <3>1 DEF BillNext
        <4> QED BY <1>9, <1>10, <4>1 DEF BillNext, MonthlyType, Idle
      <3>2. CASE BillsOf(school, monthly[s].month) # {}
        <4>1. monthly'[s] = [monthly[s] EXCEPT !.todo = @ \ {school}]
          BY <1>10, <3>2 DEF BillNext
        <4> QED BY <1>9, <1>10, <4>1 DEF BillNext, MonthlyType, Idle
      <3> QED BY <3>1, <3>2
    <2>2. monthly' \in [Schedulers -> MonthlyType] /\ \A t \in Schedulers \ {s} : monthly'[t] = monthly[t]
      BY <1>10, <2>1 DEF BillNext
    <2>3. school # None
      OBVIOUS
    <2> QED BY <1>10, <2>1, <2>2, <2>3 DEF BillNext
  <1>11. ASSUME NEW s \in Schedulers, ReadFees(s)
         PROVE  TypeOK'
    <2> DEFINE pending == {f \in FeesOf(monthly[s].school, monthly[s].month) : f.status = "pending"}
    <2>1. {Key(f) : f \in pending} \subseteq FeeKeys
      BY KeysAreTyped DEF FeesOf
    <2>2. monthly'[s] \in MonthlyType /\ monthly'[s] # Idle
          /\ (monthly'[s].at # "next" => monthly'[s].school # None)
      <3>1. monthly[s].at = "fees" /\ monthly[s] # Idle
        BY <1>11 DEF ReadFees
      <3>2. \A K \in SUBSET FeeKeys :
               LET m == [monthly[s] EXCEPT !.at = "number", !.fees = K]
               IN m \in MonthlyType /\ m # Idle /\ m.school # None
        <4> TAKE K \in SUBSET FeeKeys
        <4> DEFINE m == [monthly[s] EXCEPT !.at = "number", !.fees = K]
        <4>1. monthly[s].school \in Schools
          BY <1>9, <3>1
        <4>2. m \in MonthlyType
          BY <1>9, <3>1, JobReadsFees
        <4>3. m # Idle /\ m.school = monthly[s].school
          BY <1>9, <3>1 DEF Idle
        <4> QED BY <4>1, <4>2, <4>3
      <3>3. LET m == [monthly[s] EXCEPT !.at = "next", !.school = None]
            IN m \in MonthlyType /\ m # Idle /\ m.at = "next"
        <4>1. monthly[s] \in MonthlyType
          OBVIOUS
        <4> QED BY <3>1, <4>1, JobLeavesSchool
      <3>4. monthly'[s] = IF pending = {} THEN [monthly[s] EXCEPT !.at = "next", !.school = None]
                          ELSE [monthly[s] EXCEPT !.at = "number", !.fees = {Key(f) : f \in pending}]
        BY <1>11 DEF ReadFees
      <3> HIDE DEF pending
      <3> QED BY <2>1, <3>2, <3>3, <3>4
    <2>3. monthly' \in [Schedulers -> MonthlyType] /\ \A t \in Schedulers \ {s} : monthly'[t] = monthly[t]
      BY <1>11, <2>2 DEF ReadFees
    <2> QED BY <1>11, <2>2, <2>3 DEF ReadFees
  <1>12. ASSUME NEW s \in Schedulers, Write(s)
         PROVE  TypeOK'
    <2>1. [school |-> monthly[s].school, fees |-> monthly[s].fees]
             \in [school : Schools, fees : SUBSET FeeKeys]
      BY <1>9, <1>12 DEF Write
    <2>2. monthly'[s] \in MonthlyType /\ monthly'[s] # Idle /\ monthly'[s].at = "next"
      BY <1>9, <1>12, <2>1 DEF Write, MonthlyType, Idle
    <2>3. monthly' \in [Schedulers -> MonthlyType] /\ \A t \in Schedulers \ {s} : monthly'[t] = monthly[t]
      BY <1>12, <2>2 DEF Write
    <2> QED BY <1>12, <2>2, <2>3 DEF Write
  <1>13. ASSUME NEW s \in Schedulers, MonthlyCommits(s)
         PROVE  TypeOK'
    <2>1. bills' \subseteq BillType
      <3>1. \A d \in monthly[s].draft : d.school \in Schools /\ d.fees \in SUBSET FeeKeys
        BY <1>9, <1>13 DEF MonthlyCommits
      <3>2. \A d \in monthly[s].draft :
              [school |-> d.school, month |-> monthly[s].month, by |-> s,
               met |-> monthly[s].met, fees |-> d.fees, status |-> "pending"] \in BillType
        BY <1>9, <1>13, <3>1 DEF MonthlyCommits, BillType
      <3> QED BY <1>13, <3>2 DEF MonthlyCommits
    <2>2. fees' \subseteq FeeType
      BY <1>13, RestatedIsTyped DEF MonthlyCommits, Restated
    <2> QED BY <1>13, <2>1, <2>2 DEF MonthlyCommits, MonthlyType
  <1>14. ASSUME NEW s \in Schedulers, MonthlyDies(s)
         PROVE  TypeOK'
    BY <1>14 DEF MonthlyDies, MonthlyType
  <1>15. ASSUME NEW b \in bills, WebhookLocks(b)
         PROVE  TypeOK'
    <2>1. {Key(f) : f \in {g \in FeesOf(b.school, b.month) : g.status = "invoiced"}} \subseteq FeeKeys
      BY KeysAreTyped DEF FeesOf
    <2> QED BY <1>15, <2>1, KeysAreTyped DEF WebhookLocks
  <1>16. ASSUME NEW w \in paying, WebhookCommits(w)
         PROVE  TypeOK'
    <2>1. bills' \subseteq BillType
      BY <1>16, RestatedIsTyped DEF WebhookCommits, Restated
    <2>2. fees' \subseteq FeeType
      BY <1>16, RestatedIsTyped DEF WebhookCommits, Restated
    <2> QED BY <1>16, <2>1, <2>2 DEF WebhookCommits
  <1>17. ASSUME NEW w \in paying, WebhookFails(w)
         PROVE  TypeOK'
    BY <1>17 DEF WebhookFails
  <1>18. CASE Turn
    BY <1>18 DEF Turn, Days
  <1> QED BY <1>1, <1>2, <1>3, <1>4, <1>5, <1>6, <1>7, <1>8, <1>10, <1>11, <1>12, <1>13, <1>14,
             <1>15, <1>16, <1>17, <1>18 DEF Next

\* Type correctness: the tables hold only what the code writes, whoever waits for a
\* number has a school to bill, and the numbers are locked by nobody but a job under way.
THEOREM TypeCorrect == Spec => []TypeOK
  BY InitTyped, TypeStep, PTL DEF Spec

-----------------------------------------------------------------------------
(* Charges *)

\* A fee after those with the keys K have got a status.
After(f, K, status) == IF Key(f) \in K THEN [f EXCEPT !.status = status] ELSE f

LEMMA StatusChanges ==
  ASSUME NEW K, NEW status, NEW f \in FeeType
  PROVE  /\ After(f, K, status).pay = f.pay /\ After(f, K, status).by = f.by
         /\ After(f, K, status).month = f.month /\ After(f, K, status).met = f.met
         /\ Key(After(f, K, status)) = Key(f)
         /\ After(f, K, status).status = IF Key(f) \in K THEN status ELSE f.status
  BY DEF After, FeeType, Key

\* Daily jobs under way at the same time know of each other.
DailyTogether ==
    \A s, t \in Schedulers : s # t /\ daily[s] # Idle /\ daily[t] # Idle => t \in daily[s].met

\* A job drafts one fee for a payment.
DraftedOnce ==
    \A s \in Schedulers : daily[s] # Idle => \A d \in daily[s].draft :
        /\ d.pay \notin daily[s].todo
        /\ \A e \in daily[s].draft : d.pay = e.pay => d = e

\* Only payments that were made are charged.
OnlyMade ==
    /\ \A f \in fees : dated[f.pay] # 0
    /\ \A s \in Schedulers : daily[s] # Idle =>
         /\ \A p \in daily[s].todo : dated[p] # 0
         /\ \A d \in daily[s].draft : dated[d.pay] # 0

\* What a job has drafted was charged meanwhile, if at all, by a job that ran with it.
ChargedMeanwhile ==
    \A s \in Schedulers : daily[s] # Idle => \A d \in daily[s].draft, f \in fees :
        f.pay = d.pay => f.by # s /\ (f.by \in daily[s].met \/ s \in f.met)

\* Nobody charges a payment twice.
FeeKeysUnique == \A f, g \in fees : Key(f) = Key(g) => f = g

ChargeInv ==
    /\ DailyTogether /\ DraftedOnce /\ OnlyMade /\ ChargedMeanwhile /\ FeeKeysUnique
    /\ ChargedTwiceTogether

\* The initial states satisfy it.
LEMMA InitCharge == Init => ChargeInv
  BY DEF Init, ChargeInv, DailyTogether, DraftedOnce, OnlyMade, ChargedMeanwhile, FeeKeysUnique,
         ChargedTwiceTogether

\* A change of status keeps it.
LEMMA ChargeRestated ==
  ASSUME TypeOK, ChargeInv, NEW K, NEW status,
         fees' = {After(f, K, status) : f \in fees}, UNCHANGED <<dated, daily>>
  PROVE  ChargeInv'
  <1>1. \A g \in fees' : \E f \in fees :
           /\ g = After(f, K, status)
           /\ g.pay = f.pay /\ g.by = f.by /\ g.met = f.met /\ Key(g) = Key(f)
    BY StatusChanges DEF TypeOK
  <1>2. OnlyMade'
    BY <1>1 DEF ChargeInv, OnlyMade
  <1>3. ChargedMeanwhile'
    BY <1>1 DEF ChargeInv, ChargedMeanwhile
  <1>4. FeeKeysUnique'
    BY <1>1 DEF ChargeInv, FeeKeysUnique, Key
  <1>5. ChargedTwiceTogether'
    BY <1>1 DEF ChargeInv, ChargedTwiceTogether
  <1> QED BY <1>2, <1>3, <1>4, <1>5 DEF ChargeInv, DailyTogether, DraftedOnce

\* Every step keeps it.
LEMMA ChargeStep ==
  ASSUME TypeOK, ChargeInv, [Next]_vars
  PROVE  ChargeInv'
  <1> USE DEF ChargeInv
  <1>1. CASE UNCHANGED <<dated, fees, daily>>
    BY <1>1 DEF DailyTogether, DraftedOnce, OnlyMade, ChargedMeanwhile, FeeKeysUnique,
                ChargedTwiceTogether, Key
  <1>2. ASSUME NEW p \in Payments, NEW d \in Days, PayAtDesk(p, d)
        PROVE  ChargeInv'
    <2>1. d # 0 /\ \A q \in Payments : dated[q] # 0 => dated'[q] # 0
      BY <1>2 DEF PayAtDesk, TypeOK, Days
    <2>2. \A f \in fees : f.pay \in Payments
      BY DEF TypeOK, FeeType
    <2>3. \A s \in Schedulers : daily[s] # Idle =>
             daily[s].todo \subseteq Payments /\ \A e \in daily[s].draft : e.pay \in Payments
      BY DEF TypeOK, DailyType
    <2>4. OnlyMade'
      BY <1>2, <2>1, <2>2, <2>3 DEF PayAtDesk, OnlyMade
    <2> QED BY <1>2, <2>4 DEF PayAtDesk, DailyTogether, DraftedOnce, ChargedMeanwhile, FeeKeysUnique,
                              ChargedTwiceTogether
  <1>3. ASSUME NEW p \in Payments, PayOnline(p)
        PROVE  ChargeInv'
    <2>0. PICK now \in UtcDays : /\ dated' = [dated EXCEPT ![p] = now]
                                 /\ fees' = fees \union {Fee(p, Webhook, MonthOf[now], {})}
      BY <1>3 DEF PayOnline
    <2> DEFINE new == Fee(p, Webhook, MonthOf[now], {})
    <2>1. new.pay = p /\ new.by = Webhook /\ new.met = {} /\ Key(new) = <<p, Webhook>>
      BY DEF Fee, Key
    <2> HIDE DEF new
    <2>2. fees' = fees \union {new}
      BY <2>0 DEF new
    <2>3. \A f \in fees : f.pay # p
      BY <1>3 DEF PayOnline, OnlyMade
    <2>4. \A s \in Schedulers : daily[s] # Idle => \A d \in daily[s].draft : d.pay # p
      BY <1>3 DEF PayOnline, OnlyMade
    <2>5. \A q \in Payments : dated[q] # 0 => dated'[q] # 0
      BY <2>0 DEF TypeOK, UtcDays, Days
    <2>6. dated'[p] # 0
      BY <2>0 DEF TypeOK, UtcDays, Days
    <2>7. \A f \in fees : f.pay \in Payments
      BY DEF TypeOK, FeeType
    <2>8. \A s \in Schedulers : daily[s] # Idle =>
             daily[s].todo \subseteq Payments /\ \A e \in daily[s].draft : e.pay \in Payments
      BY DEF TypeOK, DailyType
    <2>9. daily' = daily
      BY <1>3 DEF PayOnline
    <2>10. OnlyMade'
      BY <2>1, <2>2, <2>5, <2>6, <2>7, <2>8, <2>9 DEF OnlyMade
    <2>11. ChargedMeanwhile'
      BY <2>1, <2>2, <2>4, <2>9 DEF ChargedMeanwhile
    <2>12. FeeKeysUnique'
      BY <2>1, <2>2, <2>3 DEF FeeKeysUnique, Key
    <2>13. ChargedTwiceTogether'
      BY <2>1, <2>2, <2>3 DEF ChargedTwiceTogether
    <2> QED BY <2>9, <2>10, <2>11, <2>12, <2>13 DEF DailyTogether, DraftedOnce
  <1>4. ASSUME NEW s \in Schedulers, DailyStarts(s)
        PROVE  ChargeInv'
    <2>1. /\ daily'[s].todo = {p \in Payments : dated[p] = day}
          /\ daily'[s].draft = {} /\ daily'[s].met = Running(daily, s)
      BY <1>4 DEF DailyStarts, TypeOK, Met
    <2>2. ASSUME NEW t \in Schedulers, t # s
          PROVE  /\ daily[t] = Idle => daily'[t] = Idle
                 /\ daily[t] # Idle => /\ daily'[t].todo = daily[t].todo
                                       /\ daily'[t].draft = daily[t].draft
                                       /\ daily'[t].met = daily[t].met \union {s}
      <3>1. daily'[t] = IF daily[t] # Idle THEN [daily[t] EXCEPT !.met = @ \union {s}] ELSE daily[t]
        BY <1>4, <2>2 DEF DailyStarts, Met
      <3> QED BY <3>1 DEF TypeOK, DailyType, Idle
    <2>3. dated' = dated /\ fees' = fees /\ \A p \in Payments : dated[p] = day => dated[p] # 0
      BY <1>4 DEF DailyStarts, TypeOK, Days
    <2>4. DailyTogether'
      BY <2>1, <2>2 DEF DailyTogether, Running
    <2>5. DraftedOnce'
      BY <2>1, <2>2 DEF DraftedOnce
    <2>6. OnlyMade'
      BY <2>1, <2>2, <2>3 DEF OnlyMade
    <2>7. ChargedMeanwhile'
      BY <2>1, <2>2, <2>3 DEF ChargedMeanwhile
    <2> QED BY <2>3, <2>4, <2>5, <2>6, <2>7 DEF FeeKeysUnique, ChargedTwiceTogether, Key
  <1>5. ASSUME NEW s \in Schedulers, NEW p \in Payments, Charge(s, p)
        PROVE  ChargeInv'
    <2>0. PICK now \in UtcDays :
             daily' = [daily EXCEPT
                         ![s].todo = @ \ {p},
                         ![s].draft = IF \E f \in fees : f.pay = p THEN @
                                      ELSE @ \union {[pay |-> p, month |-> MonthOf[now]]}]
      BY <1>5 DEF Charge
    <2> DEFINE charged == \E f \in fees : f.pay = p
               new == [pay |-> p, month |-> MonthOf[now]]
    <2>1. daily[s] # Idle /\ p \in daily[s].todo
      BY <1>5 DEF Charge
    <2>2. /\ daily'[s].todo = daily[s].todo \ {p} /\ daily'[s].met = daily[s].met
          /\ daily'[s].draft = IF charged THEN daily[s].draft ELSE daily[s].draft \union {new}
      BY <2>0, <2>1 DEF TypeOK, DailyType
    <2>3. \A t \in Schedulers : t # s => daily'[t] = daily[t]
      BY <1>5 DEF Charge, TypeOK
    <2>4. dated' = dated /\ fees' = fees
      BY <1>5 DEF Charge
    <2>5. new.pay = p
      OBVIOUS
    <2> HIDE DEF new
    <2>6. DailyTogether'
      BY <2>1, <2>2, <2>3 DEF DailyTogether
    <2>7. DraftedOnce'
      <3> SUFFICES ASSUME NEW d \in daily'[s].draft
                   PROVE  /\ d.pay \notin daily'[s].todo
                          /\ \A e \in daily'[s].draft : d.pay = e.pay => d = e
        BY <2>3 DEF DraftedOnce
      <3>1. \A e \in daily[s].draft : e.pay # p
        BY <2>1 DEF DraftedOnce
      <3> QED BY <2>1, <2>2, <2>5, <3>1 DEF DraftedOnce
    <2>8. OnlyMade'
      BY <2>1, <2>2, <2>3, <2>4, <2>5 DEF OnlyMade
    <2>9. ChargedMeanwhile'
      <3> SUFFICES ASSUME NEW d \in daily'[s].draft, NEW f \in fees, f.pay = d.pay
                   PROVE  f.by # s /\ (f.by \in daily'[s].met \/ s \in f.met)
        BY <2>3, <2>4 DEF ChargedMeanwhile
      <3>1. d \in daily[s].draft
        BY <2>2, <2>5
      <3> QED BY <2>1, <2>2, <3>1 DEF ChargedMeanwhile
    <2> QED BY <2>4, <2>6, <2>7, <2>8, <2>9 DEF FeeKeysUnique, ChargedTwiceTogether, Key
  <1>6. ASSUME NEW s \in Schedulers, DailyCommits(s)
        PROVE  ChargeInv'
    <2> DEFINE New == {Fee(d.pay, s, d.month, daily[s].met) : d \in daily[s].draft}
    <2>1. daily[s] # Idle /\ fees' = fees \union New /\ dated' = dated
      BY <1>6 DEF DailyCommits
    <2>2. daily'[s] = Idle /\ \A t \in Schedulers : t # s => daily'[t] = daily[t]
      BY <1>6 DEF DailyCommits, TypeOK
    <2>3. \A g \in New : \E d \in daily[s].draft :
             /\ g = Fee(d.pay, s, d.month, daily[s].met)
             /\ g.pay = d.pay /\ g.by = s /\ g.met = daily[s].met /\ Key(g) = <<d.pay, s>>
      BY DEF Fee, Key
    <2> HIDE DEF New
    <2>4. \A g, h \in New : g.pay = h.pay => g = h
      BY <2>1, <2>3 DEF DraftedOnce
    <2>5. \A f \in fees, g \in New : f.pay = g.pay => f.by # s /\ (f.by \in g.met \/ s \in f.met)
      BY <2>1, <2>3 DEF ChargedMeanwhile
    <2>6. OnlyMade'
      BY <2>1, <2>2, <2>3 DEF OnlyMade
    <2>7. ChargedMeanwhile'
      <3> SUFFICES ASSUME NEW t \in Schedulers, t # s, daily[t] # Idle,
                          NEW d \in daily[t].draft, NEW g \in New
                   PROVE  g.by # t /\ (g.by \in daily[t].met \/ t \in g.met)
        BY <2>1, <2>2 DEF ChargedMeanwhile
      <3>1. t \in daily[s].met
        BY <2>1 DEF DailyTogether
      <3> QED BY <2>3, <3>1
    <2>8. FeeKeysUnique'
      <3>1. \A f, g : Key(f) = Key(g) => f.pay = g.pay /\ f.by = g.by
        BY DEF Key
      <3>2. \A f, g \in fees : Key(f) = Key(g) => f = g
        BY DEF FeeKeysUnique
      <3>3. \A f, g \in fees' : Key(f) = Key(g) => f = g
        BY <2>1, <2>3, <2>4, <2>5, <3>1, <3>2
      <3> QED BY <3>3 DEF FeeKeysUnique, Key
    <2>9. ChargedTwiceTogether'
      BY <2>1, <2>3, <2>4, <2>5 DEF ChargedTwiceTogether
    <2> QED BY <2>2, <2>6, <2>7, <2>8, <2>9 DEF DailyTogether, DraftedOnce
  <1>7. ASSUME NEW s \in Schedulers, DailyDies(s)
        PROVE  ChargeInv'
    <2>1. daily'[s] = Idle /\ \A t \in Schedulers : t # s => daily'[t] = daily[t]
      BY <1>7 DEF DailyDies, TypeOK
    <2>2. dated' = dated /\ fees' = fees
      BY <1>7 DEF DailyDies
    <2> QED BY <2>1, <2>2 DEF DailyTogether, DraftedOnce, OnlyMade, ChargedMeanwhile, FeeKeysUnique,
                              ChargedTwiceTogether, Key
  <1>8. ASSUME NEW s \in Schedulers, MonthlyCommits(s)
        PROVE  ChargeInv'
    BY <1>8, ChargeRestated DEF MonthlyCommits, After
  <1>9. ASSUME NEW w \in paying, WebhookCommits(w)
        PROVE  ChargeInv'
    BY <1>9, ChargeRestated DEF WebhookCommits, After
  <1>10. ASSUME \/ \E s \in Schedulers :
                    \/ MonthlyStarts(s) \/ ReadFees(s) \/ Write(s) \/ MonthlyDies(s)
                    \/ \E school \in Schools : BillNext(s, school)
                \/ \E b \in bills : WebhookLocks(b)
                \/ \E w \in paying : WebhookFails(w)
                \/ Turn
                \/ UNCHANGED vars
         PROVE  ChargeInv'
    <2>1. UNCHANGED <<dated, fees, daily>>
      BY <1>10 DEF MonthlyStarts, ReadFees, Write, MonthlyDies, BillNext, WebhookLocks, WebhookFails,
                   Turn, vars
    <2> QED BY <1>1, <2>1
  <1> QED BY <1>2, <1>3, <1>4, <1>5, <1>6, <1>7, <1>8, <1>9, <1>10 DEF Next

\* ChargedTwiceTogether, for any payments, days and server processes: a payment is
\* charged twice only by daily jobs of two processes that ran at the same time.
THEOREM ChargedOnceAlone == Spec => []ChargedTwiceTogether
  <1>1. Init => TypeOK /\ ChargeInv
    BY InitTyped, InitCharge
  <1>2. TypeOK /\ ChargeInv /\ [Next]_vars => (TypeOK /\ ChargeInv)'
    BY TypeStep, ChargeStep
  <1>3. ChargeInv => ChargedTwiceTogether
    BY DEF ChargeInv
  <1> QED BY <1>1, <1>2, <1>3, PTL DEF Spec

-----------------------------------------------------------------------------
(* Invoices *)

Active(s) == monthly[s] # Idle

\* The schools a job has billed, or is about to.
InHand(s) == {d.school : d \in monthly[s].draft}
               \union {c \in {monthly[s].school} : monthly[s].at # "next"}

\* Monthly jobs under way at the same time know of each other.
MonthlyTogether ==
    \A s, t \in Schedulers : s # t /\ Active(s) /\ Active(t) => t \in monthly[s].met

\* A job comes to a school once.
DraftedSchoolOnce ==
    \A s \in Schedulers : Active(s) =>
        /\ InHand(s) \cap monthly[s].todo = {}
        /\ \A d, e \in monthly[s].draft : d.school = e.school => d = e
        /\ monthly[s].at # "next" => \A d \in monthly[s].draft : d.school # monthly[s].school

\* What a job bills was billed meanwhile, if at all, by a job that ran with it.
BilledMeanwhile ==
    \A s \in Schedulers : Active(s) => \A b \in bills :
        b.school \in InHand(s) /\ b.month = monthly[s].month
            => b.by # s /\ (b.by \in monthly[s].met \/ s \in b.met)

\* Nobody bills a month of a school twice.
BillKeysUnique == \A a, b \in bills : Of(a) = Of(b) => a = b

BillInv ==
    /\ MonthlyTogether /\ DraftedSchoolOnce /\ BilledMeanwhile /\ BillKeysUnique
    /\ BilledTwiceTogether

\* The initial states satisfy it.
LEMMA InitBill == Init => BillInv
  BY DEF Init, BillInv, MonthlyTogether, DraftedSchoolOnce, BilledMeanwhile, BillKeysUnique,
         BilledTwiceTogether, Active

\* A step of one job that has no more in hand keeps it.
LEMMA JobKeepsBill ==
  ASSUME TypeOK, BillInv, NEW s \in Schedulers, bills' = bills,
         \A t \in Schedulers : t # s => monthly'[t] = monthly[t],
         \/ monthly'[s] = Idle
         \/ /\ Active(s) /\ Active(s)'
            /\ InHand(s)' \subseteq InHand(s) /\ monthly'[s].todo \subseteq monthly[s].todo
            /\ \A d, e \in monthly'[s].draft : d.school = e.school => d = e
            /\ monthly'[s].at # "next" => \A d \in monthly'[s].draft : d.school # monthly'[s].school
            /\ monthly'[s].met = monthly[s].met /\ monthly'[s].month = monthly[s].month
  PROVE  BillInv'
  <1> USE DEF BillInv
  <1>1. \A t \in Schedulers : t # s => (Active(t)' <=> Active(t)) /\ InHand(t)' = InHand(t)
    BY DEF Active, InHand
  <1>2. Active(s)' => Active(s) /\ monthly'[s] # Idle
    BY DEF Active
  <1>3. MonthlyTogether'
    BY <1>1, <1>2 DEF MonthlyTogether
  <1>4. DraftedSchoolOnce'
    BY <1>1, <1>2 DEF DraftedSchoolOnce
  <1>5. BilledMeanwhile'
    BY <1>1, <1>2 DEF BilledMeanwhile
  <1> QED BY <1>3, <1>4, <1>5 DEF BillKeysUnique, BilledTwiceTogether, Of

\* The parts of a job under way.
LEMMA ActiveIsTyped ==
  ASSUME TypeOK, NEW s \in Schedulers, Active(s)
  PROVE  /\ monthly[s] \in [at : {"next", "fees", "number"}, month : Months,
                            school : Schools \union {None}, fees : SUBSET FeeKeys,
                            todo : SUBSET Schools,
                            draft : SUBSET [school : Schools, fees : SUBSET FeeKeys],
                            met : SUBSET Schedulers]
         /\ monthly[s].at # "next" => monthly[s].school \in Schools
  BY DEF TypeOK, MonthlyType, Active

\* An invoice after that of w was paid.
Paid(b, w) == IF Of(b) = w.of THEN [b EXCEPT !.status = "paid"] ELSE b

LEMMA PaymentOfBill ==
  ASSUME NEW w, NEW b \in BillType
  PROVE  /\ Paid(b, w).school = b.school /\ Paid(b, w).month = b.month
         /\ Paid(b, w).by = b.by /\ Paid(b, w).met = b.met /\ Paid(b, w).fees = b.fees
         /\ Of(Paid(b, w)) = Of(b)
         /\ Paid(b, w).status = IF Of(b) = w.of THEN "paid" ELSE b.status
  BY DEF Paid, BillType, Of

\* Every step keeps it.
LEMMA BillStep ==
  ASSUME TypeOK, BillInv, [Next]_vars
  PROVE  BillInv'
  <1> USE DEF BillInv
  <1>1. CASE UNCHANGED <<bills, monthly>>
    BY <1>1 DEF MonthlyTogether, DraftedSchoolOnce, BilledMeanwhile, BillKeysUnique,
                BilledTwiceTogether, Of, Active, InHand
  <1>2. ASSUME NEW s \in Schedulers, MonthlyStarts(s)
        PROVE  BillInv'
    <2>1. /\ monthly'[s].at = "next" /\ monthly'[s] # Idle
          /\ monthly'[s].draft = {} /\ monthly'[s].met = Running(monthly, s)
      BY <1>2 DEF MonthlyStarts, TypeOK, Met, Idle
    <2>2. ASSUME NEW t \in Schedulers, t # s
          PROVE  /\ Active(t)' <=> Active(t)
                 /\ Active(t) => /\ monthly'[t].todo = monthly[t].todo
                                 /\ monthly'[t].draft = monthly[t].draft
                                 /\ monthly'[t].at = monthly[t].at
                                 /\ monthly'[t].month = monthly[t].month
                                 /\ monthly'[t].school = monthly[t].school
                                 /\ monthly'[t].met = monthly[t].met \union {s}
                                 /\ InHand(t)' = InHand(t)
      <3>1. monthly'[t] = IF Active(t) THEN [monthly[t] EXCEPT !.met = @ \union {s}] ELSE monthly[t]
        BY <1>2, <2>2 DEF MonthlyStarts, Met, Active
      <3>2. CASE Active(t)
        <4>1. /\ monthly'[t].todo = monthly[t].todo
              /\ monthly'[t].draft = monthly[t].draft
              /\ monthly'[t].at = monthly[t].at
              /\ monthly'[t].month = monthly[t].month
              /\ monthly'[t].school = monthly[t].school
              /\ monthly'[t].met = monthly[t].met \union {s}
          BY <3>1, <3>2, ActiveIsTyped
        <4>2. Active(t)'
          BY <3>1, <3>2, ActiveIsTyped DEF Active, Idle
        <4> QED BY <3>2, <4>1, <4>2 DEF InHand
      <3>3. CASE ~Active(t)
        BY <3>1, <3>3 DEF Active
      <3> QED BY <3>2, <3>3
    <2>3. InHand(s)' = {}
      BY <2>1 DEF InHand
    <2>4. bills' = bills
      BY <1>2 DEF MonthlyStarts
    <2>5. MonthlyTogether'
      BY <2>1, <2>2 DEF MonthlyTogether, Running, Active
    <2>6. DraftedSchoolOnce'
      BY <2>1, <2>2, <2>3 DEF DraftedSchoolOnce
    <2>7. BilledMeanwhile'
      BY <2>2, <2>3, <2>4 DEF BilledMeanwhile
    <2> QED BY <2>4, <2>5, <2>6, <2>7 DEF BillKeysUnique, BilledTwiceTogether, Of
  <1>3. ASSUME NEW s \in Schedulers, NEW school \in Schools, BillNext(s, school)
        PROVE  BillInv'
    <2>1. Active(s) /\ monthly[s].at = "next" /\ school \in monthly[s].todo /\ bills' = bills
      BY <1>3 DEF BillNext, Active
    <2>2. \A t \in Schedulers : t # s => monthly'[t] = monthly[t]
      BY <1>3 DEF BillNext, TypeOK
    <2>3. CASE BillsOf(school, monthly[s].month) # {}
      <3>1. monthly'[s] = [monthly[s] EXCEPT !.todo = @ \ {school}]
        BY <1>3, <2>3 DEF BillNext, TypeOK
      <3>2. /\ monthly'[s].todo = monthly[s].todo \ {school} /\ monthly'[s].at = monthly[s].at
            /\ monthly'[s].draft = monthly[s].draft /\ monthly'[s].met = monthly[s].met
            /\ monthly'[s].month = monthly[s].month /\ monthly'[s].school = monthly[s].school
        BY <2>1, <3>1, ActiveIsTyped
      <3>3. Active(s)' /\ InHand(s)' = InHand(s)
        BY <2>1, <3>1, <3>2, ActiveIsTyped DEF Active, InHand, Idle
      <3> QED BY <2>1, <2>2, <3>2, <3>3, JobKeepsBill DEF DraftedSchoolOnce
    <2>4. CASE BillsOf(school, monthly[s].month) = {}
      <3>1. monthly'[s] = [monthly[s] EXCEPT !.todo = @ \ {school}, !.at = "fees", !.school = school]
        BY <1>3, <2>4 DEF BillNext, TypeOK
      <3>2. /\ monthly'[s].todo = monthly[s].todo \ {school} /\ monthly'[s].at = "fees"
            /\ monthly'[s].draft = monthly[s].draft /\ monthly'[s].met = monthly[s].met
            /\ monthly'[s].month = monthly[s].month /\ monthly'[s].school = school
        BY <2>1, <3>1, ActiveIsTyped
      <3>3. InHand(s)' = InHand(s) \union {school}
        BY <2>1, <3>2 DEF InHand
      <3>4. \A d \in monthly[s].draft : d.school \in InHand(s)
        BY DEF InHand
      <3>5. \A t \in Schedulers : t # s => (Active(t)' <=> Active(t)) /\ InHand(t)' = InHand(t)
        BY <2>2 DEF Active, InHand
      <3>6. MonthlyTogether'
        BY <2>1, <2>2, <3>2, <3>5 DEF MonthlyTogether
      <3>7. DraftedSchoolOnce'
        BY <2>1, <2>2, <3>2, <3>3, <3>4, <3>5 DEF DraftedSchoolOnce
      <3>8. \A b \in bills : ~(b.school = school /\ b.month = monthly[s].month)
        BY <2>4 DEF BillsOf
      <3>9. BilledMeanwhile'
        BY <2>1, <2>2, <3>2, <3>3, <3>5, <3>8 DEF BilledMeanwhile
      <3> QED BY <2>1, <3>6, <3>7, <3>9 DEF BillKeysUnique, BilledTwiceTogether, Of
    <2> QED BY <2>3, <2>4
  <1>4. ASSUME NEW s \in Schedulers, ReadFees(s)
        PROVE  BillInv'
    <2> DEFINE pending == {f \in FeesOf(monthly[s].school, monthly[s].month) : f.status = "pending"}
               K == {Key(f) : f \in pending}
    <2>1. Active(s) /\ monthly[s].at = "fees" /\ bills' = bills
      BY <1>4 DEF ReadFees, Active
    <2>2. \A t \in Schedulers : t # s => monthly'[t] = monthly[t]
      BY <1>4 DEF ReadFees, TypeOK
    <2>3. monthly'[s] = IF pending = {} THEN [monthly[s] EXCEPT !.at = "next", !.school = None]
                        ELSE [monthly[s] EXCEPT !.at = "number", !.fees = K]
      BY <1>4 DEF ReadFees, TypeOK
    <2> HIDE DEF K, pending
    <2>4. /\ monthly'[s].todo = monthly[s].todo /\ monthly'[s].draft = monthly[s].draft
          /\ monthly'[s].met = monthly[s].met /\ monthly'[s].month = monthly[s].month
          /\ monthly'[s].at = "next" \/ monthly'[s].school = monthly[s].school
          /\ Active(s)'
      <3>1. CASE pending = {}
        BY <2>1, <2>3, <3>1, ActiveIsTyped DEF Active, Idle
      <3>2. CASE pending # {}
        BY <2>1, <2>3, <3>2, ActiveIsTyped DEF Active, Idle
      <3> QED BY <3>1, <3>2
    <2>5. InHand(s)' \subseteq InHand(s)
      BY <2>1, <2>4 DEF InHand
    <2> QED BY <2>1, <2>2, <2>4, <2>5, JobKeepsBill DEF DraftedSchoolOnce
  <1>5. ASSUME NEW s \in Schedulers, Write(s)
        PROVE  BillInv'
    <2> DEFINE new == [school |-> monthly[s].school, fees |-> monthly[s].fees]
    <2>1. Active(s) /\ monthly[s].at = "number" /\ bills' = bills
      BY <1>5 DEF Write, Active
    <2>2. \A t \in Schedulers : t # s => monthly'[t] = monthly[t]
      BY <1>5 DEF Write, TypeOK
    <2>3. monthly'[s] = [monthly[s] EXCEPT !.draft = @ \union {new}, !.at = "next",
                                           !.school = None, !.fees = {}]
      BY <1>5 DEF Write, TypeOK
    <2>4. new.school = monthly[s].school
      OBVIOUS
    <2> HIDE DEF new
    <2>5. /\ monthly'[s].todo = monthly[s].todo /\ monthly'[s].draft = monthly[s].draft \union {new}
          /\ monthly'[s].met = monthly[s].met /\ monthly'[s].month = monthly[s].month
          /\ monthly'[s].at = "next"
      BY <2>1, <2>3, ActiveIsTyped
    <2>6. Active(s)'
      BY <2>1, <2>5, ActiveIsTyped DEF Active, Idle
    <2>7. InHand(s)' \subseteq InHand(s)
      BY <2>1, <2>4, <2>5 DEF InHand
    <2>8. \A d, e \in monthly'[s].draft : d.school = e.school => d = e
      BY <2>1, <2>4, <2>5 DEF DraftedSchoolOnce
    <2> QED BY <2>1, <2>2, <2>5, <2>6, <2>7, <2>8, JobKeepsBill
  <1>6. ASSUME NEW s \in Schedulers, MonthlyDies(s)
        PROVE  BillInv'
    <2>1. monthly'[s] = Idle /\ bills' = bills /\ \A t \in Schedulers : t # s => monthly'[t] = monthly[t]
      BY <1>6 DEF MonthlyDies, TypeOK
    <2> QED BY <2>1, JobKeepsBill
  <1>7. ASSUME NEW s \in Schedulers, MonthlyCommits(s)
        PROVE  BillInv'
    <2> DEFINE Bill(d) == [school |-> d.school, month |-> monthly[s].month, by |-> s,
                           met |-> monthly[s].met, fees |-> d.fees, status |-> "pending"]
               New == {Bill(d) : d \in monthly[s].draft}
    <2>1. Active(s) /\ bills' = bills \union New
      BY <1>7 DEF MonthlyCommits, Active
    <2>2. monthly'[s] = Idle /\ \A t \in Schedulers : t # s => monthly'[t] = monthly[t]
      BY <1>7 DEF MonthlyCommits, TypeOK
    <2>3. \A b \in New : \E d \in monthly[s].draft :
             /\ b = Bill(d) /\ b.school = d.school /\ b.school \in InHand(s)
             /\ b.month = monthly[s].month /\ b.by = s /\ b.met = monthly[s].met
             /\ b.fees = d.fees
      BY DEF InHand
    <2> HIDE DEF New
    <2>4. \A a, b \in New : a.school = b.school => a = b
      BY <2>1, <2>3 DEF DraftedSchoolOnce
    <2>5. \A a \in bills, b \in New :
             a.school = b.school /\ a.month = b.month => a.by # s /\ (a.by \in b.met \/ s \in a.met)
      BY <2>1, <2>3 DEF BilledMeanwhile
    <2>6. \A t \in Schedulers : t # s => (Active(t)' <=> Active(t)) /\ InHand(t)' = InHand(t)
      BY <2>2 DEF Active, InHand
    <2>7. ~Active(s)'
      BY <2>2 DEF Active
    <2>8. MonthlyTogether'
      BY <2>2, <2>6, <2>7 DEF MonthlyTogether
    <2>9. DraftedSchoolOnce'
      BY <2>2, <2>6, <2>7 DEF DraftedSchoolOnce
    <2>10. BilledMeanwhile'
      <3> SUFFICES ASSUME NEW t \in Schedulers, t # s, Active(t), NEW b \in New
                   PROVE  b.by # t /\ (b.by \in monthly[t].met \/ t \in b.met)
        BY <2>1, <2>2, <2>6, <2>7 DEF BilledMeanwhile
      <3>1. t \in monthly[s].met
        BY <2>1 DEF MonthlyTogether
      <3> QED BY <2>3, <3>1
    <2>11. BillKeysUnique'
      <3>1. \A a, b : Of(a) = Of(b) => a.school = b.school /\ a.month = b.month /\ a.by = b.by
        BY DEF Of
      <3>2. \A a, b \in bills : Of(a) = Of(b) => a = b
        BY DEF BillKeysUnique
      <3>3. \A a, b \in bills' : Of(a) = Of(b) => a = b
        BY <2>1, <2>3, <2>4, <2>5, <3>1, <3>2
      <3> QED BY <3>3 DEF BillKeysUnique, Of
    <2>12. BilledTwiceTogether'
      BY <2>1, <2>3, <2>4, <2>5 DEF BilledTwiceTogether
    <2> QED BY <2>8, <2>9, <2>10, <2>11, <2>12
  <1>8. ASSUME NEW w \in paying, WebhookCommits(w)
        PROVE  BillInv'
    <2>1. bills' = {Paid(b, w) : b \in bills} /\ monthly' = monthly
      BY <1>8 DEF WebhookCommits, Paid
    <2>2. \A c \in bills' : \E b \in bills :
             /\ c = Paid(b, w) /\ c.school = b.school /\ c.month = b.month
             /\ c.by = b.by /\ c.met = b.met /\ Of(c) = Of(b)
      BY <2>1, PaymentOfBill DEF TypeOK
    <2>3. BilledMeanwhile'
      BY <2>1, <2>2 DEF BilledMeanwhile, Active, InHand
    <2>4. BillKeysUnique'
      <3>1. \A a, b \in bills' : Of(a) = Of(b) => a = b
        BY <2>2 DEF BillKeysUnique
      <3> QED BY <3>1 DEF BillKeysUnique, Of
    <2>5. BilledTwiceTogether'
      BY <2>2 DEF BilledTwiceTogether
    <2> QED BY <2>1, <2>3, <2>4, <2>5 DEF MonthlyTogether, DraftedSchoolOnce, Active, InHand
  <1>9. ASSUME \/ \E p \in Payments : PayOnline(p) \/ \E d \in Days : PayAtDesk(p, d)
               \/ \E s \in Schedulers : \/ DailyStarts(s) \/ DailyCommits(s) \/ DailyDies(s)
                                        \/ \E p \in Payments : Charge(s, p)
               \/ \E b \in bills : WebhookLocks(b)
               \/ \E w \in paying : WebhookFails(w)
               \/ Turn
               \/ UNCHANGED vars
        PROVE  BillInv'
    <2>1. UNCHANGED <<bills, monthly>>
      BY <1>9 DEF PayOnline, PayAtDesk, DailyStarts, DailyCommits, DailyDies, Charge, WebhookLocks,
                  WebhookFails, Turn, vars
    <2> QED BY <1>1, <2>1
  <1> QED BY <1>2, <1>3, <1>4, <1>5, <1>6, <1>7, <1>8, <1>9 DEF Next

\* BilledTwiceTogether, for any schools, days and server processes: a school has two
\* invoices of a month only from monthly jobs of two processes that ran at the same time.
THEOREM BilledOnceAlone == Spec => []BilledTwiceTogether
  <1>1. Init => TypeOK /\ BillInv
    BY InitTyped, InitBill
  <1>2. TypeOK /\ BillInv /\ [Next]_vars => (TypeOK /\ BillInv)'
    BY TypeStep, BillStep
  <1>3. BillInv => BilledTwiceTogether
    BY DEF BillInv
  <1> QED BY <1>1, <1>2, <1>3, PTL DEF Spec

-----------------------------------------------------------------------------
(* Settlement *)

\* The fee with key k is one of that month of the school.
IsFeeOf(k, school, month) ==
    \E f \in fees : Key(f) = k /\ SchoolOf[f.pay] = school /\ f.month = month

\* Whoever refers to fees refers to fees of the right school and month.
FeesReferred ==
    /\ \A b \in bills : \A k \in b.fees : IsFeeOf(k, b.school, b.month)
    /\ \A s \in Schedulers : Active(s) =>
         /\ \A d \in monthly[s].draft : \A k \in d.fees : IsFeeOf(k, d.school, monthly[s].month)
         /\ monthly[s].at = "number" =>
              \A k \in monthly[s].fees : IsFeeOf(k, monthly[s].school, monthly[s].month)
    /\ \A w \in paying : \A k \in w.fees : IsFeeOf(k, w.of.school, w.of.month)

\* A webhook pays an invoice that exists, and fees that were invoiced.
PayingInvoiced ==
    \A w \in paying :
        /\ \E b \in bills : Of(b) = w.of
        /\ \A f \in fees : Key(f) \in w.fees => f.status # "pending"

\* A fee of the invoice that the webhook does not pay was paid or is invoiced twice.
PayingAll ==
    \A w \in paying, b \in bills, f \in fees :
        Of(b) = w.of /\ Key(f) \in b.fees /\ Key(f) \notin w.fees
            => f.status = "paid" \/ \E c \in bills \ {b} : Key(f) \in c.fees

SettleInv == FeesReferred /\ PayingInvoiced /\ PayingAll /\ FeesFollowBills

\* The initial states satisfy it.
LEMMA InitSettle == Init => SettleInv
  BY DEF Init, SettleInv, FeesReferred, PayingInvoiced, PayingAll, FeesFollowBills, Active

\* New fees, which nobody refers to yet, keep it.
LEMMA NewFeesSettle ==
  ASSUME TypeOK, SettleInv, UNCHANGED <<bills, monthly, paying>>,
         NEW New, fees' = fees \union New,
         \A g \in New : g.status = "pending" /\ \A f \in fees : Key(f) # Key(g)
  PROVE  SettleInv'
  <1> USE DEF SettleInv
  <1>1. \A k, school, month : IsFeeOf(k, school, month) => IsFeeOf(k, school, month)'
    BY DEF IsFeeOf, Key
  <1>2. FeesReferred'
    BY <1>1 DEF FeesReferred, Active
  <1>3. \A g \in New : /\ \A b \in bills : Key(g) \notin b.fees
                       /\ \A w \in paying : Key(g) \notin w.fees
    BY DEF FeesReferred, IsFeeOf
  <1>4. PayingInvoiced'
    <2>1. \A w \in paying, f \in fees' : Key(f) \in w.fees => f.status # "pending"
      BY <1>3 DEF PayingInvoiced
    <2> QED BY <2>1 DEF PayingInvoiced, Key, Of
  <1>5. PayingAll'
    <2>1. \A w \in paying, b \in bills, f \in fees' :
             Of(b) = w.of /\ Key(f) \in b.fees /\ Key(f) \notin w.fees
                => f.status = "paid" \/ \E c \in bills \ {b} : Key(f) \in c.fees
      BY <1>3 DEF PayingAll
    <2> QED BY <2>1 DEF PayingAll, Key, Of
  <1>6. FeesFollowBills'
    <2>1. ASSUME NEW f \in fees'
          PROVE  /\ f.status = "pending" <=> \A b \in bills : Key(f) \notin b.fees
                 /\ f.status = "paid" => \E b \in BillsOf(SchoolOf[f.pay], f.month) : b.status = "paid"
                 /\ \A b \in bills :
                      b.status = "paid" /\ Key(f) \in b.fees /\ f.status # "paid"
                         => \E c \in bills \ {b} : Key(f) \in c.fees
      <3>1. CASE f \in fees
        BY <3>1 DEF FeesFollowBills
      <3>2. CASE f \in New
        BY <1>3, <3>2
      <3> QED BY <3>1, <3>2
    <2> QED BY <2>1 DEF FeesFollowBills, Key, BillsOf
  <1> QED BY <1>2, <1>4, <1>5, <1>6

\* A step of one job keeps it, when the job refers to fees of its school and month.
LEMMA JobSettles ==
  ASSUME TypeOK, SettleInv, UNCHANGED <<fees, bills, paying>>, NEW s \in Schedulers,
         \A t \in Schedulers : t # s =>
            /\ Active(t)' <=> Active(t)
            /\ Active(t) => /\ monthly'[t].draft = monthly[t].draft
                            /\ monthly'[t].at = monthly[t].at /\ monthly'[t].fees = monthly[t].fees
                            /\ monthly'[t].school = monthly[t].school
                            /\ monthly'[t].month = monthly[t].month,
         Active(s)' =>
            /\ \A d \in monthly'[s].draft : \A k \in d.fees : IsFeeOf(k, d.school, monthly'[s].month)
            /\ monthly'[s].at = "number" =>
                 \A k \in monthly'[s].fees : IsFeeOf(k, monthly'[s].school, monthly'[s].month)
  PROVE  SettleInv'
  <1> USE DEF SettleInv
  <1>1. \A k, school, month : IsFeeOf(k, school, month)' <=> IsFeeOf(k, school, month)
    BY DEF IsFeeOf, Key
  <1>2. ASSUME NEW t \in Schedulers, Active(t)'
        PROVE  /\ \A d \in monthly'[t].draft : \A k \in d.fees : IsFeeOf(k, d.school, monthly'[t].month)
               /\ monthly'[t].at = "number" =>
                    \A k \in monthly'[t].fees : IsFeeOf(k, monthly'[t].school, monthly'[t].month)
    <2>1. CASE t = s
      BY <1>2, <2>1
    <2>2. CASE t # s
      BY <1>2, <2>2 DEF FeesReferred
    <2> QED BY <2>1, <2>2
  <1>3. ASSUME NEW t \in Schedulers, Active(t)'
        PROVE  /\ \A d \in monthly'[t].draft : \A k \in d.fees : IsFeeOf(k, d.school, monthly[t].month)'
               /\ monthly'[t].at = "number" =>
                    \A k \in monthly'[t].fees : IsFeeOf(k, monthly[t].school, monthly[t].month)'
    BY <1>2, <1>3 DEF IsFeeOf, Key
  <1>4. FeesReferred'
    <2>1. \A b \in bills : \A k \in b.fees : IsFeeOf(k, b.school, b.month)'
      BY <1>1 DEF FeesReferred
    <2>2. \A w \in paying : \A k \in w.fees : IsFeeOf(k, w.of.school, w.of.month)'
      BY <1>1 DEF FeesReferred
    <2> QED BY <1>3, <2>1, <2>2 DEF FeesReferred
  <1> QED BY <1>4 DEF PayingInvoiced, PayingAll, FeesFollowBills, Key, Of, BillsOf

\* The invoices of a job that commits.
LEMMA MonthlyCommitsSettles ==
  ASSUME TypeOK, ChargeInv, BillInv, SettleInv, NEW s \in Schedulers, MonthlyCommits(s)
  PROVE  SettleInv'
  <1> USE DEF SettleInv
  <1> DEFINE K == UNION {d.fees : d \in monthly[s].draft}
             Bill(d) == [school |-> d.school, month |-> monthly[s].month, by |-> s,
                         met |-> monthly[s].met, fees |-> d.fees, status |-> "pending"]
             New == {Bill(d) : d \in monthly[s].draft}
  <1>1. /\ Active(s) /\ bills' = bills \union New /\ paying' = paying
        /\ fees' = {After(f, K, "invoiced") : f \in fees}
    BY DEF MonthlyCommits, Active, After
  <1>2. monthly'[s] = Idle /\ \A t \in Schedulers : t # s => monthly'[t] = monthly[t]
    BY DEF MonthlyCommits, TypeOK
  <1>3. \A b \in New : \E d \in monthly[s].draft :
           /\ b.school = d.school /\ b.school \in InHand(s) /\ b.month = monthly[s].month
           /\ b.by = s /\ b.fees = d.fees /\ b.status = "pending"
    BY DEF InHand
  <1>4. \A k \in K : \E b \in New : k \in b.fees
    <2> TAKE k \in K
    <2> PICK d \in monthly[s].draft : k \in d.fees
      OBVIOUS
    <2>1. Bill(d) \in New /\ k \in Bill(d).fees
      OBVIOUS
    <2> QED BY <2>1
  <1>5. \A b \in New : b.fees \subseteq K
    BY <1>3
  <1> HIDE DEF K, New
  <1>6. \A g \in fees' : \E f \in fees :
           /\ g = After(f, K, "invoiced") /\ Key(g) = Key(f) /\ g.pay = f.pay /\ g.month = f.month
           /\ g.status = IF Key(f) \in K THEN "invoiced" ELSE f.status
    BY <1>1, StatusChanges DEF TypeOK
  <1>7. \A f \in fees : \E g \in fees' : Key(g) = Key(f) /\ g.pay = f.pay /\ g.month = f.month
    BY <1>1, StatusChanges DEF TypeOK
  <1>8. \A k, school, month : IsFeeOf(k, school, month) => IsFeeOf(k, school, month)'
    BY <1>7 DEF IsFeeOf, Key
  <1>9. \A a \in bills, b \in New : Of(a) # Of(b) /\ a # b
    BY <1>1, <1>3 DEF BillInv, BilledMeanwhile, Of
  <1>10. FeesReferred'
    <2>1. \A b \in New : \A k \in b.fees : IsFeeOf(k, b.school, b.month)
      BY <1>1, <1>3 DEF FeesReferred
    <2>2. ASSUME NEW t \in Schedulers, Active(t)'
          PROVE  t # s /\ Active(t) /\ monthly'[t] = monthly[t]
      BY <1>2, <2>2 DEF Active
    <2> QED BY <1>1, <1>8, <2>1, <2>2 DEF FeesReferred
  <1>11. PayingInvoiced'
    <2>1. \A w \in paying : \E b \in bills' : Of(b) = w.of
      BY <1>1 DEF PayingInvoiced
    <2>2. \A w \in paying, g \in fees' : Key(g) \in w.fees => g.status # "pending"
      BY <1>6 DEF PayingInvoiced
    <2> QED BY <1>1, <2>1, <2>2 DEF PayingInvoiced, Key, Of
  <1>12. PayingAll'
    <2>1. ASSUME NEW w \in paying, NEW b \in bills', NEW g \in fees',
                 Of(b) = w.of, Key(g) \in b.fees, Key(g) \notin w.fees
          PROVE  g.status = "paid" \/ \E c \in bills' \ {b} : Key(g) \in c.fees
      <3>1. b \in bills
        BY <1>1, <1>9, <2>1 DEF PayingInvoiced
      <3> PICK f \in fees : Key(g) = Key(f) /\ g.status = IF Key(f) \in K THEN "invoiced" ELSE f.status
        BY <1>6
      <3>2. CASE Key(f) \in K
        BY <1>1, <1>4, <1>9, <3>1, <3>2
      <3>3. CASE Key(f) \notin K
        BY <1>1, <2>1, <3>1, <3>3 DEF PayingAll
      <3> QED BY <3>2, <3>3
    <2> QED BY <1>1, <2>1 DEF PayingAll, Key, Of
  <1>13. FeesFollowBills'
    <2>1. ASSUME NEW g \in fees'
          PROVE  /\ g.status = "pending" <=> \A b \in bills' : Key(g) \notin b.fees
                 /\ g.status = "paid" => \E b \in bills' : /\ b.school = SchoolOf[g.pay]
                                                            /\ b.month = g.month /\ b.status = "paid"
                 /\ \A b \in bills' :
                      b.status = "paid" /\ Key(g) \in b.fees /\ g.status # "paid"
                         => \E c \in bills' \ {b} : Key(g) \in c.fees
      <3> PICK f \in fees : /\ Key(g) = Key(f) /\ g.pay = f.pay /\ g.month = f.month
                            /\ g.status = IF Key(f) \in K THEN "invoiced" ELSE f.status
        BY <1>6
      <3>1. g.status = "pending" <=> \A b \in bills' : Key(g) \notin b.fees
        <4>1. f.status = "pending" <=> \A b \in bills : Key(f) \notin b.fees
          BY DEF FeesFollowBills
        <4>2. Key(f) \in K <=> \E b \in New : Key(f) \in b.fees
          BY <1>4, <1>5
        <4> QED BY <1>1, <4>1, <4>2
      <3>2. g.status = "paid" => \E b \in bills' : /\ b.school = SchoolOf[g.pay]
                                                    /\ b.month = g.month /\ b.status = "paid"
        BY <1>1 DEF FeesFollowBills, BillsOf
      <3>3. ASSUME NEW b \in bills', b.status = "paid", Key(g) \in b.fees, g.status # "paid"
            PROVE  \E c \in bills' \ {b} : Key(g) \in c.fees
        <4>1. b \in bills
          BY <1>1, <1>3, <3>3
        <4>2. CASE Key(f) \in K
          BY <1>1, <1>4, <1>9, <4>1, <4>2
        <4>3. CASE Key(f) \notin K
          BY <1>1, <3>3, <4>1, <4>3 DEF FeesFollowBills
        <4> QED BY <4>2, <4>3
      <3> QED BY <3>1, <3>2, <3>3
    <2> QED BY <2>1 DEF FeesFollowBills, Key, BillsOf
  <1> QED BY <1>10, <1>11, <1>12, <1>13

\* A payment of an invoice that commits.
LEMMA WebhookCommitsSettles ==
  ASSUME TypeOK, ChargeInv, BillInv, SettleInv, NEW w \in paying, WebhookCommits(w)
  PROVE  SettleInv'
  <1> USE DEF SettleInv
  <1>1. /\ bills' = {Paid(b, w) : b \in bills} /\ paying' = paying \ {w} /\ monthly' = monthly
        /\ fees' = {After(f, w.fees, "paid") : f \in fees}
    BY DEF WebhookCommits, Paid, After
  <1>2. \A g \in fees' : \E f \in fees :
           /\ Key(g) = Key(f) /\ g.pay = f.pay /\ g.month = f.month
           /\ g.status = IF Key(f) \in w.fees THEN "paid" ELSE f.status
    BY <1>1, StatusChanges DEF TypeOK
  <1>3. \A f \in fees : \E g \in fees' : Key(g) = Key(f) /\ g.pay = f.pay /\ g.month = f.month
    BY <1>1, StatusChanges DEF TypeOK
  <1>4. \A k, school, month : IsFeeOf(k, school, month) => IsFeeOf(k, school, month)'
    BY <1>3 DEF IsFeeOf, Key
  <1>5. \A c \in bills' : \E b \in bills :
           /\ c = Paid(b, w) /\ c.school = b.school /\ c.month = b.month /\ c.fees = b.fees
           /\ Of(c) = Of(b) /\ c.status = IF Of(b) = w.of THEN "paid" ELSE b.status
    BY <1>1, PaymentOfBill DEF TypeOK
  <1>6. \A b \in bills : /\ Paid(b, w) \in bills'
                         /\ Paid(b, w).school = b.school /\ Paid(b, w).month = b.month
                         /\ Paid(b, w).fees = b.fees /\ Of(Paid(b, w)) = Of(b)
                         /\ Paid(b, w).status = IF Of(b) = w.of THEN "paid" ELSE b.status
    BY <1>1, PaymentOfBill DEF TypeOK
  <1>7. \A b, c \in bills : b # c => Paid(b, w) # Paid(c, w)
    BY <1>6 DEF BillInv, BillKeysUnique
  <1>8. FeesReferred'
    BY <1>1, <1>4, <1>5 DEF FeesReferred, Active
  <1>9. PayingInvoiced'
    <2>1. \A v \in paying' : \E b \in bills' : Of(b) = v.of
      BY <1>1, <1>6 DEF PayingInvoiced
    <2>2. \A v \in paying', g \in fees' : Key(g) \in v.fees => g.status # "pending"
      BY <1>1, <1>2 DEF PayingInvoiced
    <2> QED BY <2>1, <2>2 DEF PayingInvoiced, Key, Of
  <1>10. PayingAll'
    <2>1. ASSUME NEW v \in paying', NEW d \in bills', NEW g \in fees',
                 Of(d) = v.of, Key(g) \in d.fees, Key(g) \notin v.fees
          PROVE  g.status = "paid" \/ \E c \in bills' \ {d} : Key(g) \in c.fees
      <3> PICK b \in bills : d = Paid(b, w) /\ d.fees = b.fees /\ Of(d) = Of(b)
        BY <1>5
      <3> PICK f \in fees : Key(g) = Key(f) /\ g.status = IF Key(f) \in w.fees THEN "paid" ELSE f.status
        BY <1>2
      <3>1. f.status = "paid" \/ \E c \in bills \ {b} : Key(f) \in c.fees
        BY <1>1, <2>1 DEF PayingAll
      <3> QED BY <1>6, <1>7, <3>1
    <2> QED BY <2>1 DEF PayingAll, Key, Of
  <1>11. FeesFollowBills'
    <2>1. ASSUME NEW g \in fees'
          PROVE  /\ g.status = "pending" <=> \A b \in bills' : Key(g) \notin b.fees
                 /\ g.status = "paid" => \E b \in bills' : /\ b.school = SchoolOf[g.pay]
                                                            /\ b.month = g.month /\ b.status = "paid"
                 /\ \A b \in bills' :
                      b.status = "paid" /\ Key(g) \in b.fees /\ g.status # "paid"
                         => \E c \in bills' \ {b} : Key(g) \in c.fees
      <3> PICK f \in fees : /\ Key(g) = Key(f) /\ g.pay = f.pay /\ g.month = f.month
                            /\ g.status = IF Key(f) \in w.fees THEN "paid" ELSE f.status
        BY <1>2
      <3>1. g.status = "pending" <=> \A b \in bills' : Key(g) \notin b.fees
        <4>1. f.status = "pending" <=> \A b \in bills : Key(f) \notin b.fees
          BY DEF FeesFollowBills
        <4>2. Key(f) \in w.fees => f.status # "pending"
          BY DEF PayingInvoiced
        <4>3. (\A b \in bills : Key(f) \notin b.fees) <=> \A b \in bills' : Key(f) \notin b.fees
          BY <1>5, <1>6
        <4> QED BY <4>1, <4>2, <4>3
      <3>2. g.status = "paid" => \E b \in bills' : /\ b.school = SchoolOf[g.pay]
                                                    /\ b.month = g.month /\ b.status = "paid"
        <4>1. CASE f.status = "paid"
          <5> PICK b \in bills : b.school = SchoolOf[f.pay] /\ b.month = f.month /\ b.status = "paid"
            BY <4>1 DEF FeesFollowBills, BillsOf
          <5> QED BY <1>6
        <4>2. CASE Key(f) \in w.fees
          <5> PICK b \in bills : Of(b) = w.of
            BY DEF PayingInvoiced
          <5>1. b.school = w.of.school /\ b.month = w.of.month
            BY DEF Of
          <5>2. SchoolOf[f.pay] = w.of.school /\ f.month = w.of.month
            BY <4>2 DEF FeesReferred, IsFeeOf, ChargeInv, FeeKeysUnique
          <5> QED BY <1>6, <5>1, <5>2
        <4>3. CASE f.status # "paid" /\ Key(f) \notin w.fees
          BY <4>3
        <4> QED BY <4>1, <4>2, <4>3
      <3>3. ASSUME NEW d \in bills', d.status = "paid", Key(g) \in d.fees, g.status # "paid"
            PROVE  \E c \in bills' \ {d} : Key(g) \in c.fees
        <4> PICK b \in bills : /\ d = Paid(b, w) /\ d.fees = b.fees
                               /\ d.status = IF Of(b) = w.of THEN "paid" ELSE b.status
          BY <1>5
        <4>1. f.status # "paid" /\ Key(f) \notin w.fees
          BY <3>3
        <4>2. \E c \in bills \ {b} : Key(f) \in c.fees
          BY <3>3, <4>1 DEF PayingAll, FeesFollowBills
        <4> QED BY <1>6, <1>7, <4>2
      <3> QED BY <3>1, <3>2, <3>3
    <2> QED BY <2>1 DEF FeesFollowBills, Key, BillsOf
  <1> QED BY <1>8, <1>9, <1>10, <1>11

\* A webhook that locks an invoice.
LEMMA WebhookLocksSettles ==
  ASSUME TypeOK, ChargeInv, BillInv, SettleInv, NEW a \in bills, WebhookLocks(a)
  PROVE  SettleInv'
  <1> USE DEF SettleInv
  <1> DEFINE invoiced == {g \in FeesOf(a.school, a.month) : g.status = "invoiced"}
             new == [of |-> Of(a), fees |-> {Key(f) : f \in invoiced}]
  <1>1. paying' = paying \union {new} /\ UNCHANGED <<fees, bills, monthly>>
    BY DEF WebhookLocks
  <1>2. new.of = Of(a) /\ new.of.school = a.school /\ new.of.month = a.month
    BY DEF Of
  <1>3. \A k \in new.fees : \E f \in fees : /\ Key(f) = k /\ SchoolOf[f.pay] = a.school
                                            /\ f.month = a.month /\ f.status = "invoiced"
    BY DEF FeesOf
  <1>4. \A f \in fees : SchoolOf[f.pay] = a.school /\ f.month = a.month /\ f.status = "invoiced"
                          => Key(f) \in new.fees
    BY DEF FeesOf
  <1> HIDE DEF new
  <1>5. FeesReferred'
    <2>1. \A k \in new.fees : IsFeeOf(k, new.of.school, new.of.month)
      BY <1>2, <1>3 DEF IsFeeOf
    <2>2. \A w \in paying' : \A k \in w.fees : IsFeeOf(k, w.of.school, w.of.month)
      BY <1>1, <2>1 DEF FeesReferred
    <2> QED BY <1>1, <2>2 DEF FeesReferred, IsFeeOf, Key, Active
  <1>6. PayingInvoiced'
    <2>1. \A f \in fees : Key(f) \in new.fees => f.status # "pending"
      BY <1>3 DEF ChargeInv, FeeKeysUnique
    <2> QED BY <1>1, <1>2, <2>1 DEF PayingInvoiced, Key, Of
  <1>7. PayingAll'
    <2>1. ASSUME NEW b \in bills, NEW f \in fees,
                 Of(b) = new.of, Key(f) \in b.fees, Key(f) \notin new.fees
          PROVE  f.status = "paid"
      <3>1. b = a
        BY <1>2, <2>1 DEF BillInv, BillKeysUnique
      <3>2. SchoolOf[f.pay] = a.school /\ f.month = a.month
        BY <2>1, <3>1 DEF FeesReferred, IsFeeOf, ChargeInv, FeeKeysUnique
      <3>3. f.status \in {"pending", "invoiced", "paid"}
        BY DEF TypeOK, FeeType
      <3>4. f.status # "pending"
        BY <2>1 DEF FeesFollowBills
      <3> QED BY <1>4, <2>1, <3>2, <3>3, <3>4
    <2>2. \A w \in paying', b \in bills, f \in fees :
             Of(b) = w.of /\ Key(f) \in b.fees /\ Key(f) \notin w.fees
                => f.status = "paid" \/ \E c \in bills \ {b} : Key(f) \in c.fees
      BY <1>1, <2>1 DEF PayingAll
    <2> QED BY <1>1, <2>2 DEF PayingAll, Key, Of
  <1> QED BY <1>1, <1>5, <1>6, <1>7 DEF FeesFollowBills, Key, BillsOf

\* Every step keeps it.
LEMMA SettleStep ==
  ASSUME TypeOK, ChargeInv, BillInv, SettleInv, [Next]_vars
  PROVE  SettleInv'
  <1> USE DEF SettleInv
  <1>1. ASSUME NEW p \in Payments, PayOnline(p)
        PROVE  SettleInv'
    <2>0. PICK now \in UtcDays : fees' = fees \union {Fee(p, Webhook, MonthOf[now], {})}
      BY <1>1 DEF PayOnline
    <2> DEFINE New == {Fee(p, Webhook, MonthOf[now], {})}
    <2>1. \A g \in New : Key(g) = <<p, Webhook>> /\ g.status = "pending"
      BY DEF Fee, Key
    <2>2. fees' = fees \union New /\ UNCHANGED <<bills, monthly, paying>>
      BY <1>1, <2>0 DEF PayOnline
    <2> HIDE DEF New
    <2>3. \A g \in New : g.status = "pending" /\ \A f \in fees : Key(f) # Key(g)
      BY <1>1, <2>1 DEF PayOnline, ChargeInv, OnlyMade, Key
    <2> QED BY <2>2, <2>3, NewFeesSettle
  <1>2. ASSUME NEW s \in Schedulers, DailyCommits(s)
        PROVE  SettleInv'
    <2> DEFINE New == {Fee(d.pay, s, d.month, daily[s].met) : d \in daily[s].draft}
    <2>1. fees' = fees \union New /\ UNCHANGED <<bills, monthly, paying>> /\ daily[s] # Idle
      BY <1>2 DEF DailyCommits
    <2>2. \A g \in New : \E d \in daily[s].draft : Key(g) = <<d.pay, s>> /\ g.status = "pending"
      BY DEF Fee, Key
    <2> HIDE DEF New
    <2>3. \A g \in New : g.status = "pending" /\ \A f \in fees : Key(f) # Key(g)
      BY <2>1, <2>2 DEF ChargeInv, ChargedMeanwhile, Key
    <2> QED BY <2>1, <2>3, NewFeesSettle
  <1>3. ASSUME NEW s \in Schedulers, MonthlyStarts(s)
        PROVE  SettleInv'
    <2>1. monthly'[s].at = "next" /\ monthly'[s].draft = {} /\ UNCHANGED <<fees, bills, paying>>
      BY <1>3 DEF MonthlyStarts, TypeOK, Met
    <2>2. ASSUME NEW t \in Schedulers, t # s
          PROVE  /\ Active(t)' <=> Active(t)
                 /\ Active(t) => /\ monthly'[t].draft = monthly[t].draft
                                 /\ monthly'[t].at = monthly[t].at /\ monthly'[t].fees = monthly[t].fees
                                 /\ monthly'[t].school = monthly[t].school
                                 /\ monthly'[t].month = monthly[t].month
      <3>1. monthly'[t] = IF Active(t) THEN [monthly[t] EXCEPT !.met = @ \union {s}] ELSE monthly[t]
        BY <1>3, <2>2 DEF MonthlyStarts, Met, Active
      <3>2. CASE Active(t)
        <4>1. /\ monthly'[t].draft = monthly[t].draft
              /\ monthly'[t].at = monthly[t].at /\ monthly'[t].fees = monthly[t].fees
              /\ monthly'[t].school = monthly[t].school
              /\ monthly'[t].month = monthly[t].month
          BY <3>1, <3>2, ActiveIsTyped
        <4>2. Active(t)'
          BY <3>1, <3>2, ActiveIsTyped DEF Active, Idle
        <4> QED BY <3>2, <4>1, <4>2
      <3>3. CASE ~Active(t)
        BY <3>1, <3>3 DEF Active
      <3> QED BY <3>2, <3>3
    <2> QED BY <2>1, <2>2, JobSettles
  <1>4. ASSUME NEW s \in Schedulers,
               \A t \in Schedulers : t # s => monthly'[t] = monthly[t],
               UNCHANGED <<fees, bills, paying>>,
               Active(s)' =>
                 /\ \A d \in monthly'[s].draft : \A k \in d.fees : IsFeeOf(k, d.school, monthly'[s].month)
                 /\ monthly'[s].at = "number" =>
                      \A k \in monthly'[s].fees : IsFeeOf(k, monthly'[s].school, monthly'[s].month)
        PROVE  SettleInv'
    BY <1>4, JobSettles DEF Active
  <1>5. ASSUME NEW s \in Schedulers, NEW school \in Schools, BillNext(s, school)
        PROVE  SettleInv'
    <2>1. /\ Active(s) /\ monthly[s].at = "next" /\ UNCHANGED <<fees, bills, paying>>
          /\ \A t \in Schedulers : t # s => monthly'[t] = monthly[t]
      BY <1>5 DEF BillNext, Active, TypeOK
    <2>2. /\ monthly'[s].draft = monthly[s].draft /\ monthly'[s].month = monthly[s].month
          /\ monthly'[s].at # "number"
      <3>1. CASE BillsOf(school, monthly[s].month) = {}
        <4>1. monthly'[s] = [monthly[s] EXCEPT !.todo = @ \ {school}, !.at = "fees", !.school = school]
          BY <1>5, <3>1 DEF BillNext, TypeOK
        <4> QED BY <2>1, <4>1, ActiveIsTyped
      <3>2. CASE BillsOf(school, monthly[s].month) # {}
        <4>1. monthly'[s] = [monthly[s] EXCEPT !.todo = @ \ {school}]
          BY <1>5, <3>2 DEF BillNext, TypeOK
        <4> QED BY <2>1, <4>1, ActiveIsTyped
      <3> QED BY <3>1, <3>2
    <2> QED BY <1>4, <2>1, <2>2 DEF FeesReferred
  <1>6. ASSUME NEW s \in Schedulers, ReadFees(s)
        PROVE  SettleInv'
    <2> DEFINE pending == {f \in FeesOf(monthly[s].school, monthly[s].month) : f.status = "pending"}
               K == {Key(f) : f \in pending}
    <2>1. /\ Active(s) /\ UNCHANGED <<fees, bills, paying>>
          /\ \A t \in Schedulers : t # s => monthly'[t] = monthly[t]
      BY <1>6 DEF ReadFees, Active, TypeOK
    <2>2. monthly'[s] = IF pending = {} THEN [monthly[s] EXCEPT !.at = "next", !.school = None]
                        ELSE [monthly[s] EXCEPT !.at = "number", !.fees = K]
      BY <1>6 DEF ReadFees, TypeOK
    <2>3. \A k \in K : IsFeeOf(k, monthly[s].school, monthly[s].month)
      BY DEF IsFeeOf, FeesOf
    <2> HIDE DEF K, pending
    <2>4. /\ monthly'[s].draft = monthly[s].draft /\ monthly'[s].month = monthly[s].month
          /\ monthly'[s].at = "number" => monthly'[s].fees = K /\ monthly'[s].school = monthly[s].school
      <3>1. CASE pending = {}
        BY <2>1, <2>2, <3>1, ActiveIsTyped
      <3>2. CASE pending # {}
        BY <2>1, <2>2, <3>2, ActiveIsTyped
      <3> QED BY <3>1, <3>2
    <2> QED BY <1>4, <2>1, <2>3, <2>4 DEF FeesReferred
  <1>7. ASSUME NEW s \in Schedulers, Write(s)
        PROVE  SettleInv'
    <2> DEFINE new == [school |-> monthly[s].school, fees |-> monthly[s].fees]
    <2>1. /\ Active(s) /\ monthly[s].at = "number" /\ UNCHANGED <<fees, bills, paying>>
          /\ \A t \in Schedulers : t # s => monthly'[t] = monthly[t]
      BY <1>7 DEF Write, Active, TypeOK
    <2>2. monthly'[s] = [monthly[s] EXCEPT !.draft = @ \union {new}, !.at = "next",
                                           !.school = None, !.fees = {}]
      BY <1>7 DEF Write, TypeOK
    <2>3. new.school = monthly[s].school /\ new.fees = monthly[s].fees
      OBVIOUS
    <2> HIDE DEF new
    <2>4. /\ monthly'[s].draft = monthly[s].draft \union {new} /\ monthly'[s].month = monthly[s].month
          /\ monthly'[s].at = "next"
      BY <2>1, <2>2, ActiveIsTyped
    <2> QED BY <1>4, <2>1, <2>3, <2>4 DEF FeesReferred
  <1>8. ASSUME NEW s \in Schedulers, MonthlyDies(s)
        PROVE  SettleInv'
    <2>1. /\ ~Active(s)' /\ UNCHANGED <<fees, bills, paying>>
          /\ \A t \in Schedulers : t # s => monthly'[t] = monthly[t]
      BY <1>8 DEF MonthlyDies, Active, TypeOK
    <2> QED BY <1>4, <2>1
  <1>9. ASSUME NEW w \in paying, WebhookFails(w)
        PROVE  SettleInv'
    <2>1. paying' \subseteq paying /\ UNCHANGED <<fees, bills, monthly>>
      BY <1>9 DEF WebhookFails
    <2> QED BY <2>1 DEF FeesReferred, PayingInvoiced, PayingAll, FeesFollowBills, IsFeeOf, Key, Of,
                        BillsOf, Active
  <1>10. ASSUME \/ \E p \in Payments, d \in Days : PayAtDesk(p, d)
                \/ \E s \in Schedulers : \/ DailyStarts(s) \/ DailyDies(s)
                                         \/ \E p \in Payments : Charge(s, p)
                \/ Turn
                \/ UNCHANGED vars
         PROVE  SettleInv'
    <2>1. UNCHANGED <<fees, bills, paying, monthly>>
      BY <1>10 DEF PayAtDesk, DailyStarts, DailyDies, Charge, Turn, vars
    <2> QED BY <2>1 DEF FeesReferred, PayingInvoiced, PayingAll, FeesFollowBills, IsFeeOf, Key, Of,
                        BillsOf, Active
  <1> QED BY <1>1, <1>2, <1>3, <1>5, <1>6, <1>7, <1>8, <1>9, <1>10, MonthlyCommitsSettles,
             WebhookCommitsSettles, WebhookLocksSettles DEF Next

\* FeesFollowBills, for any payments, schools, days and server processes: a fee leaves
\* "pending" by way of an invoice, and is paid by way of a paid one.
THEOREM FeesSettledByBills == Spec => []FeesFollowBills
  <1>1. Init => TypeOK /\ ChargeInv /\ BillInv /\ SettleInv
    BY InitTyped, InitCharge, InitBill, InitSettle
  <1>2. TypeOK /\ ChargeInv /\ BillInv /\ SettleInv /\ [Next]_vars
          => (TypeOK /\ ChargeInv /\ BillInv /\ SettleInv)'
    BY TypeStep, ChargeStep, BillStep, SettleStep
  <1>3. SettleInv => FeesFollowBills
    BY DEF SettleInv
  <1> QED BY <1>1, <1>2, <1>3, PTL DEF Spec
-----------------------------------------------------------------------------
(* How far the damage of overlapping jobs goes *)

BillingInv == TypeOK /\ ChargeInv /\ BillInv /\ SettleInv

\* What the four parts say of billing they say together.
LEMMA BillingHolds == Spec => []BillingInv
  <1>1. Init => BillingInv
    BY InitTyped, InitCharge, InitBill, InitSettle DEF BillingInv
  <1>2. BillingInv /\ [Next]_vars => BillingInv'
    BY TypeStep, ChargeStep, BillStep, SettleStep DEF BillingInv
  <1> QED BY <1>1, <1>2, PTL DEF Spec

\* The fee of a payment made online is committed with it: no job was at work on it.
OnlineMetNobody == \A f \in fees : f.by = Webhook => f.met = {}

\* Every step keeps it.
LEMMA OnlineStep ==
  ASSUME TypeOK, OnlineMetNobody, [Next]_vars
  PROVE  OnlineMetNobody'
  <1>1. CASE UNCHANGED fees
    BY <1>1 DEF OnlineMetNobody
  <1>2. ASSUME NEW p \in Payments, PayOnline(p)
        PROVE  OnlineMetNobody'
    BY <1>2 DEF PayOnline, Fee, OnlineMetNobody
  <1>3. ASSUME NEW s \in Schedulers, DailyCommits(s)
        PROVE  OnlineMetNobody'
    BY <1>3, WebhookIsNoScheduler DEF DailyCommits, Fee, OnlineMetNobody
  <1>4. ASSUME NEW K, NEW status, fees' = {After(f, K, status) : f \in fees}
        PROVE  OnlineMetNobody'
    BY <1>4, StatusChanges DEF OnlineMetNobody, TypeOK
  <1>5. ASSUME NEW s \in Schedulers, MonthlyCommits(s)
        PROVE  OnlineMetNobody'
    BY <1>4, <1>5 DEF MonthlyCommits, After
  <1>6. ASSUME NEW w \in paying, WebhookCommits(w)
        PROVE  OnlineMetNobody'
    BY <1>4, <1>6 DEF WebhookCommits, After
  <1>7. CASE \/ \E p \in Payments, d \in Days : PayAtDesk(p, d)
             \/ \E s \in Schedulers :
                  \/ DailyStarts(s) \/ DailyDies(s) \/ \E p \in Payments : Charge(s, p)
                  \/ MonthlyStarts(s) \/ ReadFees(s) \/ Write(s) \/ MonthlyDies(s)
                  \/ \E school \in Schools : BillNext(s, school)
             \/ \E b \in bills : WebhookLocks(b)
             \/ \E w \in paying : WebhookFails(w)
             \/ Turn
             \/ UNCHANGED vars
    <2>1. UNCHANGED fees
      BY <1>7 DEF PayAtDesk, DailyStarts, DailyDies, Charge, MonthlyStarts, ReadFees, Write,
                  MonthlyDies, BillNext, WebhookLocks, WebhookFails, Turn, vars
    <2> QED BY <1>1, <2>1
  <1> QED BY <1>2, <1>3, <1>5, <1>6, <1>7 DEF Next

\* Two fees of a payment, and two invoices of a month, come from different processes;
\* a payment made online is in no such pair.
FromTwoProcesses ==
    /\ \A f, g \in fees : f # g /\ f.pay = g.pay
                            => f.by # g.by /\ f.by \in Schedulers /\ g.by \in Schedulers
    /\ \A a, b \in bills : a # b /\ a.school = b.school /\ a.month = b.month => a.by # b.by

\* One process never charges a payment twice or bills a month twice, on whatever days
\* its jobs run, die and run again; a fee that a gateway's webhook committed stays alone.
THEOREM DoubledByTwoProcesses == Spec => []FromTwoProcesses
  <1>1. Init => OnlineMetNobody
    BY DEF Init, OnlineMetNobody
  <1>2. TypeOK /\ OnlineMetNobody /\ [Next]_vars => OnlineMetNobody'
    BY OnlineStep
  <1>3. BillingInv /\ OnlineMetNobody => FromTwoProcesses
    <2> SUFFICES ASSUME BillingInv, OnlineMetNobody PROVE FromTwoProcesses
      OBVIOUS
    <2>1. ASSUME NEW f \in fees, NEW g \in fees, f # g, f.pay = g.pay
          PROVE  f.by # g.by /\ f.by \in Schedulers /\ g.by \in Schedulers
      <3>1. f.by # g.by
        BY <2>1 DEF BillingInv, ChargeInv, FeeKeysUnique, Key
      <3>2. f.by \in g.met \/ g.by \in f.met
        BY <2>1 DEF BillingInv, ChargeInv, ChargedTwiceTogether
      <3>3. /\ f.by \in Schedulers \union {Webhook} /\ f.met \subseteq Schedulers
            /\ g.by \in Schedulers \union {Webhook} /\ g.met \subseteq Schedulers
        BY DEF BillingInv, TypeOK, FeeType
      <3> QED BY <3>1, <3>2, <3>3, WebhookIsNoScheduler DEF OnlineMetNobody
    <2>2. ASSUME NEW a \in bills, NEW b \in bills, a # b, a.school = b.school, a.month = b.month
          PROVE  a.by # b.by
      BY <2>2 DEF BillingInv, BillInv, BillKeysUnique, Of
    <2> QED BY <2>1, <2>2 DEF FromTwoProcesses
  <1>4. BillingInv => TypeOK
    BY DEF BillingInv
  <1> QED BY <1>1, <1>2, <1>3, <1>4, BillingHolds, PTL DEF Spec

\* Job s and the one that made an invoice with the fee f were under way together.
Overlapped(s, f) ==
    \E b \in bills : Key(f) \in b.fees /\ b.by # s /\ (b.by \in monthly[s].met \/ s \in b.met)

\* What is paid stays paid; but for a fee that the commit of a monthly job writes over.
PaidStays ==
    /\ \A b \in bills : b.status = "paid" => b \in bills'
    /\ \A f \in fees : f.status = "paid" =>
         f \in fees' \/ \E s \in Schedulers : MonthlyCommits(s) /\ Overlapped(s, f)

\* A job that is about to bill a paid fee overlapped with one that billed it.
LEMMA RebilledTogether ==
  ASSUME BillingInv, NEW s \in Schedulers, Active(s), NEW f \in fees, f.status = "paid",
         NEW d \in monthly[s].draft, Key(f) \in d.fees
  PROVE  Overlapped(s, f)
  <1>1. PICK b \in bills : Key(f) \in b.fees
    BY DEF BillingInv, SettleInv, FeesFollowBills
  <1>2. PICK g \in fees : Key(g) = Key(f) /\ SchoolOf[g.pay] = b.school /\ g.month = b.month
    BY <1>1 DEF BillingInv, SettleInv, FeesReferred, IsFeeOf
  <1>3. PICK h \in fees : Key(h) = Key(f) /\ SchoolOf[h.pay] = d.school /\ h.month = monthly[s].month
    BY DEF BillingInv, SettleInv, FeesReferred, IsFeeOf
  <1>4. g = f /\ h = f
    BY <1>2, <1>3 DEF BillingInv, ChargeInv, FeeKeysUnique
  <1>5. b.school = d.school /\ b.month = monthly[s].month /\ d.school \in InHand(s)
    BY <1>2, <1>3, <1>4 DEF InHand
  <1>6. b.by # s /\ (b.by \in monthly[s].met \/ s \in b.met)
    BY <1>5 DEF BillingInv, BillInv, BilledMeanwhile
  <1> QED BY <1>1, <1>6 DEF Overlapped

\* A paid fee is written over only by the commit of an overlapping job.
LEMMA PaidStaysStep ==
  ASSUME BillingInv, [Next]_vars
  PROVE  PaidStays
  <1>1. CASE fees \subseteq fees' /\ bills \subseteq bills'
    BY <1>1 DEF PaidStays
  <1>2. ASSUME NEW s \in Schedulers, MonthlyCommits(s)
        PROVE  PaidStays
    <2> DEFINE K == UNION {d.fees : d \in monthly[s].draft}
    <2>1. /\ Active(s) /\ bills \subseteq bills'
          /\ fees' = {After(f, K, "invoiced") : f \in fees}
      BY <1>2 DEF MonthlyCommits, Active, After
    <2>2. ASSUME NEW f \in fees, f.status = "paid"
          PROVE  f \in fees' \/ Overlapped(s, f)
      <3>1. CASE Key(f) \notin K
        BY <2>1, <3>1 DEF After
      <3>2. CASE Key(f) \in K
        BY <2>1, <2>2, <3>2, RebilledTogether
      <3> QED BY <3>1, <3>2
    <2> QED BY <1>2, <2>1, <2>2 DEF PaidStays
  <1>3. ASSUME NEW w \in paying, WebhookCommits(w)
        PROVE  PaidStays
    <2>1. ASSUME NEW b \in bills, b.status = "paid"
          PROVE  b \in bills'
      <3>1. b = [b EXCEPT !.status = "paid"]
        BY <2>1 DEF BillingInv, TypeOK, BillType
      <3> QED BY <1>3, <3>1 DEF WebhookCommits
    <2>2. ASSUME NEW f \in fees, f.status = "paid"
          PROVE  f \in fees'
      <3>1. f = [f EXCEPT !.status = "paid"]
        BY <2>2 DEF BillingInv, TypeOK, FeeType
      <3> QED BY <1>3, <3>1 DEF WebhookCommits
    <2> QED BY <2>1, <2>2 DEF PaidStays
  <1>4. CASE \/ \E p \in Payments : PayOnline(p) \/ \E d \in Days : PayAtDesk(p, d)
             \/ \E s \in Schedulers :
                  \/ DailyStarts(s) \/ DailyCommits(s) \/ DailyDies(s) \/ \E p \in Payments : Charge(s, p)
                  \/ MonthlyStarts(s) \/ ReadFees(s) \/ Write(s) \/ MonthlyDies(s)
                  \/ \E school \in Schools : BillNext(s, school)
             \/ \E b \in bills : WebhookLocks(b)
             \/ \E w \in paying : WebhookFails(w)
             \/ Turn
             \/ UNCHANGED vars
    <2>1. fees \subseteq fees' /\ bills' = bills
      BY <1>4 DEF PayOnline, PayAtDesk, DailyStarts, DailyCommits, DailyDies, Charge, MonthlyStarts,
                  ReadFees, Write, MonthlyDies, BillNext, WebhookLocks, WebhookFails, Turn, vars
    <2> QED BY <1>1, <2>1
  <1> QED BY <1>2, <1>3, <1>4 DEF Next

\* A paid invoice stays paid.  A paid fee stays paid but for one race: a monthly job
\* that overlapped with the one that billed the fee commits after the school has paid
\* (the unconditional write of generate_monthly_invoice).
THEOREM PaymentsStand == Spec => [][PaidStays]_vars
  <1>1. BillingInv /\ [Next]_vars => [PaidStays]_vars
    BY PaidStaysStep
  <1> QED BY <1>1, BillingHolds, PTL DEF Spec

AllSingle ==
    /\ \A f, g \in fees : f.pay = g.pay => f = g
    /\ \A a, b \in bills : a.school = b.school /\ a.month = b.month => a = b

NothingUnpaid ==
    \A f \in fees : f.status = "paid" => f \in fees'

\* One process with a scheduler is enough for all of it: no payment is charged twice,
\* no month billed twice, and what is paid stays so, though gateways call any number of
\* webhooks meanwhile and the process may die at any step.
THEOREM OneSchedulerSuffices ==
  ASSUME \A s, t \in Schedulers : s = t
  PROVE  Spec => []AllSingle /\ [][NothingUnpaid]_vars
  <1>1. TypeOK /\ FromTwoProcesses => AllSingle
    BY DEF TypeOK, FromTwoProcesses, AllSingle, BillType
  <1>2. TypeOK /\ [PaidStays]_vars => [NothingUnpaid]_vars
    <2> SUFFICES ASSUME TypeOK, PaidStays PROVE NothingUnpaid
      OBVIOUS
    <2>1. \A s \in Schedulers, f \in fees : ~Overlapped(s, f)
      BY DEF TypeOK, BillType, Overlapped
    <2> QED BY <2>1 DEF PaidStays, NothingUnpaid
  <1> QED BY <1>1, <1>2, TypeCorrect, DoubledByTwoProcesses, PaymentsStand, PTL
=============================================================================
