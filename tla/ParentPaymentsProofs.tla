------------------------ MODULE ParentPaymentsProofs ------------------------
(***************************************************************************)
(* The safety of online payments for any number of sessions, refunds,      *)
(* invoices and handlers.  A handler acts on what it read some time ago;   *)
(* HandlersOK is what of that is still true when it acts, HandlersApart    *)
(* what the row locks keep from two handlers at once.                      *)
(***************************************************************************)
EXTENDS ParentPayments, FiniteSetTheorems, TLAPS

SessionsOK ==
    \A s \in Sessions :
        /\ ses[s].status # "none" => ses[s].amt \in Amounts
        /\ checkout[s] # "none" => ses[s].status # "none"

\* Payments are numbered 1, 2, ... and each has its receipt.
Numbering ==
    /\ IsFiniteSet(payments)
    /\ \A p \in payments : p.no \in 1..Cardinality(payments) /\ receipts[p.no] # "none"

\* Whoever drew a number left the row of its sequence behind.
RowsOK ==
    /\ payments # {} => "PAY" \in rows
    /\ \A r \in Refunds : refunds[r].status # "none" => "RFD" \in rows

RefundsOK ==
    \A r \in Refunds :
        /\ refunds[r].status # "none" => \E p \in payments : p.no = refunds[r].no
        /\ applied[r] > 0 => refunds[r].status # "none"

SessionLocks == {"number", "insert"}
WithoutRow == {"insert", "lost"}
RefundDraws == {"refundInsert", "refundLost"}
RefundStages == {"approve", "process", "processed"}

\* What a handler has read and may still rely on.  A receipt it saw cancelled
\* is still cancelled; one it saw active may not be active any more.
ReadOK(x) ==
    /\ x.at \in SessionStages => ses[x.ses].status # "none"
    /\ x.at \in RefundStages => refunds[x.ref].status # "none"
    /\ x.at = "processed" /\ ~x.active => receipts[refunds[x.ref].no] = "cancelled"
    /\ x.at \in RefundDraws => \E p \in payments : p.no = x.no

\* What its lock, or the one try to insert a missing row, keeps from the others.
LockOK(x) ==
    /\ x.at = "number" => \A p \in payments : p.ses = x.ses => ~p.kept
    /\ x.at = "insert" => \A p \in payments : p.ses # x.ses
    /\ x.at = "lost" => "PAY" \in rows /\ \A p \in payments : p.ses = x.ses => p.kept
    /\ x.at = "refundInsert" =>
          \A r \in Refunds : refunds[r].status # "none" => refunds[r].no # x.no
    /\ x.at = "refundLost" =>
          /\ "RFD" \in rows
          /\ \A r \in Refunds :
                refunds[r].status # "none" /\ refunds[r].no = x.no => refunds[r].kept

HandlersOK == \A h \in Handlers : ReadOK(handler[h]) /\ LockOK(handler[h])

\* One handler has a session locked, one works without the row of its number
\* for it, and one for a payment.
Apart(x, y) ==
    /\ x.at \in SessionLocks /\ y.at \in SessionLocks => x.ses # y.ses
    /\ x.at \in WithoutRow /\ y.at \in WithoutRow => x.ses # y.ses
    /\ x.at \in RefundDraws /\ y.at \in RefundDraws => x.no # y.no

HandlersApart == \A g, h \in Handlers : g # h => Apart(handler[g], handler[h])

Inv ==
    /\ TypeOK
    /\ SessionsOK
    /\ Numbering
    /\ RowsOK
    /\ RefundsOK
    /\ HandlersOK
    /\ HandlersApart
    /\ SecondPaymentOnlyFromLostLock
    /\ CompletedIsPaid
    /\ ReceiptFollowsRefund
    /\ SecondRefundOnlyFromLostLock

-----------------------------------------------------------------------------
(* Handlers *)

LEMMA HandlingShape ==
    ASSUME NEW x \in Handling
    PROVE  /\ x.at \in SessionStages => x.ses \in Sessions
           /\ x.at \in RefundDraws => x.no \in Numbers /\ x.amt \in Amounts
           /\ x.at \in RefundStages => x.ref \in Refunds
           /\ x.at = "processed" => x.active \in BOOLEAN /\ x.saw \in Int
           /\ x.at \in {"idle"} \union SessionStages \union RefundDraws \union RefundStages
BY DEF Handling, Idle, SessionStages, RefundDraws, RefundStages

\* A handler that is idle, or ends, relies on nothing.
LEMMA IdleIsOK ==
    /\ Idle \in Handling /\ ReadOK(Idle) /\ LockOK(Idle)
    /\ \A x : Apart(Idle, x)
BY DEF Idle, Handling, ReadOK, LockOK, Apart, SessionStages, SessionLocks, WithoutRow,
   RefundDraws, RefundStages

\* What a step may do to the books without disturbing a handler at y: records
\* only move forward, and none is added that y thought it would keep away.
Forward ==
    /\ \A s \in Sessions : ses[s].status # "none" => ses'[s].status # "none"
    /\ \A r \in Refunds : refunds[r].status # "none" =>
          /\ refunds'[r].status # "none" /\ refunds'[r].no = refunds[r].no
          /\ refunds'[r].kept = refunds[r].kept
          /\ receipts[refunds[r].no] = "cancelled" => receipts'[refunds[r].no] = "cancelled"
    /\ payments \subseteq payments' /\ rows \subseteq rows'

Spares(y) ==
    /\ \A p \in payments' :
          \/ p \in payments
          \/ y.at \in SessionLocks \union WithoutRow => y.ses # p.ses
          \/ y.at = "number" /\ ~p.kept
          \/ y.at = "lost" /\ p.kept
    /\ \A r \in Refunds : refunds'[r].status # "none" =>
          \/ refunds[r].status # "none"
          \/ y.at \in RefundDraws => y.no # refunds'[r].no
          \/ y.at = "refundLost" /\ refunds'[r].kept

LEMMA HandlerKept ==
    ASSUME Inv, Forward, NEW k \in Handlers, handler'[k] = handler[k], Spares(handler[k])
    PROVE  ReadOK(handler[k])' /\ LockOK(handler[k])'
<1> DEFINE y == handler[k]
<1>1. ReadOK(y) /\ LockOK(y) /\ y \in Handling
  BY DEF Inv, HandlersOK, TypeOK
<1>2. /\ y.at \in SessionStages => y.ses \in Sessions
      /\ y.at \in RefundStages => y.ref \in Refunds
  BY <1>1, HandlingShape
<1>3. ReadOK(handler[k])'
  BY <1>1, <1>2 DEF Forward, ReadOK, RefundStages
<1>4. LockOK(handler[k])'
  <2>1. /\ y.at = "number" => \A p \in payments' : p.ses = y.ses => ~p.kept
        /\ y.at = "insert" => \A p \in payments' : p.ses # y.ses
        /\ y.at = "lost" => "PAY" \in rows' /\ \A p \in payments' : p.ses = y.ses => p.kept
    BY <1>1 DEF Forward, Spares, LockOK, SessionLocks, WithoutRow
  <2>2. /\ y.at = "refundInsert" =>
              \A r \in Refunds : refunds'[r].status # "none" => refunds'[r].no # y.no
        /\ y.at = "refundLost" =>
              /\ "RFD" \in rows'
              /\ \A r \in Refunds :
                    refunds'[r].status # "none" /\ refunds'[r].no = y.no => refunds'[r].kept
    BY <1>1 DEF Forward, Spares, LockOK, RefundDraws
  <2> QED BY <2>1, <2>2 DEF LockOK
<1> QED BY <1>3, <1>4

\* A step of one handler leaves what the others rely on.
LEMMA HandlersKept ==
    ASSUME Inv, Forward, NEW h \in Handlers, NEW x \in Handling, Goes(h, x),
           ReadOK(x)', LockOK(x)',
           \A k \in Handlers : k # h => Spares(handler[k]) /\ Apart(x, handler[k])
    PROVE  HandlersOK' /\ HandlersApart' /\ handler' \in [Handlers -> Handling]
<1>1. handler' \in [Handlers -> Handling]
      /\ \A k \in Handlers : handler'[k] = IF k = h THEN x ELSE handler[k]
  BY DEF Goes, Inv, TypeOK
<1>2. ASSUME NEW k \in Handlers PROVE (ReadOK(handler[k]) /\ LockOK(handler[k]))'
  <2>1. CASE k = h
    <3>1. handler'[k] = x
      BY <1>1, <2>1
    <3> QED BY <3>1 DEF ReadOK, LockOK
  <2>2. CASE k # h
    BY <1>1, <2>2, HandlerKept
  <2> QED BY <2>1, <2>2
<1>3. HandlersApart'
  <2> SUFFICES ASSUME NEW g \in Handlers, NEW k \in Handlers, g # k
               PROVE  Apart(handler'[g], handler'[k])
    BY DEF HandlersApart, Apart
  <2>1. CASE g # h /\ k # h
    BY <1>1, <2>1 DEF Inv, HandlersApart
  <2>2. CASE g = h
    BY <1>1, <2>2
  <2>3. CASE k = h
    BY <1>1, <2>3 DEF Apart
  <2> QED BY <2>1, <2>2, <2>3
<1> QED BY <1>1, <1>2, <1>3 DEF HandlersOK

\* The same for a step that moves no handler.
LEMMA HandlersStay ==
    ASSUME Inv, Forward, handler' = handler, \A k \in Handlers : Spares(handler[k])
    PROVE  HandlersOK' /\ HandlersApart'
<1>1. HandlersOK'
  BY HandlerKept DEF HandlersOK
<1>2. HandlersApart'
  BY DEF Inv, HandlersApart, Apart
<1> QED BY <1>1, <1>2

\* Without a new record nobody is disturbed.
LEMMA NothingNew ==
    ASSUME payments' = payments,
           \A r \in Refunds : refunds'[r].status # "none" => refunds[r].status # "none",
           NEW y
    PROVE  Spares(y)
BY DEF Spares

Ledger == <<books, refunds, applied>>

\* A step of a handler that writes nothing, or only the checkout.
LEMMA ReadStep ==
    ASSUME Inv, NEW h \in Handlers, NEW x \in Handling, Goes(h, x), ReadOK(x), LockOK(x),
           \A k \in Handlers : k # h => Apart(x, handler[k]),
           UNCHANGED <<ses, Ledger>>,
           checkout' \in [Sessions -> {"none", "open", "charged"}],
           \A s \in Sessions : checkout'[s] # "none" => ses[s].status # "none"
    PROVE  Inv'
<1>1. ReadOK(x)' /\ LockOK(x)'
  BY DEF ReadOK, LockOK, Ledger, books
<1>2. Forward /\ \A k \in Handlers : Spares(handler[k])
  BY NothingNew DEF Forward, Ledger, books
<1>3. HandlersOK' /\ HandlersApart' /\ handler' \in [Handlers -> Handling]
  BY <1>1, <1>2, HandlersKept
<1>4. TypeOK'
  BY <1>3 DEF Inv, TypeOK, Ledger, books
<1>5. SessionsOK' /\ Numbering' /\ RowsOK' /\ RefundsOK'
  BY DEF Inv, SessionsOK, Numbering, RowsOK, RefundsOK, Ledger, books
<1>6. /\ SecondPaymentOnlyFromLostLock' /\ CompletedIsPaid' /\ ReceiptFollowsRefund'
      /\ SecondRefundOnlyFromLostLock'
  BY DEF Inv, SecondPaymentOnlyFromLostLock, CompletedIsPaid, ReceiptFollowsRefund,
     SecondRefundOnlyFromLostLock, BothPending, Ledger, books
<1> QED BY <1>3, <1>4, <1>5, <1>6 DEF Inv

-----------------------------------------------------------------------------
(* Sessions *)

LEMMA CreateSessionStep ==
    ASSUME Inv, NEW s \in Sessions, NEW inv \in Invoices \union {NoInvoice},
           NEW amt \in Amounts, CreateSession(s, inv, amt)
    PROVE  Inv'
<1> DEFINE x == [status |-> "pending", inv |-> inv, amt |-> amt]
<1>1. /\ ses' = [ses EXCEPT ![s] = x] /\ ses[s].status = "none"
      /\ UNCHANGED <<checkout, books, refunds, handler, applied>>
  BY DEF CreateSession
<1>2. x \in SessionRecord /\ ses \in [Sessions -> SessionRecord]
  BY DEF SessionRecord, SessionStatus, Inv, TypeOK
<1>3. ses' \in [Sessions -> SessionRecord]
  BY <1>1, <1>2
<1>4. TypeOK'
  BY <1>1, <1>3 DEF Inv, TypeOK, books
<1>5. \A t \in Sessions : ses'[t] = IF t = s THEN x ELSE ses[t]
  BY <1>1, <1>2
<1>6. SessionsOK'
  BY <1>1, <1>5 DEF Inv, SessionsOK
<1>7. HandlersOK' /\ HandlersApart'
  <2>1. Forward /\ \A k \in Handlers : Spares(handler[k])
    BY <1>1, <1>5, NothingNew DEF Forward, books
  <2> QED BY <1>1, <2>1, HandlersStay
<1>8. CompletedIsPaid'
  BY <1>1, <1>5 DEF Inv, CompletedIsPaid, books
<1>9. Numbering' /\ RowsOK' /\ RefundsOK' /\ SecondPaymentOnlyFromLostLock'
      /\ ReceiptFollowsRefund' /\ SecondRefundOnlyFromLostLock'
  BY <1>1 DEF Inv, Numbering, RowsOK, RefundsOK, SecondPaymentOnlyFromLostLock,
     ReceiptFollowsRefund, SecondRefundOnlyFromLostLock, BothPending, books
<1> QED BY <1>4, <1>6, <1>7, <1>8, <1>9 DEF Inv

LEMMA InitializeCommitStep ==
    ASSUME Inv, NEW h \in Handlers, InitializeCommit(h)
    PROVE  Inv'
<1> DEFINE s == handler[h].ses
<1>0. handler[h] \in Handling /\ ReadOK(handler[h])
  BY DEF Inv, TypeOK, HandlersOK
<1>1. /\ ses' = [ses EXCEPT ![s].status = "processing"]
      /\ Ends(h) /\ UNCHANGED <<checkout, books, refunds, applied>>
      /\ handler[h].at = "initialized"
  BY DEF InitializeCommit
<1>2. s \in Sessions /\ ses[s].status # "none" /\ ses \in [Sessions -> SessionRecord]
  BY <1>0, <1>1, HandlingShape DEF SessionStages, ReadOK, Inv, TypeOK
<1>3. \A t \in Sessions : /\ ses'[t].status = IF t = s THEN "processing" ELSE ses[t].status
                          /\ ses'[t].amt = ses[t].amt
  BY <1>1, <1>2 DEF SessionRecord
<1>4. ses' \in [Sessions -> SessionRecord]
  BY <1>1, <1>2 DEF SessionRecord, SessionStatus
<1>5. HandlersOK' /\ HandlersApart' /\ handler' \in [Handlers -> Handling]
  <2>1. ReadOK(Idle)' /\ LockOK(Idle)'
    BY IdleIsOK, PTL
  <2>2. Forward /\ \A k \in Handlers : Spares(handler[k])
    BY <1>1, <1>3, NothingNew DEF Forward, books
  <2>3. Goes(h, Idle)
    BY <1>1 DEF Ends
  <2> QED BY <2>1, <2>2, <2>3, IdleIsOK, HandlersKept
<1>6. TypeOK'
  BY <1>1, <1>4, <1>5 DEF Inv, TypeOK, books
<1>7. SessionsOK'
  BY <1>1, <1>2, <1>3 DEF Inv, SessionsOK
<1>8. CompletedIsPaid'
  BY <1>1, <1>3 DEF Inv, CompletedIsPaid, books
<1>9. Numbering' /\ RowsOK' /\ RefundsOK' /\ SecondPaymentOnlyFromLostLock'
      /\ ReceiptFollowsRefund' /\ SecondRefundOnlyFromLostLock'
  BY <1>1 DEF Inv, Numbering, RowsOK, RefundsOK, SecondPaymentOnlyFromLostLock,
     ReceiptFollowsRefund, SecondRefundOnlyFromLostLock, BothPending, books
<1> QED BY <1>5, <1>6, <1>7, <1>8, <1>9 DEF Inv

\* Nothing the handlers rely on, and no record, is touched.
LEMMA OutsideStep ==
    ASSUME Inv, UNCHANGED <<ses, payments, receipts, refunds, handler, applied>>,
           checkout' \in [Sessions -> {"none", "open", "charged"}],
           \A s \in Sessions : checkout'[s] # "none" => ses[s].status # "none",
           (paid \in [Invoices -> Int])', (desk \in [Invoices -> Int])',
           feeAccounts' \in BOOLEAN, rows \subseteq rows', rows' \subseteq Sequences
    PROVE  Inv'
<1>1. HandlersOK' /\ HandlersApart'
  <2>1. Forward /\ \A k \in Handlers : Spares(handler[k])
    BY NothingNew DEF Forward
  <2> QED BY <2>1, HandlersStay
<1>2. TypeOK'
  BY DEF Inv, TypeOK
<1>3. SessionsOK' /\ Numbering' /\ RowsOK' /\ RefundsOK'
  BY DEF Inv, SessionsOK, Numbering, RowsOK, RefundsOK
<1>4. /\ SecondPaymentOnlyFromLostLock' /\ CompletedIsPaid' /\ ReceiptFollowsRefund'
      /\ SecondRefundOnlyFromLostLock'
  BY DEF Inv, SecondPaymentOnlyFromLostLock, CompletedIsPaid, ReceiptFollowsRefund,
     SecondRefundOnlyFromLostLock, BothPending
<1> QED BY <1>1, <1>2, <1>3, <1>4 DEF Inv

\* The webhook records a payment: numbers, receipts and the session agree, and
\* no other payment of the session was made in the same way.
LEMMA WebhookRecordsStep ==
    ASSUME Inv, NEW h \in Handlers, WebhookRecords(h)
    PROVE  Inv'
<1> DEFINE y == handler[h]
           s == y.ses
           kept == y.at # "lost"
           n == Cardinality(payments) + 1
           p == [no |-> n, ses |-> s, inv |-> ses[s].inv, amt |-> ses[s].amt, kept |-> kept]
<1>0. y \in Handling /\ ReadOK(y) /\ LockOK(y)
  BY DEF Inv, TypeOK, HandlersOK
<1>1. /\ HasNumber(h) /\ n \in Numbers
      /\ ses' = IF kept THEN [ses EXCEPT ![s].status = "completed"] ELSE ses
      /\ payments' = payments \union {p}
      /\ receipts' = [receipts EXCEPT ![n] = "active"]
      /\ paid' = IF ses[s].inv = NoInvoice THEN paid
                 ELSE [paid EXCEPT ![ses[s].inv] = @ + ses[s].amt]
      /\ rows' = rows \union {"PAY"}
      /\ Ends(h) /\ UNCHANGED <<checkout, desk, feeAccounts, refunds, applied>>
  BY DEF WebhookRecords, RecordPayment, NewPayment
<1>a. y.at \in SessionLocks \union WithoutRow
  BY <1>1 DEF HasNumber, SessionLocks, WithoutRow
<1>2. s \in Sessions /\ ses[s].status # "none" /\ ses \in [Sessions -> SessionRecord]
  BY <1>0, <1>a, HandlingShape
     DEF SessionLocks, WithoutRow, SessionStages, ReadOK, Inv, TypeOK
<1>3. ses[s].amt \in Amounts /\ ses[s].inv \in Invoices \union {NoInvoice}
  BY <1>2 DEF Inv, SessionsOK, SessionRecord
<1>4. \A t \in Sessions :
         /\ ses'[t].status = IF t = s /\ kept THEN "completed" ELSE ses[t].status
         /\ ses'[t].amt = ses[t].amt
  BY <1>1, <1>2 DEF SessionRecord
<1>5. Cardinality(payments) \in Nat /\ IsFiniteSet(payments)
  BY FS_CardinalityType DEF Inv, Numbering
<1>6. receipts \in [Numbers -> {"none", "active", "cancelled"}]
  BY DEF Inv, TypeOK
<1>7. \A q \in payments : q.no \in Numbers /\ q.no \in Nat /\ q.no < n
  <2>1. \A q \in payments : q.no \in Numbers /\ q.no \in 1..Cardinality(payments)
    BY DEF Inv, Numbering, TypeOK, PaymentRecord
  <2> QED BY <1>5, <2>1
<1>8. \A k \in Numbers : receipts'[k] = IF k = n THEN "active" ELSE receipts[k]
  BY <1>1, <1>6
<1>9. p.no = n /\ p.ses = s /\ p.kept = kept
  OBVIOUS
<1>10. \A r \in Refunds : refunds[r].status # "none" =>
          refunds[r].no \in Numbers /\ refunds[r].no # n
  BY <1>5, <1>7 DEF Inv, RefundsOK
<1>b. \A q \in payments : q.ses = s => q.kept # kept
  <2>1. \A q \in payments : q.kept \in BOOLEAN
    BY DEF Inv, TypeOK, PaymentRecord
  <2> QED BY <1>0, <1>a, <2>1 DEF LockOK, SessionLocks, WithoutRow
<1>11. HandlersOK' /\ HandlersApart' /\ handler' \in [Handlers -> Handling]
  <2>1. ReadOK(Idle)' /\ LockOK(Idle)'
    BY IdleIsOK, PTL
  <2>2. Forward
    <3>1. \A r \in Refunds :
             refunds[r].status # "none" /\ receipts[refunds[r].no] = "cancelled"
                => receipts'[refunds[r].no] = "cancelled"
      BY <1>8, <1>10
    <3>2. \A t \in Sessions : ses[t].status # "none" => ses'[t].status # "none"
      BY <1>4
    <3>3. refunds' = refunds /\ payments \subseteq payments' /\ rows \subseteq rows'
      BY <1>1
    <3> QED BY <3>1, <3>2, <3>3 DEF Forward
  <2>3. ASSUME NEW k \in Handlers, k # h PROVE Spares(handler[k])
    <3>1. Apart(y, handler[k])
      BY <2>3 DEF Inv, HandlersApart
    <3>2. \/ handler[k].at \in SessionLocks \union WithoutRow => handler[k].ses # s
          \/ handler[k].at = "number" /\ ~kept
          \/ handler[k].at = "lost" /\ kept
      BY <1>a, <3>1 DEF Apart, SessionLocks, WithoutRow
    <3>3. refunds' = refunds
      BY <1>1
    <3> QED BY <1>1, <1>9, <3>2, <3>3 DEF Spares
  <2>4. Goes(h, Idle)
    BY <1>1 DEF Ends
  <2> QED BY <2>1, <2>2, <2>3, <2>4, IdleIsOK, HandlersKept
<1>12. TypeOK'
  <2>1. ses' \in [Sessions -> SessionRecord]
    BY <1>1, <1>2 DEF SessionRecord, SessionStatus
  <2>2. p \in PaymentRecord
    BY <1>1, <1>2, <1>3 DEF PaymentRecord
  <2>3. receipts' \in [Numbers -> {"none", "active", "cancelled"}]
    BY <1>1, <1>6
  <2>4. paid' \in [Invoices -> Int]
    <3>1. ses[s].amt \in Int
      BY <1>3, AmountsAreIntegers
    <3>2. CASE ses[s].inv = NoInvoice
      BY <1>1, <3>2 DEF Inv, TypeOK
    <3>3. CASE ses[s].inv # NoInvoice
      <4>1. ses[s].inv \in Invoices /\ paid \in [Invoices -> Int]
        BY <1>3, <3>3 DEF Inv, TypeOK
      <4>2. paid[ses[s].inv] + ses[s].amt \in Int
        BY <3>1, <4>1
      <4> QED BY <1>1, <3>3, <4>1, <4>2
    <3> QED BY <3>2, <3>3
  <2>5. payments' \subseteq PaymentRecord /\ rows' \subseteq Sequences
    BY <1>1, <2>2 DEF Inv, TypeOK, Sequences
  <2> QED BY <1>1, <1>11, <2>1, <2>3, <2>4, <2>5 DEF Inv, TypeOK
<1>13. SessionsOK'
  BY <1>1, <1>2, <1>4 DEF Inv, SessionsOK
<1>14. Numbering'
  <2>1. p \notin payments
    BY <1>5, <1>7, <1>9
  <2>2. IsFiniteSet(payments') /\ Cardinality(payments') = n
    BY <1>1, <1>5, <2>1, FS_AddElement
  <2>3. ASSUME NEW q \in payments' PROVE q.no \in 1..n /\ receipts'[q.no] # "none"
    <3>1. CASE q \in payments
      BY <1>5, <1>7, <1>8, <3>1 DEF Inv, Numbering
    <3>2. CASE q = p
      BY <1>1, <1>5, <1>8, <1>9, <3>2
    <3> QED BY <1>1, <3>1, <3>2
  <2> QED BY <2>2, <2>3 DEF Numbering
<1>15. RefundsOK' /\ RowsOK'
  BY <1>1 DEF Inv, RefundsOK, RowsOK
<1>16. SecondPaymentOnlyFromLostLock'
  BY <1>1, <1>9, <1>b DEF Inv, SecondPaymentOnlyFromLostLock
<1>17. CompletedIsPaid'
  <2> SUFFICES ASSUME NEW t \in Sessions, ses'[t].status = "completed"
               PROVE  \E q \in payments' : q.ses = t /\ receipts'[q.no] # "none"
    BY DEF CompletedIsPaid
  <2>1. CASE t = s
    <3>1. p \in payments' /\ receipts'[n] = "active"
      BY <1>1, <1>8
    <3> QED BY <1>9, <2>1, <3>1
  <2>2. CASE t # s
    <3>1. PICK q \in payments : q.ses = t /\ receipts[q.no] # "none"
      BY <1>4, <2>2 DEF Inv, CompletedIsPaid
    <3> QED BY <1>1, <1>5, <1>7, <1>8, <3>1
  <2> QED BY <2>1, <2>2
<1>18. ReceiptFollowsRefund'
  <2> SUFFICES ASSUME NEW q \in payments'
               PROVE  receipts'[q.no] = "cancelled" <=>
                         \E r \in Refunds : refunds[r].no = q.no /\ applied[r] > 0
    BY <1>1 DEF ReceiptFollowsRefund
  <2>1. CASE q \in payments
    BY <1>5, <1>7, <1>8, <2>1 DEF Inv, ReceiptFollowsRefund
  <2>2. CASE q = p
    <3>1. receipts'[q.no] = "active"
      BY <1>1, <1>8, <1>9, <2>2
    <3>2. \A r \in Refunds : applied[r] > 0 => refunds[r].no # q.no
      BY <1>9, <1>10, <2>2 DEF Inv, RefundsOK
    <3> QED BY <3>1, <3>2
  <2> QED BY <1>1, <2>1, <2>2
<1>19. SecondRefundOnlyFromLostLock'
  BY <1>1 DEF Inv, SecondRefundOnlyFromLostLock, BothPending
<1> QED BY <1>11, <1>12, <1>13, <1>14, <1>15, <1>16, <1>17, <1>18, <1>19 DEF Inv

-----------------------------------------------------------------------------
(* Refunds *)

\* The request is stored where no other of its payment waits that was made in
\* the same way; x is what becomes of the handler that makes it, if one does.
LEMMA StoreRefundStep ==
    ASSUME Inv, NEW r \in Refunds, NEW n, NEW amt \in Amounts, NEW kept \in BOOLEAN,
           StoreRefund(r, n, amt, kept),
           \E p \in payments : p.no = n,
           \A q \in Refunds : refunds[q].status = "pending" /\ refunds[q].no = n
                                 => refunds[q].kept # kept,
           \A h \in Handlers :
              /\ handler'[h] \in {Idle, handler[h]}
              /\ handler'[h] = handler[h] /\ handler[h].at \in RefundDraws
                    => \/ handler[h].no # n
                       \/ handler[h].at = "refundLost" /\ kept,
           handler' \in [Handlers -> Handling]
    PROVE  Inv'
<1> DEFINE x == [status |-> "pending", no |-> n, amt |-> amt, kept |-> kept]
<1>1. /\ refunds[r].status = "none"
      /\ refunds' = [refunds EXCEPT ![r] = x]
      /\ rows' = rows \union {"RFD"}
      /\ UNCHANGED <<ses, checkout, payments, receipts, paid, desk, feeAccounts, applied>>
  BY DEF StoreRefund
<1>2. x \in RefundRecord /\ refunds \in [Refunds -> RefundRecord]
  BY DEF RefundRecord, RefundStatus, Inv, TypeOK, PaymentRecord
<1>3. refunds' \in [Refunds -> RefundRecord]
      /\ \A q \in Refunds : refunds'[q] = IF q = r THEN x ELSE refunds[q]
  BY <1>1, <1>2
<1>4. x.status = "pending" /\ x.no = n /\ x.kept = kept
  OBVIOUS
<1> HIDE DEF x
<1>5. Forward
  BY <1>1, <1>3 DEF Forward
<1>6. HandlersOK'
  <2> SUFFICES ASSUME NEW k \in Handlers PROVE (ReadOK(handler[k]) /\ LockOK(handler[k]))'
    BY DEF HandlersOK
  <2>1. CASE handler'[k] = Idle
    <3>1. (ReadOK(Idle) /\ LockOK(Idle))'
      BY IdleIsOK, PTL
    <3> QED BY <2>1, <3>1 DEF ReadOK, LockOK
  <2>2. CASE handler'[k] = handler[k]
    <3>1. Spares(handler[k])
      BY <1>1, <1>3, <1>4, <2>2 DEF Spares
    <3> QED BY <1>5, <2>2, <3>1, HandlerKept
  <2> QED BY <2>1, <2>2
<1>7. HandlersApart'
  <2>1. \A k \in Handlers : handler'[k] \in {Idle, handler[k]}
    OBVIOUS
  <2>2. ASSUME NEW g \in Handlers, NEW k \in Handlers, g # k
        PROVE  Apart(handler'[g], handler'[k])
    BY <2>1, <2>2 DEF Inv, HandlersApart, Apart, Idle, SessionLocks, WithoutRow, RefundDraws
  <2> QED BY <2>2 DEF HandlersApart, Apart
<1>8. TypeOK'
  BY <1>1, <1>3 DEF Inv, TypeOK, Sequences
<1>9. RefundsOK' /\ RowsOK'
  BY <1>1, <1>3, <1>4 DEF Inv, RefundsOK, RowsOK
<1>10. applied[r] = 0
  BY <1>1 DEF Inv, RefundsOK, TypeOK
<1>11. ReceiptFollowsRefund'
  BY <1>1, <1>3, <1>10 DEF Inv, ReceiptFollowsRefund
<1>12. SecondRefundOnlyFromLostLock'
  BY <1>1, <1>3, <1>4 DEF Inv, SecondRefundOnlyFromLostLock, BothPending
<1>13. SessionsOK' /\ Numbering' /\ SecondPaymentOnlyFromLostLock' /\ CompletedIsPaid'
  BY <1>1 DEF Inv, SessionsOK, Numbering, SecondPaymentOnlyFromLostLock, CompletedIsPaid
<1> QED BY <1>6, <1>7, <1>8, <1>9, <1>11, <1>12, <1>13 DEF Inv

LEMMA RequestRefundStep ==
    ASSUME Inv, NEW r \in Refunds, NEW p \in payments, NEW amt \in Amounts,
           RequestRefund(r, p, amt)
    PROVE  Inv'
<1>1. MayAsk(p.no) /\ StoreRefund(r, p.no, amt, TRUE) /\ handler' = handler
  BY DEF RequestRefund
<1>2. handler' \in [Handlers -> Handling]
  BY <1>1 DEF Inv, TypeOK
<1>3. ASSUME NEW h \in Handlers, handler[h].at \in RefundDraws
      PROVE  handler[h].no # p.no \/ handler[h].at = "refundLost"
  BY <1>1, <1>3 DEF MayAsk, PaymentIsFree, RefundDraws
<1>4. \A q \in Refunds : ~(refunds[q].status = "pending" /\ refunds[q].no = p.no)
  BY <1>1 DEF MayAsk
<1> QED BY <1>1, <1>2, <1>3, <1>4, StoreRefundStep

LEMMA RefundInsertsRowStep ==
    ASSUME Inv, NEW h \in Handlers, NEW r \in Refunds, RefundInsertsRow(h, r)
    PROVE  Inv'
<1> DEFINE y == handler[h]
<1>1. /\ y.at = "refundInsert" /\ StoreRefund(r, y.no, y.amt, TRUE)
      /\ handler' = [handler EXCEPT ![h] = Idle]
  BY DEF RefundInsertsRow, Ends, Goes
<1>2. y \in Handling /\ ReadOK(y) /\ LockOK(y) /\ handler \in [Handlers -> Handling]
  BY DEF Inv, TypeOK, HandlersOK
<1>3. y.amt \in Amounts /\ \E p \in payments : p.no = y.no
  BY <1>1, <1>2, HandlingShape DEF ReadOK, RefundDraws
<1>4. handler' \in [Handlers -> Handling]
  BY <1>1, <1>2, IdleIsOK
<1>5. ASSUME NEW k \in Handlers
      PROVE  /\ handler'[k] \in {Idle, handler[k]}
             /\ handler'[k] = handler[k] /\ handler[k].at \in RefundDraws => handler[k].no # y.no
  <2>1. CASE k = h
    BY <1>1, <1>2, <2>1 DEF Idle, RefundDraws
  <2>2. CASE k # h
    <3>1. Apart(y, handler[k])
      BY <2>2 DEF Inv, HandlersApart
    <3> QED BY <1>1, <1>2, <2>2, <3>1 DEF Apart, RefundDraws
  <2> QED BY <2>1, <2>2
<1>6. \A q \in Refunds : refunds[q].status = "pending" /\ refunds[q].no = y.no
                            => refunds[q].kept # TRUE
  BY <1>1, <1>2 DEF LockOK
<1> QED BY <1>1, <1>3, <1>4, <1>5, <1>6, StoreRefundStep

LEMMA RefundGoesOnStep ==
    ASSUME Inv, NEW h \in Handlers, NEW r \in Refunds, RefundGoesOn(h, r)
    PROVE  Inv'
<1> DEFINE y == handler[h]
<1>1. /\ y.at = "refundLost" /\ StoreRefund(r, y.no, y.amt, FALSE)
      /\ handler' = [handler EXCEPT ![h] = Idle]
  BY DEF RefundGoesOn, Ends, Goes
<1>2. y \in Handling /\ ReadOK(y) /\ LockOK(y) /\ handler \in [Handlers -> Handling]
  BY DEF Inv, TypeOK, HandlersOK
<1>3. y.amt \in Amounts /\ \E p \in payments : p.no = y.no
  BY <1>1, <1>2, HandlingShape DEF ReadOK, RefundDraws
<1>4. handler' \in [Handlers -> Handling]
  BY <1>1, <1>2, IdleIsOK
<1>5. ASSUME NEW k \in Handlers
      PROVE  /\ handler'[k] \in {Idle, handler[k]}
             /\ handler'[k] = handler[k] /\ handler[k].at \in RefundDraws => handler[k].no # y.no
  <2>1. CASE k = h
    BY <1>1, <1>2, <2>1 DEF Idle, RefundDraws
  <2>2. CASE k # h
    <3>1. Apart(y, handler[k])
      BY <2>2 DEF Inv, HandlersApart
    <3> QED BY <1>1, <1>2, <2>2, <3>1 DEF Apart, RefundDraws
  <2> QED BY <2>1, <2>2
<1>6. \A q \in Refunds : refunds[q].status = "pending" /\ refunds[q].no = y.no
                            => refunds[q].kept # FALSE
  BY <1>1, <1>2 DEF LockOK
<1> QED BY <1>1, <1>3, <1>4, <1>5, <1>6, StoreRefundStep

LEMMA ApproveCommitStep ==
    ASSUME Inv, NEW h \in Handlers, ApproveCommit(h)
    PROVE  Inv'
<1> DEFINE r == handler[h].ref
<1>0. handler[h] \in Handling /\ ReadOK(handler[h])
  BY DEF Inv, TypeOK, HandlersOK
<1>1. /\ handler[h].at = "approve"
      /\ refunds' = [refunds EXCEPT ![r].status = "approved"]
      /\ Ends(h) /\ UNCHANGED <<ses, checkout, books, applied>>
  BY DEF ApproveCommit
<1>2. r \in Refunds /\ refunds[r].status # "none" /\ refunds \in [Refunds -> RefundRecord]
  BY <1>0, <1>1, HandlingShape DEF ReadOK, RefundStages, Inv, TypeOK
<1>3. \A q \in Refunds : /\ refunds'[q].status = IF q = r THEN "approved" ELSE refunds[q].status
                         /\ refunds'[q].no = refunds[q].no /\ refunds'[q].kept = refunds[q].kept
  BY <1>1, <1>2 DEF RefundRecord
<1>4. refunds' \in [Refunds -> RefundRecord]
  BY <1>1, <1>2 DEF RefundRecord, RefundStatus
<1>5. HandlersOK' /\ HandlersApart' /\ handler' \in [Handlers -> Handling]
  <2>1. (ReadOK(Idle) /\ LockOK(Idle))'
    BY IdleIsOK, PTL
  <2>2. Forward /\ \A k \in Handlers : Spares(handler[k])
    BY <1>1, <1>2, <1>3, NothingNew DEF Forward, books
  <2>3. Goes(h, Idle)
    BY <1>1 DEF Ends
  <2> QED BY <2>1, <2>2, <2>3, IdleIsOK, HandlersKept
<1>6. TypeOK'
  BY <1>1, <1>4, <1>5 DEF Inv, TypeOK, books
<1>7. RefundsOK' /\ RowsOK'
  BY <1>1, <1>2, <1>3 DEF Inv, RefundsOK, RowsOK, books
<1>8. ReceiptFollowsRefund'
  BY <1>1, <1>3 DEF Inv, ReceiptFollowsRefund, books
<1>9. SecondRefundOnlyFromLostLock'
  BY <1>3 DEF Inv, SecondRefundOnlyFromLostLock, BothPending
<1>10. SessionsOK' /\ Numbering' /\ SecondPaymentOnlyFromLostLock' /\ CompletedIsPaid'
  BY <1>1 DEF Inv, SessionsOK, Numbering, SecondPaymentOnlyFromLostLock, CompletedIsPaid, books
<1> QED BY <1>5, <1>6, <1>7, <1>8, <1>9, <1>10 DEF Inv

\* The payment a refund names is there to be found.
LEMMA PaymentExists ==
    ASSUME Inv, NEW r \in Refunds, refunds[r].status # "none"
    PROVE  PaymentOf(r) \in payments /\ PaymentOf(r).no = refunds[r].no
BY DEF Inv, RefundsOK, PaymentOf

LEMMA ProcessCommitStep ==
    ASSUME Inv, NEW h \in Handlers, ProcessCommit(h)
    PROVE  Inv'
<1> DEFINE y == handler[h]
           r == y.ref
           n == refunds[r].no
           inv == PaymentOf(r).inv
<1>0. y \in Handling /\ ReadOK(y)
  BY DEF Inv, TypeOK, HandlersOK
<1>1. /\ y.at = "processed"
      /\ refunds' = [refunds EXCEPT ![r].status = "processed"]
      /\ receipts' = IF y.active THEN [receipts EXCEPT ![n] = "cancelled"] ELSE receipts
      /\ paid' = IF inv = NoInvoice THEN paid
                 ELSE [paid EXCEPT ![inv] = y.saw - refunds[r].amt]
      /\ applied' = [applied EXCEPT ![r] = @ + 1]
      /\ Ends(h)
      /\ UNCHANGED <<ses, checkout, payments, desk, feeAccounts, rows>>
  BY DEF ProcessCommit
<1>2. /\ r \in Refunds /\ refunds[r].status # "none" /\ refunds \in [Refunds -> RefundRecord]
      /\ ~y.active => receipts[n] = "cancelled"
      /\ y.saw \in Int
  BY <1>0, <1>1, HandlingShape DEF ReadOK, RefundStages, Inv, TypeOK
<1>3. \A q \in Refunds : /\ refunds'[q].status = IF q = r THEN "processed" ELSE refunds[q].status
                         /\ refunds'[q].no = refunds[q].no /\ refunds'[q].kept = refunds[q].kept
  BY <1>1, <1>2 DEF RefundRecord
<1>4. /\ receipts \in [Numbers -> {"none", "active", "cancelled"}]
      /\ applied \in [Refunds -> Nat]
  BY DEF Inv, TypeOK
<1>5. \A p \in payments : p.no \in Numbers
  BY DEF Inv, TypeOK, PaymentRecord
<1>6. n \in Numbers
  BY <1>2, <1>5 DEF Inv, RefundsOK
<1>7. receipts' \in [Numbers -> {"none", "active", "cancelled"}]
      /\ \A k \in Numbers : receipts'[k] = IF k = n THEN "cancelled" ELSE receipts[k]
  BY <1>1, <1>2, <1>4, <1>6
<1>8. applied' \in [Refunds -> Nat]
      /\ \A q \in Refunds : applied'[q] = IF q = r THEN applied[q] + 1 ELSE applied[q]
  BY <1>1, <1>2, <1>4
<1>9. HandlersOK' /\ HandlersApart' /\ handler' \in [Handlers -> Handling]
  <2>1. (ReadOK(Idle) /\ LockOK(Idle))'
    BY IdleIsOK, PTL
  <2>2. \A q \in Refunds : refunds[q].status # "none" => refunds[q].no \in Numbers
    BY <1>5 DEF Inv, RefundsOK
  <2>3. Forward /\ \A k \in Handlers : Spares(handler[k])
    BY <1>1, <1>2, <1>3, <1>7, <2>2, NothingNew DEF Forward
  <2>4. Goes(h, Idle)
    BY <1>1 DEF Ends
  <2> QED BY <2>1, <2>3, <2>4, IdleIsOK, HandlersKept
<1>10. TypeOK'
  <2>1. refunds' \in [Refunds -> RefundRecord]
    BY <1>1, <1>2 DEF RefundRecord, RefundStatus
  <2>2. y.saw - refunds[r].amt \in Int
    <3>1. refunds[r].amt \in Amounts \union {0}
      BY <1>2 DEF RefundRecord
    <3>2. \A a \in Amounts \union {0} : a \in Int
      BY AmountsAreIntegers
    <3>3. refunds[r].amt \in Int
      BY <3>1, <3>2, Zenon
    <3>4. refunds[r].amt \in Int /\ y.saw \in Int
      BY <1>2, <3>3
    <3>5. \A a, b \in Int : a - b \in Int
      OBVIOUS
    <3> QED BY <3>4, <3>5
  <2>3. paid' \in [Invoices -> Int]
    BY <1>1, <2>2 DEF Inv, TypeOK
  <2> QED BY <1>1, <1>7, <1>8, <1>9, <2>1, <2>3 DEF Inv, TypeOK
<1>11. RefundsOK' /\ RowsOK'
  BY <1>1, <1>2, <1>3, <1>8 DEF Inv, RefundsOK, RowsOK
<1>12. ReceiptFollowsRefund'
  <2> SUFFICES ASSUME NEW p \in payments
               PROVE  receipts'[p.no] = "cancelled" <=>
                         \E q \in Refunds : refunds'[q].no = p.no /\ applied'[q] > 0
    BY <1>1 DEF ReceiptFollowsRefund
  <2>1. CASE p.no = n
    <3>1. receipts'[p.no] = "cancelled"
      BY <1>5, <1>7, <2>1
    <3>2. refunds'[r].no = p.no /\ applied'[r] > 0
      BY <1>2, <1>3, <1>4, <1>8, <2>1
    <3> QED BY <1>2, <3>1, <3>2
  <2>2. CASE p.no # n
    <3>1. receipts'[p.no] = receipts[p.no]
      BY <1>5, <1>7, <2>2
    <3>2. \A q \in Refunds : refunds[q].no = p.no => applied'[q] = applied[q]
      BY <1>8, <2>2
    <3> QED BY <1>3, <3>1, <3>2 DEF Inv, ReceiptFollowsRefund
  <2> QED BY <2>1, <2>2
<1>13. SecondRefundOnlyFromLostLock'
  BY <1>3 DEF Inv, SecondRefundOnlyFromLostLock, BothPending
<1>14. Numbering' /\ CompletedIsPaid'
  <2>1. \A p \in payments : receipts[p.no] # "none" => receipts'[p.no] # "none"
    BY <1>5, <1>7
  <2> QED BY <1>1, <2>1 DEF Inv, Numbering, CompletedIsPaid
<1>15. SessionsOK' /\ SecondPaymentOnlyFromLostLock'
  BY <1>1 DEF Inv, SessionsOK, SecondPaymentOnlyFromLostLock
<1> QED BY <1>9, <1>10, <1>11, <1>12, <1>13, <1>14, <1>15 DEF Inv

-----------------------------------------------------------------------------
(* Steps that only read *)

LEMMA ReadSteps ==
    ASSUME Inv, NEW h \in Handlers,
           \/ \E s \in Sessions : InitializeRead(h, s) \/ WebhookRead(h, s)
           \/ \E r \in Refunds : ApproveRead(h, r) \/ ProcessRead(h, r)
           \/ WebhookFails(h) \/ Abandon(h)
    PROVE  Inv'
<1>0. /\ checkout \in [Sessions -> {"none", "open", "charged"}]
      /\ \A s \in Sessions : checkout[s] # "none" => ses[s].status # "none"
  BY DEF Inv, TypeOK, SessionsOK
<1>1. ASSUME NEW s \in Sessions, InitializeRead(h, s) \/ WebhookRead(h, s) PROVE Inv'
  <2>1. PICK x \in Handling : x.at \in {"initialize", "webhook"} /\ x.ses = s /\ Goes(h, x)
    BY <1>1 DEF InitializeRead, WebhookRead, Handling, SessionStages
  <2>2. ReadOK(x) /\ LockOK(x) /\ \A z : Apart(x, z)
    BY <1>1, <2>1 DEF InitializeRead, WebhookRead, ReadOK, LockOK, Apart, SessionStages,
       SessionLocks, WithoutRow, RefundDraws, RefundStages
  <2> QED BY <1>0, <1>1, <2>1, <2>2, ReadStep DEF InitializeRead, WebhookRead, Ledger
<1>2. ASSUME NEW r \in Refunds, ApproveRead(h, r) \/ ProcessRead(h, r) PROVE Inv'
  <2>1. PICK x \in Handling : x.at \in {"approve", "process"} /\ x.ref = r /\ Goes(h, x)
    BY <1>2 DEF ApproveRead, ProcessRead, Handling
  <2>2. ReadOK(x) /\ LockOK(x) /\ \A z : Apart(x, z)
    BY <1>2, <2>1 DEF ApproveRead, ProcessRead, ReadOK, LockOK, Apart, SessionStages,
       SessionLocks, WithoutRow, RefundDraws, RefundStages
  <2> QED BY <1>0, <1>2, <2>1, <2>2, ReadStep DEF ApproveRead, ProcessRead, Ledger
<1>3. CASE WebhookFails(h) \/ Abandon(h)
  BY <1>0, <1>3, IdleIsOK, ReadStep DEF WebhookFails, Abandon, Ends, Ledger
<1> QED BY <1>1, <1>2, <1>3

\* A callback locks its session, finds no row to draw from, or loses its try to
\* insert one.
LEMMA WebhookNumberSteps ==
    ASSUME Inv, NEW h \in Handlers, WebhookLocks(h) \/ NumberIsMissing(h) \/ InsertLoses(h)
    PROVE  Inv'
<1> DEFINE y == handler[h]
           s == y.ses
<1>0. /\ checkout \in [Sessions -> {"none", "open", "charged"}]
      /\ \A t \in Sessions : checkout[t] # "none" => ses[t].status # "none"
      /\ y \in Handling /\ ReadOK(y) /\ LockOK(y)
  BY DEF Inv, TypeOK, SessionsOK, HandlersOK
<1>1. y.at \in {"webhook", "number", "insert"}
  BY DEF WebhookLocks, NumberIsMissing, InsertLoses
<1>2. s \in Sessions /\ ses[s].status # "none"
  BY <1>0, <1>1, HandlingShape DEF SessionStages, ReadOK
<1>3. ASSUME NEW stage \in {"number", "insert", "lost"}
      PROVE  /\ [at |-> stage, ses |-> s] \in Handling
             /\ ReadOK([at |-> stage, ses |-> s])
  BY <1>2, <1>3 DEF Handling, SessionStages, ReadOK, RefundStages, RefundDraws
<1>4. CASE WebhookLocks(h)
  <2> DEFINE x == [at |-> "number", ses |-> s]
  <2>1. LockOK(x)
    BY <1>4 DEF WebhookLocks, Recorded, LockOK
  <2>2. \A k \in Handlers : k # h => Apart(x, handler[k])
    BY <1>4 DEF WebhookLocks, SessionIsFree, Locks, Apart, SessionLocks, WithoutRow, RefundDraws
  <2> QED BY <1>0, <1>3, <1>4, <2>1, <2>2, ReadStep DEF WebhookLocks, Ledger
<1>5. CASE NumberIsMissing(h)
  <2> DEFINE x == [at |-> "insert", ses |-> s]
  <2>1. LockOK(x)
    BY <1>5 DEF NumberIsMissing, LockOK, Inv, RowsOK
  <2>2. ASSUME NEW k \in Handlers, k # h PROVE Apart(x, handler[k])
    <3>1. Apart(y, handler[k])
      BY <2>2 DEF Inv, HandlersApart
    <3>2. handler[k].at # "lost"
      BY <1>5 DEF NumberIsMissing, Inv, HandlersOK, LockOK
    <3> QED BY <1>5, <3>1, <3>2 DEF NumberIsMissing, Apart, SessionLocks, WithoutRow, RefundDraws
  <2> QED BY <1>0, <1>3, <1>5, <2>1, <2>2, ReadStep DEF NumberIsMissing, Ledger
<1>6. CASE InsertLoses(h)
  <2> DEFINE x == [at |-> "lost", ses |-> s]
  <2>1. LockOK(x)
    BY <1>0, <1>6 DEF InsertLoses, LockOK
  <2>2. ASSUME NEW k \in Handlers, k # h PROVE Apart(x, handler[k])
    <3>1. Apart(y, handler[k])
      BY <2>2 DEF Inv, HandlersApart
    <3> QED BY <1>6, <3>1 DEF InsertLoses, Apart, SessionLocks, WithoutRow, RefundDraws
  <2> QED BY <1>0, <1>3, <1>6, <2>1, <2>2, ReadStep DEF InsertLoses, Ledger
<1> QED BY <1>4, <1>5, <1>6

\* The same for a request that draws the first refund number.
LEMMA RefundNumberSteps ==
    ASSUME Inv, NEW h \in Handlers,
           \/ \E p \in payments, amt \in Amounts : RefundFindsNoRow(h, p, amt)
           \/ RefundInsertLoses(h)
    PROVE  Inv'
<1> DEFINE y == handler[h]
<1>0. /\ checkout \in [Sessions -> {"none", "open", "charged"}]
      /\ \A t \in Sessions : checkout[t] # "none" => ses[t].status # "none"
      /\ y \in Handling /\ ReadOK(y) /\ LockOK(y)
  BY DEF Inv, TypeOK, SessionsOK, HandlersOK
<1>1. ASSUME NEW p \in payments, NEW amt \in Amounts, RefundFindsNoRow(h, p, amt)
      PROVE  Inv'
  <2> DEFINE x == [at |-> "refundInsert", no |-> p.no, amt |-> amt]
  <2>1. p.no \in Numbers
    BY DEF Inv, TypeOK, PaymentRecord
  <2>2. x \in Handling
    BY <2>1 DEF Handling
  <2>3. ReadOK(x)
    BY DEF ReadOK, SessionStages, RefundStages, RefundDraws
  <2>4. LockOK(x)
    BY <1>1 DEF RefundFindsNoRow, LockOK, Inv, RowsOK
  <2>5. ASSUME NEW k \in Handlers PROVE Apart(x, handler[k])
    <3>1. handler[k].at = "refundInsert" => handler[k].no # p.no
      BY <1>1 DEF RefundFindsNoRow, MayAsk, PaymentIsFree
    <3>2. handler[k].at # "refundLost"
      BY <1>1 DEF RefundFindsNoRow, Inv, HandlersOK, LockOK
    <3> QED BY <3>1, <3>2 DEF Apart, SessionLocks, WithoutRow, RefundDraws
  <2> QED BY <1>0, <1>1, <2>2, <2>3, <2>4, <2>5, ReadStep DEF RefundFindsNoRow, Ledger
<1>2. CASE RefundInsertLoses(h)
  <2> DEFINE x == [at |-> "refundLost", no |-> y.no, amt |-> y.amt]
  <2>1. y.at = "refundInsert" /\ "RFD" \in rows
    BY <1>2 DEF RefundInsertLoses
  <2>2. y \in [at : RefundDraws, no : Numbers, amt : Amounts]
    BY <1>0, <2>1 DEF Handling, RefundDraws, SessionStages, Idle
  <2>3. [y EXCEPT !.at = "refundLost"] = x /\ x \in Handling
    BY <2>2 DEF Handling
  <2>4. ReadOK(x) /\ LockOK(x)
    BY <1>0, <2>1 DEF ReadOK, LockOK, SessionStages, RefundStages, RefundDraws
  <2>5. ASSUME NEW k \in Handlers, k # h PROVE Apart(x, handler[k])
    <3>1. Apart(y, handler[k])
      BY <2>5 DEF Inv, HandlersApart
    <3> QED BY <2>1, <3>1 DEF Apart, SessionLocks, WithoutRow, RefundDraws
  <2>6. Goes(h, x)
    BY <1>2, <2>3 DEF RefundInsertLoses
  <2> QED BY <1>0, <1>2, <2>3, <2>4, <2>5, <2>6, ReadStep DEF RefundInsertLoses, Ledger
<1> QED BY <1>1, <1>2

LEMMA GatewayOpensStep ==
    ASSUME Inv, NEW h \in Handlers, GatewayOpens(h)
    PROVE  Inv'
<1> DEFINE s == handler[h].ses
<1>0. handler[h] \in Handling /\ ReadOK(handler[h])
  BY DEF Inv, TypeOK, HandlersOK
<1>1. s \in Sessions /\ ses[s].status # "none"
  BY <1>0, HandlingShape DEF GatewayOpens, SessionStages, ReadOK
<1>2. /\ checkout' \in [Sessions -> {"none", "open", "charged"}]
      /\ \A t \in Sessions : checkout'[t] # "none" => ses[t].status # "none"
  BY <1>1 DEF GatewayOpens, Inv, TypeOK, SessionsOK
<1>3. CASE Ends(h)
  BY <1>2, <1>3, IdleIsOK, ReadStep DEF GatewayOpens, Ends, Ledger
<1>4. CASE Goes(h, [at |-> "initialized", ses |-> s])
  <2> DEFINE x == [at |-> "initialized", ses |-> s]
  <2>1. x \in Handling /\ ReadOK(x) /\ LockOK(x) /\ \A z : Apart(x, z)
    BY <1>1 DEF Handling, ReadOK, LockOK, Apart, SessionStages, SessionLocks, WithoutRow,
       RefundDraws, RefundStages
  <2> QED BY <1>2, <1>4, <2>1, ReadStep DEF GatewayOpens, Ledger
<1> QED BY <1>3, <1>4 DEF GatewayOpens

LEMMA ProcessReadInvoiceStep ==
    ASSUME Inv, NEW h \in Handlers, ProcessReadInvoice(h)
    PROVE  Inv'
<1> DEFINE r == handler[h].ref
           n == refunds[r].no
           inv == PaymentOf(r).inv
           x == [at |-> "processed", ref |-> r, active |-> receipts[n] = "active",
                 saw |-> IF inv = NoInvoice THEN 0 ELSE paid[inv]]
<1>0. handler[h] \in Handling /\ ReadOK(handler[h]) /\ handler[h].at = "process"
  BY DEF ProcessReadInvoice, Inv, TypeOK, HandlersOK
<1>1. r \in Refunds /\ refunds[r].status # "none"
  BY <1>0, HandlingShape DEF ReadOK, RefundStages
<1>2. PaymentOf(r) \in payments /\ PaymentOf(r).no = n
  BY <1>1, PaymentExists
<1>3. inv \in Invoices \union {NoInvoice} /\ n \in Numbers /\ receipts[n] # "none"
  BY <1>2 DEF Inv, TypeOK, PaymentRecord, Numbering
<1>4. (IF inv = NoInvoice THEN 0 ELSE paid[inv]) \in Int
  BY <1>3 DEF Inv, TypeOK
<1>5. x \in Handling
  BY <1>1, <1>4 DEF Handling
<1>6. receipts[n] # "active" => receipts[n] = "cancelled"
  BY <1>3 DEF Inv, TypeOK
<1>7. ReadOK(x) /\ LockOK(x) /\ \A z : Apart(x, z)
  BY <1>1, <1>6 DEF ReadOK, LockOK, Apart, SessionStages, SessionLocks, WithoutRow,
     RefundDraws, RefundStages
<1>8. /\ checkout \in [Sessions -> {"none", "open", "charged"}]
      /\ \A s \in Sessions : checkout[s] # "none" => ses[s].status # "none"
  BY DEF Inv, TypeOK, SessionsOK
<1> QED BY <1>5, <1>7, <1>8, ReadStep DEF ProcessReadInvoice, Ledger

-----------------------------------------------------------------------------
LEMMA InitEstablishesInv == Init => Inv
<1> SUFFICES ASSUME Init PROVE Inv
  OBVIOUS
<1>1. Cardinality(Sessions) \in Nat
  BY SessionsAreFinite, FS_CardinalityType
<1>2. TypeOK
  BY <1>1, IdleIsOK DEF Init, TypeOK, NoSession, NoRefund, SessionRecord, SessionStatus,
     RefundRecord, RefundStatus
<1>3. SessionsOK /\ RefundsOK /\ RowsOK /\ HandlersOK /\ HandlersApart
  BY IdleIsOK DEF Init, SessionsOK, RefundsOK, RowsOK, HandlersOK, HandlersApart, NoSession,
     NoRefund
<1>4. Numbering
  BY FS_EmptySet DEF Init, Numbering
<1>5. /\ SecondPaymentOnlyFromLostLock /\ CompletedIsPaid /\ ReceiptFollowsRefund
      /\ SecondRefundOnlyFromLostLock
  BY DEF Init, SecondPaymentOnlyFromLostLock, CompletedIsPaid, ReceiptFollowsRefund,
     SecondRefundOnlyFromLostLock, BothPending, NoSession, NoRefund
<1> QED BY <1>2, <1>3, <1>4, <1>5 DEF Inv

LEMMA InvStep == Inv /\ [Next]_vars => Inv'
<1> SUFFICES ASSUME Inv, [Next]_vars PROVE Inv'
  OBVIOUS
<1>0. /\ checkout \in [Sessions -> {"none", "open", "charged"}]
      /\ paid \in [Invoices -> Int] /\ desk \in [Invoices -> Int] /\ feeAccounts \in BOOLEAN
      /\ rows \subseteq Sequences
      /\ \A s \in Sessions : checkout[s] # "none" => ses[s].status # "none"
  BY DEF Inv, TypeOK, SessionsOK
<1>1. ASSUME NEW s \in Sessions, NEW inv \in Invoices \union {NoInvoice}, NEW amt \in Amounts,
             CreateSession(s, inv, amt)
      PROVE  Inv'
  BY <1>1, CreateSessionStep
<1>2. ASSUME NEW s \in Sessions, GatewayCharges(s) PROVE Inv'
  BY <1>0, <1>2, OutsideStep DEF GatewayCharges, books
<1>3. ASSUME NEW inv \in Invoices, NEW amt \in Amounts, DeskPays(inv, amt) PROVE Inv'
  <2>1. \A i \in Invoices : paid[i] + amt \in Int /\ desk[i] + amt \in Int
    BY <1>0, AmountsAreIntegers
  <2>2. (paid \in [Invoices -> Int])' /\ (desk \in [Invoices -> Int])' /\ feeAccounts' \in BOOLEAN
    BY <1>0, <1>3, <2>1 DEF DeskPays
  <2>3. rows \subseteq rows' /\ rows' \subseteq Sequences
    BY <1>0, <1>3 DEF DeskPays, Sequences
  <2> QED BY <1>0, <1>3, <2>2, <2>3, OutsideStep DEF DeskPays
<1>4. ASSUME NEW r \in Refunds, NEW p \in payments, NEW amt \in Amounts, RequestRefund(r, p, amt)
      PROVE  Inv'
  BY <1>4, RequestRefundStep
<1>5. ASSUME NEW h \in Handlers, Continues(h) PROVE Inv'
  BY <1>5, InitializeCommitStep, GatewayOpensStep, WebhookNumberSteps, WebhookRecordsStep,
     ReadSteps, RefundNumberSteps, RefundInsertsRowStep, RefundGoesOnStep,
     ApproveCommitStep, ProcessReadInvoiceStep, ProcessCommitStep DEF Continues
<1>6. ASSUME NEW q \in Sequences, OthersDraw(q) PROVE Inv'
  <2>1. rows \subseteq rows' /\ rows' \subseteq Sequences
    BY <1>0, <1>6 DEF OthersDraw
  <2> QED BY <1>0, <1>6, <2>1, OutsideStep DEF OthersDraw
<1>7. CASE UNCHANGED vars
  BY <1>0, <1>7, OutsideStep DEF vars, books
<1> QED BY <1>1, <1>2, <1>3, <1>4, <1>5, <1>6, <1>7, ReadSteps, RefundNumberSteps DEF Next

\* The inductive invariant of online payments.
THEOREM PaymentsCorrect == Spec => []Inv
BY InitEstablishesInv, InvStep, PTL DEF Spec

\* Every variable keeps its type.
THEOREM PaymentsTyped == Spec => []TypeOK
<1>1. Inv => TypeOK
  BY DEF Inv
<1> QED BY <1>1, PaymentsCorrect, PTL

\* However often a callback is delivered and to however many processes at once,
\* its charge makes one payment under the session's lock, and at most one more,
\* by a callback that lost the lock with its try to insert the year's first number.
THEOREM ChargesPayOnceLocked == Spec => []SecondPaymentOnlyFromLostLock
<1>1. Inv => SecondPaymentOnlyFromLostLock
  BY DEF Inv
<1> QED BY <1>1, PaymentsCorrect, PTL

\* No failure leaves a completed session without its payment and receipt.
THEOREM CompletedStaysPaid == Spec => []CompletedIsPaid
<1>1. Inv => CompletedIsPaid
  BY DEF Inv
<1> QED BY <1>1, PaymentsCorrect, PTL

\* Receipts and refunds agree, although processors act on stale receipts.
THEOREM ReceiptsFollowRefunds == Spec => []ReceiptFollowsRefund
<1>1. Inv => ReceiptFollowsRefund
  BY DEF Inv
<1> QED BY <1>1, PaymentsCorrect, PTL

\* Of two refunds of a payment that wait at once, one was requested by a handler
\* that had lost the payment's lock; no third ever waits.
THEOREM RefundsWaitAloneLocked == Spec => []SecondRefundOnlyFromLostLock
<1>1. Inv => SecondRefundOnlyFromLostLock
  BY DEF Inv
<1> QED BY <1>1, PaymentsCorrect, PTL

-----------------------------------------------------------------------------
(* Money *)

Countable(S) == IsFiniteSet(Units(S)) /\ IsFiniteSet(Debts(S))
MoneyIsFinite == \A i \in Invoices : Countable(PaymentsOf(i))

\* One element more brings its coins, if it has any.
LEMMA CoinsAdd ==
    ASSUME NEW C, IsFiniteSet(C), NEW x, NEW n \in Int,
           C \intersect ({x} \X (1..n)) = {}
    PROVE  /\ IsFiniteSet(C \union ({x} \X (1..n)))
           /\ Cardinality(C \union ({x} \X (1..n)))
                = Cardinality(C) + IF n > 0 THEN n ELSE 0
<1> DEFINE coins == 1..n
           new == {x} \X coins
           m == IF n > 0 THEN n ELSE 0
<1>1. IsFiniteSet(new) /\ Cardinality(new) = m
  <2>1. IsFiniteSet({x}) /\ Cardinality({x}) = 1
    BY FS_Singleton
  <2>2. IsFiniteSet(coins) /\ Cardinality(coins) = m
    BY FS_Interval
  <2>3. m \in Nat
    OBVIOUS
  <2> HIDE DEF coins, m
  <2>4. IsFiniteSet(new) /\ Cardinality(new) = 1 * m
    BY <2>1, <2>2, FS_Product
  <2> QED BY <2>3, <2>4
<1>2. C \intersect new = {}
  OBVIOUS
<1> HIDE DEF new
<1>3. /\ IsFiniteSet(C \union new)
      /\ Cardinality(C \union new)
            = Cardinality(C) + Cardinality(new) - Cardinality(C \intersect new)
  BY <1>1, FS_Union
<1>4. Cardinality(C \intersect new) = 0
  BY <1>2, FS_EmptySet
<1>5. Cardinality(C) \in Nat /\ m \in Nat
  BY FS_CardinalityType
<1>6. Cardinality(C \union new) = Cardinality(C) + m
  <2> DEFINE c == Cardinality(C)
             d == Cardinality(C \union new)
             e == Cardinality(C \intersect new)
             f == Cardinality(new)
  <2>1. d = c + f - e /\ e = 0 /\ f = m /\ c \in Nat /\ m \in Nat
    BY <1>1, <1>3, <1>4, <1>5
  <2> HIDE DEF c, d, e, f, m
  <2>2. d = c + m
    BY <2>1
  <2> QED BY <2>2 DEF c, d
<1> QED BY <1>3, <1>6 DEF new, m

\* One payment more brings its amount, whatever its sign.
LEMMA MoneyAdd ==
    ASSUME NEW S, NEW x, x \notin S, x.amt \in Int, Countable(S)
    PROVE  /\ Countable(S \union {x})
           /\ Money(S \union {x}) = Money(S) + x.amt
<1> DEFINE n == x.amt
<1>1. /\ Units(S \union {x}) = Units(S) \union ({x} \X (1..n))
      /\ Units(S) \intersect ({x} \X (1..n)) = {}
  BY DEF Units
<1>2. /\ Debts(S \union {x}) = Debts(S) \union ({x} \X (1..-n))
      /\ Debts(S) \intersect ({x} \X (1..-n)) = {}
  BY DEF Debts
<1>3. n \in Int /\ -n \in Int
  OBVIOUS
<1> HIDE DEF n
<1>4. /\ IsFiniteSet(Units(S \union {x}))
      /\ Cardinality(Units(S \union {x})) = Cardinality(Units(S)) + IF n > 0 THEN n ELSE 0
  <2>1. IsFiniteSet(Units(S))
    BY DEF Countable
  <2>2. /\ IsFiniteSet(Units(S) \union ({x} \X (1..n)))
        /\ Cardinality(Units(S) \union ({x} \X (1..n)))
              = Cardinality(Units(S)) + IF n > 0 THEN n ELSE 0
    BY <1>1, <1>3, <2>1, CoinsAdd
  <2> QED BY <1>1, <2>2
<1>5. /\ IsFiniteSet(Debts(S \union {x}))
      /\ Cardinality(Debts(S \union {x})) = Cardinality(Debts(S)) + IF -n > 0 THEN -n ELSE 0
  <2>1. IsFiniteSet(Debts(S))
    BY DEF Countable
  <2>2. PICK k \in Int : k = -n
    BY <1>3
  <2>3. /\ IsFiniteSet(Debts(S) \union ({x} \X (1..k)))
        /\ Cardinality(Debts(S) \union ({x} \X (1..k)))
              = Cardinality(Debts(S)) + IF k > 0 THEN k ELSE 0
    BY <1>2, <2>1, <2>2, CoinsAdd
  <2> QED BY <1>2, <2>2, <2>3
<1>6. Cardinality(Units(S)) \in Nat /\ Cardinality(Debts(S)) \in Nat
  BY FS_CardinalityType DEF Countable
<1>7. Money(S \union {x}) = Money(S) + n
  <2> DEFINE u == Cardinality(Units(S))
             d == Cardinality(Debts(S))
  <2>1. /\ u \in Nat /\ d \in Nat
        /\ Money(S) = u - d
        /\ Money(S \union {x}) = (u + IF n > 0 THEN n ELSE 0) - (d + IF -n > 0 THEN -n ELSE 0)
    BY <1>4, <1>5, <1>6 DEF Money
  <2> HIDE DEF u, d
  <2> QED BY <1>3, <2>1
<1> QED BY <1>4, <1>5, <1>7 DEF Countable, n

\* No payment, no money.
LEMMA NoMoney == Countable({}) /\ Money({}) = 0
<1>1. Units({}) = {} /\ Debts({}) = {}
  BY DEF Units, Debts
<1> QED BY <1>1, FS_EmptySet DEF Countable, Money

\* A step that writes neither payments nor invoices, and undoes no refund.
LEMMA MoneyKept ==
    ASSUME MoneyIsFinite, InvoiceBooksBalance,
           payments' = payments, paid' = paid, desk' = desk,
           applied' = applied
    PROVE  MoneyIsFinite' /\ InvoiceBooksBalance'
BY DEF MoneyIsFinite, InvoiceBooksBalance, PaymentsOf, Countable, Money, Units, Debts

\* A webhook adds the amount of its session to the invoice it names.
LEMMA WebhookBringsMoney ==
    ASSUME Inv, MoneyIsFinite, InvoiceBooksBalance,
           NEW h \in Handlers, WebhookRecords(h)
    PROVE  MoneyIsFinite' /\ InvoiceBooksBalance'
<1> DEFINE s == handler[h].ses
           p == [no |-> Cardinality(payments) + 1, ses |-> s, inv |-> ses[s].inv,
                 amt |-> ses[s].amt, kept |-> handler[h].at # "lost"]
<1>0. handler[h] \in Handling /\ ReadOK(handler[h])
  BY DEF Inv, TypeOK, HandlersOK
<1>1. /\ HasNumber(h)
      /\ payments' = payments \union {p}
      /\ paid' = IF ses[s].inv = NoInvoice THEN paid
                 ELSE [paid EXCEPT ![ses[s].inv] = @ + ses[s].amt]
      /\ UNCHANGED <<desk, applied>>
  BY DEF WebhookRecords, RecordPayment, NewPayment
<1>2. s \in Sessions /\ ses[s].status # "none" /\ ses \in [Sessions -> SessionRecord]
  BY <1>0, <1>1, HandlingShape DEF HasNumber, SessionStages, ReadOK, Inv, TypeOK
<1>3. ses[s].amt \in Int /\ ses[s].inv \in Invoices \union {NoInvoice}
  BY <1>2, AmountsAreIntegers DEF Inv, SessionsOK, SessionRecord
<1>4. p \notin payments /\ p.inv = ses[s].inv /\ p.amt = ses[s].amt
  <2>1. Cardinality(payments) \in Nat
    BY FS_CardinalityType DEF Inv, Numbering
  <2>2. \A q \in payments : q.no \in 1..Cardinality(payments)
    BY DEF Inv, Numbering
  <2>3. p.no = Cardinality(payments) + 1
    OBVIOUS
  <2> QED BY <2>1, <2>2, <2>3
<1> HIDE DEF p
<1>5. ASSUME NEW i \in Invoices
      PROVE  /\ Countable(PaymentsOf(i)')
             /\ (\A r \in Refunds : applied[r] = 0)
                   => paid'[i] = desk'[i] + Money(PaymentsOf(i)')
  <2>1. Countable(PaymentsOf(i))
    BY DEF MoneyIsFinite
  <2> DEFINE m == Money(PaymentsOf(i))
  <2>2. m \in Int /\ ((\A r \in Refunds : applied[r] = 0) => paid[i] = desk[i] + m)
    BY <2>1, FS_CardinalityType DEF InvoiceBooksBalance, Countable, Money
  <2>3. desk[i] \in Int /\ paid \in [Invoices -> Int] /\ desk'[i] = desk[i]
    BY <1>1 DEF Inv, TypeOK
  <2>4. CASE i = ses[s].inv
    <3>1. PaymentsOf(i)' = PaymentsOf(i) \union {p} /\ p \notin PaymentsOf(i)
      BY <1>1, <1>4, <2>4 DEF PaymentsOf
    <3>2. /\ Countable(PaymentsOf(i) \union {p})
          /\ Money(PaymentsOf(i) \union {p}) = m + p.amt
      BY <1>3, <1>4, <2>1, <3>1, MoneyAdd
    <3>3. paid'[i] = paid[i] + p.amt
      BY <1>1, <1>4, <2>3, <2>4, NoInvoiceIsNone
    <3> HIDE DEF m
    <3>4. (\A r \in Refunds : applied[r] = 0) => paid'[i] = desk'[i] + (m + p.amt)
      BY <1>3, <1>4, <2>2, <2>3, <3>3
    <3> QED BY <3>1, <3>2, <3>4
  <2>5. CASE i # ses[s].inv
    <3>1. PaymentsOf(i)' = PaymentsOf(i)
      BY <1>1, <1>4, <2>5 DEF PaymentsOf
    <3>2. paid'[i] = paid[i]
      BY <1>1, <2>3, <2>5
    <3> QED BY <2>1, <2>2, <2>3, <3>1, <3>2
  <2> QED BY <2>4, <2>5
<1> QED BY <1>1, <1>5 DEF MoneyIsFinite, InvoiceBooksBalance, Countable, Money, Units, Debts,
     PaymentsOf

LEMMA MoneyStep ==
    Inv /\ MoneyIsFinite /\ InvoiceBooksBalance /\ [Next]_vars
        => MoneyIsFinite' /\ InvoiceBooksBalance'
<1> SUFFICES ASSUME Inv, MoneyIsFinite, InvoiceBooksBalance, [Next]_vars
             PROVE  MoneyIsFinite' /\ InvoiceBooksBalance'
  OBVIOUS
<1>0. TypeOK
  BY DEF Inv
<1>1. CASE \/ \E s \in Sessions, inv \in Invoices \union {NoInvoice}, amt \in Amounts :
                 CreateSession(s, inv, amt)
           \/ \E s \in Sessions : GatewayCharges(s)
           \/ \E q \in Sequences : OthersDraw(q)
           \/ UNCHANGED vars
  BY <1>1, MoneyKept DEF CreateSession, GatewayCharges, OthersDraw, vars, books
<1>2. ASSUME NEW r \in Refunds, NEW n, NEW amt \in Amounts, NEW kept,
             StoreRefund(r, n, amt, kept)
      PROVE  MoneyIsFinite' /\ InvoiceBooksBalance'
  BY <1>2, MoneyKept DEF StoreRefund
<1>3. ASSUME NEW inv \in Invoices, NEW amt \in Amounts, DeskPays(inv, amt)
      PROVE  MoneyIsFinite' /\ InvoiceBooksBalance'
  <2>1. \A i \in Invoices : Countable(PaymentsOf(i))' = Countable(PaymentsOf(i))
                             /\ Money(PaymentsOf(i))' = Money(PaymentsOf(i))
    BY <1>3 DEF DeskPays, Countable, Money, Units, Debts, PaymentsOf
  <2>2. MoneyIsFinite'
    BY <2>1 DEF MoneyIsFinite
  <2>3. ASSUME NEW i \in Invoices, \A r \in Refunds : applied[r] = 0
        PROVE  paid'[i] = desk'[i] + Money(PaymentsOf(i))'
    <3> DEFINE m == Money(PaymentsOf(i))
    <3>1. m \in Int
      BY FS_CardinalityType DEF MoneyIsFinite, Countable, Money
    <3>2. paid[i] = desk[i] + m
      BY <2>3 DEF InvoiceBooksBalance
    <3>3. Money(PaymentsOf(i))' = m
      BY <2>1
    <3> HIDE DEF m
    <3>4. amt \in Int /\ paid \in [Invoices -> Int] /\ desk \in [Invoices -> Int]
      BY <1>0, AmountsAreIntegers DEF TypeOK
    <3>5. paid' = [paid EXCEPT ![inv] = @ + amt] /\ desk' = [desk EXCEPT ![inv] = @ + amt]
      BY <1>3 DEF DeskPays
    <3> QED BY <3>1, <3>2, <3>3, <3>4, <3>5
  <2>4. applied' = applied
    BY <1>3 DEF DeskPays
  <2> QED BY <2>2, <2>3, <2>4 DEF InvoiceBooksBalance
<1>4. ASSUME NEW r \in Refunds, NEW p \in payments, NEW amt \in Amounts, RequestRefund(r, p, amt)
      PROVE  MoneyIsFinite' /\ InvoiceBooksBalance'
  BY <1>2, <1>4 DEF RequestRefund
<1>5. ASSUME NEW h \in Handlers,
             \/ \E s \in Sessions : InitializeRead(h, s) \/ WebhookRead(h, s)
             \/ \E p \in payments, amt \in Amounts : RefundFindsNoRow(h, p, amt)
             \/ \E r \in Refunds : ApproveRead(h, r) \/ ProcessRead(h, r)
             \/ InitializeCommit(h) \/ GatewayOpens(h) \/ WebhookLocks(h)
             \/ NumberIsMissing(h) \/ InsertLoses(h) \/ WebhookFails(h)
             \/ RefundInsertLoses(h) \/ ApproveCommit(h) \/ ProcessReadInvoice(h) \/ Abandon(h)
      PROVE  MoneyIsFinite' /\ InvoiceBooksBalance'
  BY <1>5, MoneyKept DEF InitializeRead, WebhookRead, RefundFindsNoRow, ApproveRead,
     ProcessRead, InitializeCommit, GatewayOpens, WebhookLocks, NumberIsMissing, InsertLoses,
     WebhookFails, RefundInsertLoses, ApproveCommit, ProcessReadInvoice, Abandon, books
<1>6. ASSUME NEW h \in Handlers, ProcessCommit(h)
      PROVE  MoneyIsFinite' /\ InvoiceBooksBalance'
  <2>1. handler[h].ref \in Refunds
    BY <1>0, <1>6, HandlingShape DEF ProcessCommit, TypeOK, RefundStages
  <2>2. applied'[handler[h].ref] # 0
    BY <1>0, <1>6, <2>1 DEF ProcessCommit, TypeOK
  <2>3. payments' = payments
    BY <1>6 DEF ProcessCommit
  <2> QED BY <2>1, <2>2, <2>3
          DEF MoneyIsFinite, InvoiceBooksBalance, PaymentsOf, Countable, Units, Debts
<1>7. ASSUME NEW h \in Handlers, NEW r \in Refunds, RefundInsertsRow(h, r) \/ RefundGoesOn(h, r)
      PROVE  MoneyIsFinite' /\ InvoiceBooksBalance'
  <2>1. CASE RefundInsertsRow(h, r)
    <3>1. StoreRefund(r, handler[h].no, handler[h].amt, TRUE)
      BY <2>1 DEF RefundInsertsRow
    <3> QED BY <3>1, MoneyKept DEF StoreRefund
  <2>2. CASE RefundGoesOn(h, r)
    <3>1. StoreRefund(r, handler[h].no, handler[h].amt, FALSE)
      BY <2>2 DEF RefundGoesOn
    <3> QED BY <3>1, MoneyKept DEF StoreRefund
  <2> QED BY <1>7, <2>1, <2>2
<1> QED BY <1>1, <1>3, <1>4, <1>5, <1>6, <1>7, WebhookBringsMoney DEF Next, Continues

\* Until a refund is processed, webhooks and the cash desk lose nothing to each
\* other: an invoice's paid_amount is what the desk took and what its recorded
\* sessions brought in, of whatever sign.
THEOREM OnlineBooksBalance == Spec => []InvoiceBooksBalance
<1>1. Init => MoneyIsFinite /\ InvoiceBooksBalance
  <2> SUFFICES ASSUME Init, NEW i \in Invoices
               PROVE  /\ Countable(PaymentsOf(i))
                      /\ paid[i] = desk[i] + Money(PaymentsOf(i))
    BY DEF MoneyIsFinite, InvoiceBooksBalance
  <2>1. PaymentsOf(i) = {}
    BY DEF Init, PaymentsOf
  <2> QED BY <2>1, NoMoney DEF Init
<1> QED BY <1>1, MoneyStep, PaymentsCorrect, PTL DEF Spec

-----------------------------------------------------------------------------
(* Refunds, one handler at a time *)

Handles(h, r) == handler[h].at \in RefundStages /\ handler[h].ref = r

\* No refund is in the hands of two request handlers at once.
OneHandlerPerRefund ==
    \A g, h \in Handlers, r \in Refunds : Handles(g, r) /\ Handles(h, r) => g = h

\* What a handler read of its refund is still true, and a refund was applied if
\* and only if it says so.
RefundsInOrder ==
    /\ \A r \in Refunds : applied[r] = IF refunds[r].status = "processed" THEN 1 ELSE 0
    /\ \A h \in Handlers :
          /\ handler[h].at = "approve" => refunds[handler[h].ref].status = "pending"
          /\ handler[h].at \in {"process", "processed"}
                => refunds[handler[h].ref].status = "approved"

\* A step that touches no refund, and after which every handler of a refund
\* handles it at a stage its status allows.
LEMMA RefundsUntouched ==
    ASSUME RefundsInOrder, refunds' = refunds, applied' = applied,
           \A h \in Handlers :
              \/ handler'[h] = handler[h]
              \/ handler'[h].at \notin RefundStages
              \/ handler'[h].at = "approve" /\ refunds[handler'[h].ref].status = "pending"
              \/ /\ handler'[h].at \in {"process", "processed"}
                 /\ refunds[handler'[h].ref].status = "approved"
    PROVE  RefundsInOrder'
BY DEF RefundsInOrder, RefundStages

\* The one handler of a refund gives it its next status.
LEMMA RefundAdvances ==
    ASSUME TypeOK, OneHandlerPerRefund, RefundsInOrder, NEW h \in Handlers,
           ApproveCommit(h) \/ ProcessCommit(h)
    PROVE  RefundsInOrder'
<1> DEFINE r == handler[h].ref
<1>1. handler[h].at \in RefundStages /\ r \in Refunds
  BY HandlingShape DEF TypeOK, ApproveCommit, ProcessCommit, RefundStages
<1>2. refunds \in [Refunds -> RefundRecord] /\ applied \in [Refunds -> Nat]
      /\ handler \in [Handlers -> Handling]
  BY DEF TypeOK
<1>3. \A g \in Handlers : handler'[g] = IF g = h THEN Idle ELSE handler[g]
  BY <1>2 DEF ApproveCommit, ProcessCommit, Ends, Goes
<1>4. ASSUME NEW g \in Handlers, handler'[g].at \in RefundStages
      PROVE  /\ handler'[g] = handler[g] /\ handler[g].ref # r /\ handler[g].ref \in Refunds
  <2>1. g # h /\ handler'[g] = handler[g]
    BY <1>3, <1>4 DEF Idle, RefundStages
  <2>2. handler[g].ref \in Refunds
    BY <1>2, <1>4, <2>1, HandlingShape DEF RefundStages
  <2> QED BY <1>1, <1>4, <2>1, <2>2 DEF OneHandlerPerRefund, Handles
<1>5. \A q \in Refunds : q # r => refunds'[q] = refunds[q] /\ applied'[q] = applied[q]
  BY <1>2 DEF ApproveCommit, ProcessCommit
<1>6. CASE ApproveCommit(h)
  <2>1. refunds'[r].status = "approved" /\ applied'[r] = 0
    BY <1>1, <1>2, <1>6 DEF ApproveCommit, RefundRecord, RefundsInOrder
  <2> QED BY <1>1, <1>4, <1>5, <2>1 DEF RefundsInOrder, RefundStages
<1>7. CASE ProcessCommit(h)
  <2>1. refunds'[r].status = "processed" /\ applied'[r] = 1
    BY <1>1, <1>2, <1>7 DEF ProcessCommit, RefundRecord, RefundsInOrder
  <2> QED BY <1>1, <1>4, <1>5, <2>1 DEF RefundsInOrder, RefundStages
<1> QED BY <1>6, <1>7

LEMMA RefundsStep ==
    ASSUME Inv, OneHandlerPerRefund, RefundsInOrder, [Next]_vars
    PROVE  RefundsInOrder'
<1>0. TypeOK /\ handler \in [Handlers -> Handling]
  BY DEF Inv, TypeOK
<1>1. CASE \/ \E s \in Sessions, inv \in Invoices \union {NoInvoice}, amt \in Amounts :
                 CreateSession(s, inv, amt)
           \/ \E s \in Sessions : GatewayCharges(s)
           \/ \E inv \in Invoices, amt \in Amounts : DeskPays(inv, amt)
           \/ \E q \in Sequences : OthersDraw(q)
           \/ UNCHANGED vars
  BY <1>1, RefundsUntouched DEF CreateSession, GatewayCharges, DeskPays, OthersDraw, vars
<1>2. ASSUME NEW r \in Refunds, NEW n, NEW amt, NEW kept, StoreRefund(r, n, amt, kept),
             \A h \in Handlers : handler'[h] \in {Idle, handler[h]}
      PROVE  RefundsInOrder'
  <2>1. refunds \in [Refunds -> RefundRecord] /\ refunds[r].status = "none"
    BY <1>0, <1>2 DEF TypeOK, StoreRefund
  <2>2. \A q \in Refunds : IF q = r THEN refunds'[q].status = "pending"
                                    ELSE refunds'[q] = refunds[q]
    BY <1>2, <2>1 DEF StoreRefund
  <2>3. \A h \in Handlers : handler'[h].at \in RefundStages =>
           handler'[h] = handler[h] /\ handler[h].ref \in Refunds /\ handler[h].ref # r
    BY <1>0, <1>2, <2>1, HandlingShape DEF RefundStages, RefundsInOrder, Idle
  <2> QED BY <1>2, <2>1, <2>2, <2>3 DEF StoreRefund, RefundsInOrder, RefundStages
<1>3. ASSUME NEW h \in Handlers, NEW s \in Sessions, InitializeRead(h, s) \/ WebhookRead(h, s)
      PROVE  RefundsInOrder'
  BY <1>0, <1>3, RefundsUntouched DEF InitializeRead, WebhookRead, Goes, RefundStages
<1>4. ASSUME NEW h \in Handlers, NEW r \in Refunds, ApproveRead(h, r) \/ ProcessRead(h, r)
      PROVE  RefundsInOrder'
  BY <1>0, <1>4, RefundsUntouched DEF ApproveRead, ProcessRead, Goes, RefundStages
<1>5. ASSUME NEW h \in Handlers,
             \/ InitializeCommit(h) \/ GatewayOpens(h) \/ WebhookLocks(h)
             \/ NumberIsMissing(h) \/ InsertLoses(h) \/ WebhookRecords(h)
             \/ WebhookFails(h) \/ Abandon(h)
             \/ \E p \in payments, amt \in Amounts : RefundFindsNoRow(h, p, amt)
      PROVE  RefundsInOrder'
  BY <1>0, <1>5, RefundsUntouched DEF InitializeCommit, GatewayOpens, WebhookLocks,
     NumberIsMissing, InsertLoses, WebhookRecords, WebhookFails, Abandon, RefundFindsNoRow,
     Ends, Goes, Idle, RefundStages
<1>6. ASSUME NEW h \in Handlers, ProcessReadInvoice(h)
      PROVE  RefundsInOrder'
  <2>1. handler'[h].at = "processed" /\ handler'[h].ref = handler[h].ref
        /\ handler[h].at = "process"
    BY <1>0, <1>6 DEF ProcessReadInvoice, Goes
  <2>2. \A g \in Handlers : g # h => handler'[g] = handler[g]
    BY <1>0, <1>6 DEF ProcessReadInvoice, Goes
  <2>3. refunds[handler[h].ref].status = "approved"
    BY <2>1 DEF RefundsInOrder
  <2> QED BY <1>6, <2>1, <2>2, <2>3, RefundsUntouched DEF ProcessReadInvoice
<1>7. ASSUME NEW h \in Handlers, RefundInsertLoses(h) PROVE RefundsInOrder'
  <2>1. handler[h] \in [at : RefundDraws, no : Numbers, amt : Amounts]
    BY <1>0, <1>7 DEF RefundInsertLoses, Handling, RefundDraws, SessionStages, Idle
  <2>2. handler'[h].at = "refundLost"
    BY <1>0, <1>7, <2>1 DEF RefundInsertLoses, Goes
  <2> QED BY <1>0, <1>7, <2>2, RefundsUntouched DEF RefundInsertLoses, Goes, RefundStages
<1>8. ASSUME NEW r \in Refunds, NEW p \in payments, NEW amt \in Amounts, RequestRefund(r, p, amt)
      PROVE  RefundsInOrder'
  BY <1>2, <1>8 DEF RequestRefund
<1>9. ASSUME NEW h \in Handlers, NEW r \in Refunds, RefundInsertsRow(h, r) \/ RefundGoesOn(h, r)
      PROVE  RefundsInOrder'
  <2>1. \A k \in Handlers : handler'[k] \in {Idle, handler[k]}
    BY <1>0, <1>9 DEF RefundInsertsRow, RefundGoesOn, Ends, Goes
  <2>2. \E kept \in BOOLEAN : StoreRefund(r, handler[h].no, handler[h].amt, kept)
    BY <1>9 DEF RefundInsertsRow, RefundGoesOn
  <2> QED BY <1>2, <2>1, <2>2
<1> QED BY <1>0, <1>1, <1>3, <1>4, <1>5, <1>6, <1>7, <1>8, <1>9, RefundAdvances
        DEF Next, Continues

\* A refund is applied twice only if two handlers have it at once: with one
\* handler at a time approve_refund and process_refund need no lock.
THEOREM RefundsApplyOnce == Spec /\ []OneHandlerPerRefund => []RefundAppliedOnce
<1>1. Init => RefundsInOrder
  BY DEF Init, RefundsInOrder, NoRefund, Idle
<1>2. RefundsInOrder => RefundAppliedOnce
  BY DEF RefundsInOrder, RefundAppliedOnce
<1>3. Inv /\ OneHandlerPerRefund /\ RefundsInOrder /\ [Next]_vars => RefundsInOrder'
  BY RefundsStep
<1> QED BY <1>1, <1>2, <1>3, PaymentsCorrect, PTL DEF Spec

-----------------------------------------------------------------------------
(* Charges that no callback can record *)

WebhookStages == {"webhook"} \union SessionLocks \union WithoutRow
InWebhook(s) == \E h \in Handlers : handler[h].at \in WebhookStages /\ handler[h].ses = s

\* The gateway charged the parent, and what every callback needs is gone: a
\* session still "pending", or a school without the two accounts.
Lost(s) ==
    /\ checkout[s] = "charged"
    /\ ~Recorded(s)
    /\ feeAccounts \/ (ses[s].status = "processing" /\ ~InWebhook(s))

\* A callback leaves the handler it began in, or goes on in it.
LEMMA CallbacksGoOn ==
    ASSUME Inv, NEW s \in Sessions, ~InWebhook(s), ses[s].status # "pending", [Next]_vars
    PROVE  ~InWebhook(s)'
<1>0. handler \in [Handlers -> Handling]
  BY DEF Inv, TypeOK
<1> SUFFICES ASSUME NEW h \in Handlers,
                    handler'[h].at \in WebhookStages, handler'[h].ses = s
             PROVE  FALSE
  BY DEF InWebhook
<1>1. handler'[h] # handler[h] /\ handler' # handler
  BY DEF InWebhook
<1>2. ASSUME NEW g \in Handlers, NEW t \in Sessions, WebhookRead(g, t) PROVE FALSE
  BY <1>0, <1>1, <1>2 DEF WebhookRead, Goes
<1>3. ASSUME NEW g \in Handlers, NEW x, Goes(g, x), x.at \notin WebhookStages PROVE FALSE
  BY <1>0, <1>1, <1>3 DEF Goes
<1>4. Idle.at \notin WebhookStages
  BY DEF Idle, WebhookStages, SessionLocks, WithoutRow
<1>5. ASSUME NEW g \in Handlers, Ends(g) PROVE FALSE
  BY <1>3, <1>4, <1>5 DEF Ends
<1>6. ASSUME NEW g \in Handlers, WebhookLocks(g) \/ NumberIsMissing(g) \/ InsertLoses(g)
      PROVE  FALSE
  <2>1. /\ handler[g].at \in WebhookStages /\ g = h
        /\ handler'[g].ses = handler[g].ses
    BY <1>0, <1>1, <1>6 DEF WebhookLocks, NumberIsMissing, InsertLoses, Goes, WebhookStages,
       SessionLocks, WithoutRow
  <2> QED BY <2>1 DEF InWebhook
<1>7. ASSUME NEW g \in Handlers, NEW t \in Sessions, InitializeRead(g, t) PROVE FALSE
  BY <1>3, <1>7 DEF InitializeRead, WebhookStages, SessionLocks, WithoutRow
<1>8. ASSUME NEW g \in Handlers, GatewayOpens(g) PROVE FALSE
  BY <1>3, <1>5, <1>8 DEF GatewayOpens, WebhookStages, SessionLocks, WithoutRow
<1>9. ASSUME NEW g \in Handlers, NEW r \in Refunds, ApproveRead(g, r) \/ ProcessRead(g, r)
      PROVE  FALSE
  BY <1>3, <1>9 DEF ApproveRead, ProcessRead, WebhookStages, SessionLocks, WithoutRow
<1>10. ASSUME NEW g \in Handlers, ProcessReadInvoice(g) PROVE FALSE
  BY <1>3, <1>10 DEF ProcessReadInvoice, WebhookStages, SessionLocks, WithoutRow
<1>11. ASSUME NEW g \in Handlers, NEW p \in payments, NEW amt \in Amounts,
              RefundFindsNoRow(g, p, amt)
       PROVE  FALSE
  BY <1>3, <1>11 DEF RefundFindsNoRow, WebhookStages, SessionLocks, WithoutRow
<1>12. ASSUME NEW g \in Handlers, RefundInsertLoses(g) PROVE FALSE
  <2>1. handler[g] \in [at : RefundDraws, no : Numbers, amt : Amounts]
    BY <1>0, <1>12 DEF RefundInsertLoses, Handling, RefundDraws, SessionStages, Idle
  <2>2. [handler[g] EXCEPT !.at = "refundLost"].at \notin WebhookStages
    BY <2>1 DEF WebhookStages, SessionLocks, WithoutRow
  <2> QED BY <1>3, <1>12, <2>2 DEF RefundInsertLoses
<1>13. CASE \/ \E t \in Sessions, inv \in Invoices \union {NoInvoice}, amt \in Amounts :
                  CreateSession(t, inv, amt)
            \/ \E t \in Sessions : GatewayCharges(t)
            \/ \E inv \in Invoices, amt \in Amounts : DeskPays(inv, amt)
            \/ \E q \in Sequences : OthersDraw(q)
            \/ \E r \in Refunds, p \in payments, amt \in Amounts : RequestRefund(r, p, amt)
            \/ UNCHANGED vars
  BY <1>1, <1>13 DEF CreateSession, GatewayCharges, DeskPays, OthersDraw, RequestRefund, vars
<1>14. ASSUME NEW g \in Handlers,
              \/ InitializeCommit(g) \/ WebhookRecords(g) \/ WebhookFails(g)
              \/ ApproveCommit(g) \/ ProcessCommit(g) \/ Abandon(g)
              \/ \E r \in Refunds : RefundInsertsRow(g, r) \/ RefundGoesOn(g, r)
       PROVE  FALSE
  BY <1>5, <1>14 DEF InitializeCommit, WebhookRecords, WebhookFails, ApproveCommit,
     ProcessCommit, Abandon, RefundInsertsRow, RefundGoesOn
<1> QED BY <1>2, <1>6, <1>7, <1>8, <1>9, <1>10, <1>11, <1>12, <1>13, <1>14 DEF Next, Continues

LEMMA LostStep ==
    ASSUME Inv, NEW s \in Sessions, Lost(s), [Next]_vars
    PROVE  Lost(s)'
<1>0. /\ handler \in [Handlers -> Handling] /\ ses \in [Sessions -> SessionRecord]
      /\ checkout \in [Sessions -> {"none", "open", "charged"}]
  BY DEF Inv, TypeOK
<1> DEFINE HasRecorded == \E h \in Handlers : WebhookRecords(h)
<1>1. checkout'[s] = "charged"
  BY <1>0 DEF Lost, Next, CreateSession, GatewayCharges, DeskPays, OthersDraw, RequestRefund,
     StoreRefund, RefundFindsNoRow, InitializeRead, WebhookRead, ApproveRead, ProcessRead,
     Continues, InitializeCommit, GatewayOpens, WebhookLocks, NumberIsMissing, InsertLoses,
     WebhookRecords, WebhookFails, RefundInsertLoses, RefundInsertsRow, RefundGoesOn,
     ApproveCommit, ProcessReadInvoice, ProcessCommit, Abandon, vars
<1>2. ASSUME NEW h \in Handlers, WebhookRecords(h)
      PROVE  ~feeAccounts /\ handler[h].ses # s
  BY <1>2 DEF WebhookRecords, HasNumber, CanRecord, Lost, InWebhook, WebhookStages,
     SessionLocks, WithoutRow
<1>3. ~Recorded(s)'
  <2>1. CASE payments' = payments
    BY <2>1 DEF Lost, Recorded
  <2>2. ASSUME NEW h \in Handlers, WebhookRecords(h) PROVE ~Recorded(s)'
    <3> DEFINE p == [no |-> Cardinality(payments) + 1, ses |-> handler[h].ses,
                     inv |-> ses[handler[h].ses].inv, amt |-> ses[handler[h].ses].amt,
                     kept |-> handler[h].at # "lost"]
    <3>1. payments' = payments \union {p} /\ p.ses = handler[h].ses
      BY <2>2 DEF WebhookRecords, RecordPayment, NewPayment
    <3> HIDE DEF p
    <3> QED BY <1>2, <2>2, <3>1 DEF Lost, Recorded
  <2>3. payments' = payments \/ HasRecorded
    BY DEF Next, CreateSession, GatewayCharges, DeskPays, OthersDraw, RequestRefund,
       StoreRefund, RefundFindsNoRow, InitializeRead, WebhookRead, ApproveRead, ProcessRead,
       Continues, InitializeCommit, GatewayOpens, WebhookLocks, NumberIsMissing, InsertLoses,
       WebhookFails, RefundInsertLoses, RefundInsertsRow, RefundGoesOn, ApproveCommit,
       ProcessReadInvoice, ProcessCommit, Abandon, vars, books
  <2> QED BY <2>1, <2>2, <2>3
<1>4. CASE feeAccounts
  <2>1. feeAccounts'
    BY <1>4 DEF Next, CreateSession, GatewayCharges, DeskPays, OthersDraw, RequestRefund,
       StoreRefund, RefundFindsNoRow, InitializeRead, WebhookRead, ApproveRead, ProcessRead,
       Continues, InitializeCommit, GatewayOpens, WebhookLocks, NumberIsMissing, InsertLoses,
       WebhookRecords, WebhookFails, RefundInsertLoses, RefundInsertsRow, RefundGoesOn,
       ApproveCommit, ProcessReadInvoice, ProcessCommit, Abandon, vars, books
  <2> QED BY <1>1, <1>3, <2>1 DEF Lost
<1>5. CASE ~feeAccounts
  <2>0. ses[s].status = "processing" /\ ~InWebhook(s)
    BY <1>5 DEF Lost
  <2>1. ses'[s].status = "processing"
    <3>1. CASE ses' = ses
      BY <2>0, <3>1
    <3>2. ASSUME NEW t \in Sessions, NEW inv \in Invoices \union {NoInvoice},
                 NEW amt \in Amounts, CreateSession(t, inv, amt)
          PROVE  ses'[s] = ses[s]
      BY <1>0, <2>0, <3>2 DEF CreateSession
    <3>3. ASSUME NEW h \in Handlers, InitializeCommit(h)
          PROVE  ses'[s].status = "processing"
      BY <1>0, <2>0, <3>3 DEF InitializeCommit, SessionRecord
    <3>4. ASSUME NEW h \in Handlers, WebhookRecords(h)
          PROVE  ses'[s] = ses[s]
      BY <1>0, <1>2, <3>4 DEF WebhookRecords, RecordPayment
    <3> QED BY <2>0, <3>1, <3>2, <3>3, <3>4 DEF Next, GatewayCharges, DeskPays, OthersDraw,
         RequestRefund, StoreRefund, RefundFindsNoRow, InitializeRead, WebhookRead, ApproveRead,
         ProcessRead, Continues, GatewayOpens, WebhookLocks, NumberIsMissing, InsertLoses,
         WebhookFails, RefundInsertLoses, RefundInsertsRow, RefundGoesOn, ApproveCommit,
         ProcessReadInvoice, ProcessCommit, Abandon, vars
  <2>2. ~InWebhook(s)'
    BY <2>0, CallbacksGoOn
  <2> QED BY <1>1, <1>3, <2>1, <2>2 DEF Lost
<1> QED BY <1>4, <1>5

\* A charge once lost is lost for good: no redelivery, no retry and nothing the
\* parent, the desk or the office does ever records it.
THEOREM LostChargesStayLost ==
    ASSUME NEW s \in Sessions
    PROVE  Spec => [](Lost(s) => []Lost(s))
<1>1. Inv /\ Lost(s) /\ [Next]_vars => Lost(s)'
  BY LostStep
<1> QED BY <1>1, PaymentsCorrect, PTL DEF Spec
=============================================================================
