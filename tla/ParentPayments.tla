--------------------------- MODULE ParentPayments ---------------------------
(***************************************************************************)
(* Online payments by parents: payment sessions, the Chapa checkout and    *)
(* its webhook, receipts and refunds, as                                   *)
(* backend/app/services/parent_payment_service.py and                      *)
(* endpoints/parent_payments.py handle them in several server processes.   *)
(*                                                                         *)
(* A transaction whose reads are all made under row locks it keeps to its  *)
(* commit is one step here; FinanceLedgerProofs proves that reduction for  *)
(* the cash desk's record_payment.  Reads without a lock, calls to the     *)
(* gateway between a read and a write, and the draw of a document number,  *)
(* which may cost the caller the locks it holds, are steps of their own.   *)
(***************************************************************************)
EXTENDS Integers, FiniteSets

CONSTANTS
    Sessions,       \* payment sessions a parent may open
    Refunds,        \* refund requests
    Invoices,       \* invoices
    NoInvoice,      \* a session that names no invoice
    Amounts,        \* amounts of money a request may carry
    InvoiceTotal,   \* total_amount of every invoice
    Handlers,       \* request handlers, one database session each
    SystemUser,     \* does users hold a row with id "system"?
    CsrfExempt,     \* does CSRFMiddleware let the gateway's callback pass?
    MaxDesk         \* bound: money the cash desk takes per invoice

\* Nothing in the code asks for more, except of a refund.
ASSUME AmountsAreIntegers == Amounts \subseteq Int
ASSUME NoInvoiceIsNone == NoInvoice \notin Invoices
ASSUME DeskBoundIsNatural == MaxDesk \in Nat
ASSUME SessionsAreFinite == IsFiniteSet(Sessions)

VARIABLES
    ses,            \* payment_sessions: status, invoice and amount
    checkout,       \* the gateway's own record of each session
    payments,       \* payments made through sessions
    receipts,       \* status of the receipt of each payment
    paid,           \* paid_amount of each invoice
    desk,           \* what the cash desk took for each invoice
    feeAccounts,    \* do the cash and the receivable account exist?
    refunds,        \* refund requests
    rows,           \* number sequences of the school year whose row exists
    handler,        \* what each handler is doing
    applied         \* history: how often process_refund committed each refund

vars == <<ses, checkout, payments, receipts, paid, desk, feeAccounts, refunds,
          rows, handler, applied>>

Idle == [at |-> "idle"]
\* Sequences whose first row may have to be inserted.  That of receipts (RCP)
\* is drawn from only by holders of the PAY row and cannot be lost.
Sequences == {"PAY", "RFD"}
\* Enough for two payments of each session, and one to spare.
Numbers == 1..(2 * Cardinality(Sessions) + 1)
SessionStatus == {"none", "pending", "processing", "completed"}
RefundStatus == {"none", "pending", "approved", "processed"}

\* Handler h commits nothing and goes on to r, or ends.
Goes(h, r) == handler' = [handler EXCEPT ![h] = r]
Ends(h) == Goes(h, Idle)

books == <<payments, receipts, paid, desk, feeAccounts, rows>>

\* process_chapa_payment holds the row of its session from its locking SELECT
\* to the end of the transaction, request_refund that of its payment.
Locks(h, s) == handler[h].at \in {"number", "insert"} /\ handler[h].ses = s
SessionIsFree(s) == ~\E h \in Handlers : Locks(h, s)
PaymentIsFree(n) ==
    ~\E h \in Handlers : handler[h].at = "refundInsert" /\ handler[h].no = n

-----------------------------------------------------------------------------
(* Opening a session and sending the parent to the checkout *)

Fits(inv, amt) == inv # NoInvoice => amt <= InvoiceTotal - paid[inv]

\* The invoice is read without a lock and may be paid by others later.
CreateSession(s, inv, amt) ==
    /\ ses[s].status = "none"
    /\ Fits(inv, amt)
    /\ ses' = [ses EXCEPT ![s] = [status |-> "pending", inv |-> inv, amt |-> amt]]
    /\ UNCHANGED <<checkout, books, refunds, handler, applied>>

InitializeRead(h, s) ==
    /\ handler[h] = Idle
    /\ ses[s].status = "pending"
    /\ Goes(h, [at |-> "initialize", ses |-> s])
    /\ UNCHANGED <<ses, checkout, books, refunds, applied>>

\* The gateway opens a checkout for the session, and its answer may be lost.
GatewayOpens(h) ==
    LET s == handler[h].ses IN
    /\ handler[h].at = "initialize"
    /\ checkout' = [checkout EXCEPT ![s] = IF @ = "none" THEN "open" ELSE @]
    /\ \/ Goes(h, [at |-> "initialized", ses |-> s])
       \/ Ends(h)
    /\ UNCHANGED <<ses, books, refunds, applied>>

\* The UPDATE waits for a webhook that has the session locked, and writes the
\* status without a look at what it has become since.
InitializeCommit(h) ==
    /\ handler[h].at = "initialized"
    /\ SessionIsFree(handler[h].ses)
    /\ ses' = [ses EXCEPT ![handler[h].ses].status = "processing"]
    /\ Ends(h)
    /\ UNCHANGED <<checkout, books, refunds, applied>>

\* The parent pays at the checkout.
GatewayCharges(s) ==
    /\ checkout[s] = "open"
    /\ checkout' = [checkout EXCEPT ![s] = "charged"]
    /\ UNCHANGED <<ses, books, refunds, handler, applied>>

-----------------------------------------------------------------------------
(* The webhook *)

\* The gateway delivers, or delivers again, the callback of a charge.  The
\* handler loads the session before it asks the gateway to verify it: the
\* locking SELECT of process_chapa_payment returns the row as loaded here.
\* A session that is not pending is refused without any effect, and so is every
\* callback that the middleware does not exempt: the gateway has no CSRF token.
WebhookRead(h, s) ==
    /\ CsrfExempt
    /\ handler[h] = Idle
    /\ checkout[s] = "charged"
    /\ ses[s].status = "pending"
    /\ Goes(h, [at |-> "webhook", ses |-> s])
    /\ UNCHANGED <<ses, checkout, books, refunds, applied>>

Recorded(s) == \E p \in payments : p.ses = s

\* received_by = "system" needs such a user; and once both accounts exist the
\* journal entry is built with an argument JournalEntry does not have.
CanRecord == SystemUser /\ ~feeAccounts

\* Faulty: the gateway reference is not looked up again under the lock.
WebhookLocksUnchecked(h) ==
    LET s == handler[h].ses IN
    /\ handler[h].at = "webhook"
    /\ SessionIsFree(s)
    /\ Goes(h, [at |-> "number", ses |-> s])
    /\ UNCHANGED <<ses, checkout, books, refunds, applied>>

\* The session row is locked; its status, though, is the one loaded earlier.  A
\* payment with this gateway reference ends the handler.
WebhookLocks(h) ==
    LET s == handler[h].ses IN
    /\ handler[h].at = "webhook"
    /\ SessionIsFree(s)
    /\ ~Recorded(s)
    /\ Goes(h, [at |-> "number", ses |-> s])
    /\ UNCHANGED <<ses, checkout, books, refunds, applied>>

\* next_sequence_number finds no row to lock.
NumberIsMissing(h) ==
    /\ handler[h].at = "number"
    /\ "PAY" \notin rows
    /\ Goes(h, [at |-> "insert", ses |-> handler[h].ses])
    /\ UNCHANGED <<ses, checkout, books, refunds, applied>>

\* IntegrityError: another transaction committed the row first.  db.rollback()
\* releases the session's row and takes back its "completed"; the loop, and
\* then the caller, go on as if nothing had happened.
InsertLoses(h) ==
    /\ handler[h].at = "insert"
    /\ "PAY" \in rows
    /\ Goes(h, [at |-> "lost", ses |-> handler[h].ses])
    /\ UNCHANGED <<ses, checkout, books, refunds, applied>>

\* The handler has its payment number: the row of the sequence stays locked, or
\* inserted and unseen, until the transaction ends.
HasNumber(h) ==
    \/ handler[h].at \in {"number", "lost"} /\ "PAY" \in rows
    \/ handler[h].at = "insert" /\ "PAY" \notin rows

\* The record of a payment.  kept is history: had the transaction still its
\* session locked when it committed?
NewPayment(s, kept) ==
    [no |-> Cardinality(payments) + 1, ses |-> s, inv |-> ses[s].inv,
     amt |-> ses[s].amt, kept |-> kept]

\* Faulty: paid_amount is written, not increased.
RecordPaymentOverwrites(s, kept) ==
    LET p == NewPayment(s, kept) IN
    /\ p.no \in Numbers
    /\ ses' = IF kept THEN [ses EXCEPT ![s].status = "completed"] ELSE ses
    /\ payments' = payments \union {p}
    /\ receipts' = [receipts EXCEPT ![p.no] = "active"]
    /\ paid' = IF p.inv = NoInvoice THEN paid ELSE [paid EXCEPT ![p.inv] = p.amt]
    /\ rows' = rows \union {"PAY"}

\* Faulty: the payment is written before it has its number.
RecordPaymentUnnumbered(s, kept) ==
    LET p == [NewPayment(s, kept) EXCEPT !.no = 0] IN
    /\ ses' = IF kept THEN [ses EXCEPT ![s].status = "completed"] ELSE ses
    /\ payments' = payments \union {p}
    /\ receipts' = [receipts EXCEPT ![1] = "active"]
    /\ paid' = IF p.inv = NoInvoice THEN paid ELSE [paid EXCEPT ![p.inv] = @ + p.amt]
    /\ rows' = rows \union {"PAY"}

\* What is committed: the payment, its receipt, the invoice and, unless it was
\* rolled back on the way, the status of the session.
RecordPayment(s, kept) ==
    LET p == NewPayment(s, kept) IN
    /\ p.no \in Numbers
    /\ ses' = IF kept THEN [ses EXCEPT ![s].status = "completed"] ELSE ses
    /\ payments' = payments \union {p}
    /\ receipts' = [receipts EXCEPT ![p.no] = "active"]
    /\ paid' = IF p.inv = NoInvoice THEN paid ELSE [paid EXCEPT ![p.inv] = @ + p.amt]
    /\ rows' = rows \union {"PAY"}

WebhookRecords(h) ==
    /\ HasNumber(h)
    /\ CanRecord
    /\ RecordPayment(handler[h].ses, handler[h].at # "lost")
    /\ Ends(h)
    /\ UNCHANGED <<checkout, desk, feeAccounts, refunds, applied>>

\* Faulty: the status survives the exception.
WebhookFailsHalfway(h) ==
    /\ \/ handler[h].at = "webhook" /\ Recorded(handler[h].ses)
       \/ HasNumber(h) /\ ~CanRecord
    /\ ses' = [ses EXCEPT ![handler[h].ses].status = "completed"]
    /\ Ends(h)
    /\ UNCHANGED <<checkout, books, refunds, applied>>

\* The payment was found, or an exception before the commit undoes everything.
WebhookFails(h) ==
    /\ \/ handler[h].at = "webhook" /\ Recorded(handler[h].ses)
       \/ HasNumber(h) /\ ~CanRecord
    /\ Ends(h)
    /\ UNCHANGED <<ses, checkout, books, refunds, applied>>

-----------------------------------------------------------------------------
(* The cash desk: record_payment of FinanceLedger *)

DeskPays(inv, amt) ==
    /\ desk[inv] + amt \in -MaxDesk..MaxDesk
    /\ paid[inv] + amt <= InvoiceTotal
    /\ paid' = [paid EXCEPT ![inv] = @ + amt]
    /\ desk' = [desk EXCEPT ![inv] = @ + amt]
    /\ feeAccounts' = TRUE
    /\ rows' = rows \union {"PAY"}
    /\ UNCHANGED <<ses, checkout, payments, receipts, refunds, handler, applied>>

-----------------------------------------------------------------------------
(* Refunds *)

\* Faulty: only an approved refund stands in the way of a new one.
MayAskWhilePending(n) ==
    /\ PaymentIsFree(n)
    /\ ~\E q \in Refunds : refunds[q].status = "approved" /\ refunds[q].no = n

\* The payment row is locked while the other refunds are looked at.
MayAsk(n) ==
    /\ PaymentIsFree(n)
    /\ ~\E q \in Refunds :
          refunds[q].status \in {"pending", "approved"} /\ refunds[q].no = n

\* kept is history: had the transaction still its payment locked?
StoreRefund(r, n, amt, kept) ==
    /\ refunds[r].status = "none"
    /\ refunds' = [refunds EXCEPT ![r] =
          [status |-> "pending", no |-> n, amt |-> amt, kept |-> kept]]
    /\ rows' = rows \union {"RFD"}
    /\ UNCHANGED <<ses, checkout, payments, receipts, paid, desk, feeAccounts, applied>>

\* The amount is positive, and not compared with the payment's.
RequestRefund(r, p, amt) ==
    /\ amt > 0
    /\ MayAsk(p.no)
    /\ "RFD" \in rows
    /\ StoreRefund(r, p.no, amt, TRUE)
    /\ UNCHANGED handler

RefundFindsNoRow(h, p, amt) ==
    /\ handler[h] = Idle
    /\ amt > 0
    /\ MayAsk(p.no)
    /\ "RFD" \notin rows
    /\ Goes(h, [at |-> "refundInsert", no |-> p.no, amt |-> amt])
    /\ UNCHANGED <<ses, checkout, books, refunds, applied>>

RefundInsertsRow(h, r) ==
    /\ handler[h].at = "refundInsert"
    /\ "RFD" \notin rows
    /\ StoreRefund(r, handler[h].no, handler[h].amt, TRUE)
    /\ Ends(h)

\* db.rollback() again: the payment is not locked any more.
RefundInsertLoses(h) ==
    /\ handler[h].at = "refundInsert"
    /\ "RFD" \in rows
    /\ Goes(h, [handler[h] EXCEPT !.at = "refundLost"])
    /\ UNCHANGED <<ses, checkout, books, refunds, applied>>

\* The INSERT of a refund waits for whoever has its payment locked.
RefundGoesOn(h, r) ==
    /\ handler[h].at = "refundLost"
    /\ PaymentIsFree(handler[h].no)
    /\ StoreRefund(r, handler[h].no, handler[h].amt, FALSE)
    /\ Ends(h)

ApproveRead(h, r) ==
    /\ handler[h] = Idle
    /\ refunds[r].status = "pending"
    /\ Goes(h, [at |-> "approve", ref |-> r])
    /\ UNCHANGED <<ses, checkout, books, refunds, applied>>

ApproveCommit(h) ==
    /\ handler[h].at = "approve"
    /\ refunds' = [refunds EXCEPT ![handler[h].ref].status = "approved"]
    /\ Ends(h)
    /\ UNCHANGED <<ses, checkout, books, applied>>

ProcessRead(h, r) ==
    /\ handler[h] = Idle
    /\ refunds[r].status = "approved"
    /\ Goes(h, [at |-> "process", ref |-> r])
    /\ UNCHANGED <<ses, checkout, books, refunds, applied>>

PaymentOf(r) == CHOOSE p \in payments : p.no = refunds[r].no

\* The receipt and the invoice are read, neither with a lock.
ProcessReadInvoice(h) ==
    LET r == handler[h].ref
        inv == PaymentOf(r).inv
    IN
    /\ handler[h].at = "process"
    /\ Goes(h, [at |-> "processed", ref |-> r,
                active |-> receipts[refunds[r].no] = "active",
                saw |-> IF inv = NoInvoice THEN 0 ELSE paid[inv]])
    /\ UNCHANGED <<ses, checkout, books, refunds, applied>>

\* Faulty: the receipt is left as it is.
ProcessCommitKeepsReceipt(h) ==
    LET r == handler[h].ref
        inv == PaymentOf(r).inv
    IN
    /\ handler[h].at = "processed"
    /\ refunds' = [refunds EXCEPT ![r].status = "processed"]
    /\ paid' = IF inv = NoInvoice THEN paid
               ELSE [paid EXCEPT ![inv] = handler[h].saw - refunds[r].amt]
    /\ applied' = [applied EXCEPT ![r] = @ + 1]
    /\ Ends(h)
    /\ UNCHANGED <<ses, checkout, payments, receipts, desk, feeAccounts, rows>>

\* Status, receipt and invoice are written from what was read.
ProcessCommit(h) ==
    LET r == handler[h].ref
        inv == PaymentOf(r).inv
    IN
    /\ handler[h].at = "processed"
    /\ refunds' = [refunds EXCEPT ![r].status = "processed"]
    /\ receipts' = IF handler[h].active
                   THEN [receipts EXCEPT ![refunds[r].no] = "cancelled"] ELSE receipts
    /\ paid' = IF inv = NoInvoice THEN paid
               ELSE [paid EXCEPT ![inv] = handler[h].saw - refunds[r].amt]
    /\ applied' = [applied EXCEPT ![r] = @ + 1]
    /\ Ends(h)
    /\ UNCHANGED <<ses, checkout, payments, desk, feeAccounts, rows>>

\* Verification fails, the connection breaks or the process dies.
Abandon(h) ==
    /\ handler[h] # Idle
    /\ Ends(h)
    /\ UNCHANGED <<ses, checkout, books, refunds, applied>>

\* A payment or a refund of a family that is not modelled draws the first number
\* of its sequence.
OthersDraw(q) ==
    /\ q \notin rows
    /\ rows' = rows \union {q}
    /\ UNCHANGED <<ses, checkout, payments, receipts, paid, desk, feeAccounts, refunds,
                   handler, applied>>

-----------------------------------------------------------------------------
NoSession == [status |-> "none", inv |-> NoInvoice, amt |-> 0]
NoRefund == [status |-> "none", no |-> 0, amt |-> 0, kept |-> TRUE]

\* A school with or without the two accounts, early or late in its year, and no
\* online payment yet.
Init ==
    /\ ses = [s \in Sessions |-> NoSession]
    /\ checkout = [s \in Sessions |-> "none"]
    /\ payments = {}
    /\ receipts = [n \in Numbers |-> "none"]
    /\ paid = [i \in Invoices |-> 0]
    /\ desk = [i \in Invoices |-> 0]
    /\ feeAccounts \in BOOLEAN
    /\ refunds = [r \in Refunds |-> NoRefund]
    /\ rows \in SUBSET Sequences
    /\ handler = [h \in Handlers |-> Idle]
    /\ applied = [r \in Refunds |-> 0]

\* Steps a handler takes once it has begun.
Continues(h) ==
    \/ InitializeCommit(h) \/ GatewayOpens(h)
    \/ WebhookLocks(h) \/ NumberIsMissing(h) \/ InsertLoses(h)
    \/ WebhookRecords(h) \/ WebhookFails(h)
    \/ RefundInsertLoses(h)
    \/ \E r \in Refunds : RefundInsertsRow(h, r) \/ RefundGoesOn(h, r)
    \/ ApproveCommit(h) \/ ProcessReadInvoice(h) \/ ProcessCommit(h)

Next ==
    \/ \E s \in Sessions, inv \in Invoices \union {NoInvoice}, amt \in Amounts :
          CreateSession(s, inv, amt)
    \/ \E s \in Sessions : GatewayCharges(s)
    \/ \E inv \in Invoices, amt \in Amounts : DeskPays(inv, amt)
    \/ \E q \in Sequences : OthersDraw(q)
    \/ \E r \in Refunds, p \in payments, amt \in Amounts : RequestRefund(r, p, amt)
    \/ \E h \in Handlers, p \in payments, amt \in Amounts : RefundFindsNoRow(h, p, amt)
    \/ \E h \in Handlers, s \in Sessions : InitializeRead(h, s) \/ WebhookRead(h, s)
    \/ \E h \in Handlers, r \in Refunds : ApproveRead(h, r) \/ ProcessRead(h, r)
    \/ \E h \in Handlers : Continues(h) \/ Abandon(h)

Spec == Init /\ [][Next]_vars

\* The gateway redelivers a callback until it is accepted, some handler is free
\* again and again to take it, and a handler that runs goes on.  Verification
\* may fail now and then but not for ever.
WebhookVerified(s) ==
    \E h \in Handlers : handler[h].at = "webhook" /\ handler[h].ses = s /\ WebhookLocks(h)
WebhookSucceeds(s) ==
    \E h \in Handlers :
        handler[h].at \in {"number", "insert"} /\ handler[h].ses = s /\ WebhookRecords(h)
Fairness ==
    /\ \A h \in Handlers : WF_vars(Continues(h))
    /\ \A s \in Sessions :
          /\ SF_vars(\E h \in Handlers : WebhookRead(h, s))
          /\ SF_vars(WebhookVerified(s))
          /\ SF_vars(WebhookSucceeds(s))
FairSpec == Spec /\ Fairness

-----------------------------------------------------------------------------
(* Properties *)

PaymentRecord == [no : Numbers, ses : Sessions, inv : Invoices \union {NoInvoice},
                  amt : Amounts, kept : BOOLEAN]
SessionRecord == [status : SessionStatus, inv : Invoices \union {NoInvoice}, amt : Amounts \union {0}]
RefundRecord == [status : RefundStatus, no : Numbers \union {0}, amt : Amounts \union {0},
                 kept : BOOLEAN]
SessionStages == {"initialize", "initialized", "webhook", "number", "insert", "lost"}
Handling ==
    {Idle}
    \union [at : SessionStages, ses : Sessions]
    \union [at : {"refundInsert", "refundLost"}, no : Numbers, amt : Amounts]
    \union [at : {"approve", "process"}, ref : Refunds]
    \union [at : {"processed"}, ref : Refunds, active : BOOLEAN, saw : Int]

TypeOK ==
    /\ ses \in [Sessions -> SessionRecord]
    /\ checkout \in [Sessions -> {"none", "open", "charged"}]
    /\ payments \subseteq PaymentRecord
    /\ receipts \in [Numbers -> {"none", "active", "cancelled"}]
    /\ paid \in [Invoices -> Int]
    /\ desk \in [Invoices -> Int]
    /\ feeAccounts \in BOOLEAN
    /\ refunds \in [Refunds -> RefundRecord]
    /\ rows \subseteq Sequences
    /\ handler \in [Handlers -> Handling]
    /\ applied \in [Refunds -> Nat]

\* What the comment on the session's lock in process_chapa_payment promises: two
\* callbacks never pay one session twice.
OnePaymentPerSession == \A p, q \in payments : p.ses = q.ses => p = q

\* What the code keeps of that promise, although two processes may both hold the
\* session as "pending" when they lock it: one charge makes one payment under
\* the session's lock, and at most one more, made by a callback that lost the
\* lock to the rollback of the year's first payment number.
SecondPaymentOnlyFromLostLock ==
    \A p, q \in payments : p.ses = q.ses /\ p.kept = q.kept => p = q

\* A session is completed together with its payment and receipt or not at all.
CompletedIsPaid ==
    \A s \in Sessions : ses[s].status = "completed" =>
        \E p \in payments : p.ses = s /\ receipts[p.no] # "none"

\* A receipt is cancelled when, and only when, a refund of its payment has been
\* processed, however processors interleave and however often one repeats.
ReceiptFollowsRefund ==
    \A p \in payments :
        receipts[p.no] = "cancelled"
            <=> \E r \in Refunds : refunds[r].no = p.no /\ applied[r] > 0

\* Money as sets: one unit for every birr that the payments of S brought, and
\* one for every birr that those with a negative amount took away.
Units(S) == UNION {{p} \X (1..p.amt) : p \in S}
Debts(S) == UNION {{p} \X (1..-p.amt) : p \in S}
Money(S) == Cardinality(Units(S)) - Cardinality(Debts(S))
PaymentsOf(i) == {p \in payments : p.inv = i}

\* Until a refund is processed, paid_amount is what the desk took and what the
\* sessions brought in: webhooks and desk payments lose nothing to each other.
InvoiceBooksBalance ==
    (\A r \in Refunds : applied[r] = 0)
        => \A i \in Invoices : paid[i] = desk[i] + Money(PaymentsOf(i))

BothPending(q, r) ==
    /\ refunds[q].status = "pending" /\ refunds[r].status = "pending"
    /\ refunds[q].no = refunds[r].no

\* What the comment on the payment's lock in request_refund promises: two
\* refunds of a payment never wait for approval at once.
OnePendingRefund == \A q, r \in Refunds : BothPending(q, r) => q = r

\* What the code keeps of that promise: of two refunds that wait at once, one
\* was requested by a handler that lost the payment's lock to the rollback of
\* the year's first refund number, and there is no third.
SecondRefundOnlyFromLostLock ==
    \A q, r \in Refunds : BothPending(q, r) /\ refunds[q].kept = refunds[r].kept => q = r

\* The callback of a charge completes its session, which the status column says
\* comes after "processing": even in a school without the two accounts.
ChargeIsRecorded ==
    [](~feeAccounts) => \A s \in Sessions : checkout[s] = "charged" ~> Recorded(s)

\* An approved refund reduces its invoice once.
RefundAppliedOnce == \A r \in Refunds : applied[r] <= 1
=============================================================================
