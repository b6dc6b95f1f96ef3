---------------------------- MODULE SchoolLedger ----------------------------
(***************************************************************************)
(* What the finance service promises its callers, as if every request were *)
(* one indivisible step: a school's invoices, payments, student wallets    *)
(* and its double-entry journal.  FinanceLedger models the transactions,   *)
(* row locks and retries of the code and implements this specification.    *)
(***************************************************************************)
EXTENDS Integers, FiniteSets

CONSTANTS
    Invoices,       \* invoices that may be paid
    Wallets,        \* student wallets
    Keys,           \* idempotency keys a client may send
    NoKey,          \* the request carries no idempotency key
    NoInvoice,      \* a payment that names no invoice
    Amounts,        \* amounts of money a request may carry
    InvoiceTotal    \* total_amount of every invoice

\* Nothing in the code asks for more: neither the request schemas nor the
\* services look at the sign of an amount.
ASSUME AmountsAreIntegers == Amounts \subseteq Int
ASSUME TotalIsAnInteger == InvoiceTotal \in Int
ASSUME NoKeyIsNoKey == NoKey \notin Keys
ASSUME NoInvoiceIsNone == NoInvoice \notin Invoices

VARIABLES
    seq,            \* last number issued, by prefix; 0 before the first
    paid,           \* paid_amount of each invoice
    walletRows,     \* wallets that exist
    balance,        \* balance of each wallet
    payments,       \* payment records
    wtxns,          \* wallet transaction records
    journal,        \* journal entries
    reversed        \* is_reversed / reversed_entry_id marks on entries

ledgerVars ==
    <<seq, paid, walletRows, balance, payments, wtxns, journal, reversed>>

Prefixes == {"PAY", "JE"}
\* "credit" stands for top_up and refund, "debit" for payment and withdrawal,
\* "other" for every other transaction_type the schema lets through.
WalletKinds == {"credit", "debit", "other"}
EntryKinds == {"payment", "wallet", "manual", "reversal"}

Payment == [no: Nat, inv: Invoices \union {NoInvoice}, amt: Amounts,
            key: Keys \union {NoKey}, je: Nat]
WalletTxn == [wal: Wallets, kind: WalletKinds, before: Int, after: Int, je: Nat]
Entry == [no: Nat, kind: EntryKinds, of: Nat]
Mark == [of: Nat, by: Nat]

(***************************************************************************)
(* The rules a request obeys.                                              *)
(***************************************************************************)
\* Faulty: the payment alone is compared with the total.
FitsInvoiceAlone(inv, amt) == inv # NoInvoice => amt <= InvoiceTotal
FitsInvoice(inv, amt) == inv # NoInvoice => paid[inv] + amt <= InvoiceTotal
Credited(inv, amt) ==
    IF inv = NoInvoice THEN paid ELSE [paid EXCEPT ![inv] = @ + amt]
KeyIsFresh(key) == key # NoKey => \A p \in payments : p.key # key
Funds(wal, kind, amt) == kind = "debit" => balance[wal] >= amt
Delta(kind, amt) == IF kind = "credit" THEN amt ELSE -amt

-----------------------------------------------------------------------------
\* Documents of the year so far: none, or one payment of no invoice.
OpeningPayment(amt) ==
    [no |-> 1, inv |-> NoInvoice, amt |-> amt, key |-> NoKey, je |-> 1]

LedgerInit ==
    /\ paid = [i \in Invoices |-> 0]
    /\ walletRows = {}
    /\ balance = [w \in Wallets |-> 0]
    /\ wtxns = {}
    /\ reversed = {}
    /\ \/ /\ seq = [p \in Prefixes |-> 0]
          /\ payments = {}
          /\ journal = {}
       \/ \E amt \in Amounts :
          /\ seq = [p \in Prefixes |-> 1]
          /\ payments = {OpeningPayment(amt)}
          /\ journal = {[no |-> 1, kind |-> "payment", of |-> 0]}

NewEntry(kind, of) ==
    journal' = journal \union {[no |-> seq["JE"] + 1, kind |-> kind, of |-> of]}

\* A payment: the invoice, the payment and its journal entry, all or nothing.
Pay(inv, amt, key) ==
    /\ FitsInvoice(inv, amt)
    /\ KeyIsFresh(key)
    /\ paid' = Credited(inv, amt)
    /\ payments' = payments \union
        {[no |-> seq["PAY"] + 1, inv |-> inv, amt |-> amt, key |-> key,
          je |-> seq["JE"] + 1]}
    /\ NewEntry("payment", 0)
    /\ seq' = [p \in Prefixes |-> seq[p] + 1]
    /\ UNCHANGED <<walletRows, balance, wtxns, reversed>>

\* A wallet movement: the balance, the transaction and its journal entry.
MoveWallet(wal, kind, amt) ==
    /\ Funds(wal, kind, amt)
    /\ walletRows' = walletRows \union {wal}
    /\ balance' = [balance EXCEPT ![wal] = @ + Delta(kind, amt)]
    /\ wtxns' = wtxns \union
        {[wal |-> wal, kind |-> kind, before |-> balance[wal],
          after |-> balance[wal] + Delta(kind, amt), je |-> seq["JE"] + 1]}
    /\ NewEntry("wallet", 0)
    /\ seq' = [seq EXCEPT !["JE"] = @ + 1]
    /\ UNCHANGED <<paid, payments, reversed>>

\* A journal entry that stands alone.  The promise is this weak: an entry
\* labelled as a payment's or a wallet's may stand alone too.
PostEntry(kind, of) ==
    /\ kind = "reversal" => \E e \in journal : e.no = of
    /\ NewEntry(kind, of)
    /\ seq' = [seq EXCEPT !["JE"] = @ + 1]
    /\ UNCHANGED <<paid, walletRows, balance, payments, wtxns, reversed>>

\* An entry is marked reversed only once its reversing entry is in the journal.
MarkEntry(of, by) ==
    /\ \E e \in journal : e = [no |-> by, kind |-> "reversal", of |-> of]
    /\ reversed' = {m \in reversed : m.of # of} \union {[of |-> of, by |-> by]}
    /\ UNCHANGED <<seq, paid, walletRows, balance, payments, wtxns, journal>>

LedgerNext ==
    \/ \E inv \in Invoices \union {NoInvoice}, amt \in Amounts,
          key \in Keys \union {NoKey} : Pay(inv, amt, key)
    \/ \E wal \in Wallets, kind \in WalletKinds, amt \in Amounts :
          MoveWallet(wal, kind, amt)
    \/ \E kind \in EntryKinds, of \in 0..seq["JE"] : PostEntry(kind, of)
    \/ \E of, by \in 1..seq["JE"] : MarkEntry(of, by)

LedgerSpec == LedgerInit /\ [][LedgerNext]_ledgerVars

-----------------------------------------------------------------------------
(* What the books must satisfy. *)

LedgerTypeOK ==
    /\ seq \in [Prefixes -> Nat]
    /\ paid \in [Invoices -> Int]
    /\ walletRows \subseteq Wallets
    /\ balance \in [Wallets -> Int]
    /\ payments \subseteq Payment
    /\ wtxns \subseteq WalletTxn
    /\ journal \subseteq Entry
    /\ reversed \subseteq Mark

\* S is numbered 1, 2, ..., n: no number twice, no number skipped.
Gapless(S, n) ==
    /\ \A x \in S : x.no \in 1..n
    /\ \A k \in 1..n : \E x \in S : x.no = k
    /\ \A x, y \in S : x.no = y.no => x = y

\* Document numbers are unique and leave no gap, whatever transactions roll
\* back: the promise of next_sequence_number.
NumbersGapless ==
    /\ Gapless(journal, seq["JE"])
    /\ Gapless(payments, seq["PAY"])

PaymentsOf(i) == {p \in payments : p.inv = i}

\* Concurrent payments of one invoice never add up to more than its total.
NeverOverpaid ==
    \A i \in Invoices : PaymentsOf(i) # {} => paid[i] <= InvoiceTotal

\* Money as sets: one unit for every birr that the payments of S brought, and
\* one for every birr that those with a negative amount took away.
Units(S) == UNION {{p} \X (1..p.amt) : p \in S}
Debts(S) == UNION {{p} \X (1..-p.amt) : p \in S}
Money(S) == Cardinality(Units(S)) - Cardinality(Debts(S))

\* paid_amount is the sum of the invoice's payment records: no payment is lost
\* and none is counted twice, whatever rolls back.
InvoiceBooksBalance ==
    \A i \in Invoices : paid[i] = Money(PaymentsOf(i))

\* An idempotency key is charged once, however many requests carry it.
KeyPaysOnce ==
    \A p, q \in payments : p.key = q.key /\ p.key # NoKey => p = q

TxnsBefore(wal, n) == {t \in wtxns : t.wal = wal /\ t.je < n}
\* The last transaction of S left the balance bal.
ClosesAt(S, bal) ==
    /\ S = {} => bal = 0
    /\ \A t \in S : (\A u \in S : u.je <= t.je) => t.after = bal

\* A wallet statement is a chain: every transaction starts from the balance the
\* one before it left, the last one left the wallet's balance, and no payment
\* or withdrawal overdraws (the lost-update hazard of wallet_transaction).
WalletBooksBalance ==
    /\ \A wal \in Wallets : ClosesAt(TxnsBefore(wal, seq["JE"] + 1), balance[wal])
    /\ \A t \in wtxns : ClosesAt(TxnsBefore(t.wal, t.je), t.before)
    /\ \A t \in wtxns : t.kind = "debit" => t.after >= 0

\* Every payment and wallet transaction has a journal entry of its own kind,
\* shared with no other document.
DocumentsHaveEntries ==
    /\ \A p \in payments : [no |-> p.je, kind |-> "payment", of |-> 0] \in journal
    /\ \A t \in wtxns : [no |-> t.je, kind |-> "wallet", of |-> 0] \in journal
    /\ \A p, q \in payments : p.je = q.je => p = q
    /\ \A t, u \in wtxns : t.je = u.je => t = u

\* An entry is marked at most once, and the mark names a committed entry that
\* reverses it: never a reversal that was rolled back or lost in a crash.
MarksPointAtReversals ==
    /\ \A m \in reversed : [no |-> m.by, kind |-> "reversal", of |-> m.of] \in journal
    /\ \A m, n \in reversed : m.of = n.of => m = n

\* The converse of DocumentsHaveEntries: every entry posted for a payment or a
\* wallet movement belongs to one that exists.
JournalMatchesDocuments ==
    \A e \in journal :
        /\ e.kind = "payment" => \E p \in payments : p.je = e.no
        /\ e.kind = "wallet" => \E t \in wtxns : t.je = e.no

\* No entry is reversed twice.
ReversedAtMostOnce ==
    \A d, e \in journal :
        d.kind = "reversal" /\ e.kind = "reversal" /\ d.of = e.of => d = e
=============================================================================
