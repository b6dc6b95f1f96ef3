------------------------- MODULE SchoolLedgerProofs -------------------------
(***************************************************************************)
(* The books stay right under every sequence of indivisible postings, for  *)
(* any number of invoices, wallets, keys and amounts.  The conjuncts of    *)
(* LedgerInv are inductive together: the numbers bound the je fields of    *)
(* the documents, which order the wallet statements.                       *)
(***************************************************************************)
EXTENDS SchoolLedger, FiniteSetTheorems, TLAPS

Countable(S) == IsFiniteSet(Units(S)) /\ IsFiniteSet(Debts(S))
MoneyIsFinite == \A i \in Invoices : Countable(PaymentsOf(i))

LedgerInv ==
    /\ LedgerTypeOK
    /\ NumbersGapless
    /\ NeverOverpaid
    /\ MoneyIsFinite
    /\ InvoiceBooksBalance
    /\ KeyPaysOnce
    /\ DocumentsHaveEntries
    /\ WalletBooksBalance
    /\ MarksPointAtReversals

-----------------------------------------------------------------------------
(* Numbering *)

\* Appending the next number keeps a numbering without gaps and repetitions.
LEMMA GaplessAppend ==
    ASSUME NEW S, NEW n \in Nat, NEW x, x.no = n + 1, Gapless(S, n)
    PROVE  Gapless(S \union {x}, n + 1)
<1>1. \A y \in S \union {x} : y.no \in 1..(n + 1)
  BY DEF Gapless
<1>2. \A k \in 1..(n + 1) : \E y \in S \union {x} : y.no = k
  <2> SUFFICES ASSUME NEW k \in 1..(n + 1)
               PROVE  \E y \in S \union {x} : y.no = k
    OBVIOUS
  <2>1. CASE k = n + 1
    BY <2>1
  <2>2. CASE k \in 1..n
    BY <2>2 DEF Gapless
  <2> QED BY <2>1, <2>2
<1>3. \A y \in S : y.no # n + 1
  BY DEF Gapless
<1>4. \A y, z \in S \union {x} : y.no = z.no => y = z
  BY <1>3 DEF Gapless
<1> QED BY <1>1, <1>2, <1>4 DEF Gapless

\* Every document's entry number was issued.
LEMMA EntryNumbersIssued ==
    ASSUME LedgerInv
    PROVE  /\ \A p \in payments : p.je \in 1..seq["JE"]
           /\ \A t \in wtxns : t.je \in 1..seq["JE"]
<1>1. \A e \in journal : e.no \in 1..seq["JE"]
  BY DEF LedgerInv, NumbersGapless, Gapless
<1>2. ASSUME NEW p \in payments PROVE p.je \in 1..seq["JE"]
  <2>1. [no |-> p.je, kind |-> "payment", of |-> 0] \in journal
    BY DEF LedgerInv, DocumentsHaveEntries
  <2> QED BY <1>1, <2>1
<1>3. ASSUME NEW t \in wtxns PROVE t.je \in 1..seq["JE"]
  <2>1. [no |-> t.je, kind |-> "wallet", of |-> 0] \in journal
    BY DEF LedgerInv, DocumentsHaveEntries
  <2> QED BY <1>1, <2>1
<1> QED BY <1>2, <1>3

-----------------------------------------------------------------------------
(* Money *)

\* One element more brings its coins, if it has any.
LEMMA CoinsAdd ==
    ASSUME NEW C, IsFiniteSet(C), NEW x, NEW n \in Int,
           C \intersect ({x} \X (1..n)) = {}
    PROVE  /\ IsFiniteSet(C \union ({x} \X (1..n)))
           /\ Cardinality(C \union ({x} \X (1..n)))
                = Cardinality(C) + IF n > 0 THEN n ELSE 0
<1> DEFINE coins == 1..n
           new == {x} \X coins
           m == IF n > 0 THEN n ELSE 0
<1>1. IsFiniteSet(new) /\ Cardinality(new) = m
  <2>1. IsFiniteSet({x}) /\ Cardinality({x}) = 1
    BY FS_Singleton
  <2>2. IsFiniteSet(coins) /\ Cardinality(coins) = m
    BY FS_Interval
  <2>3. m \in Nat
    OBVIOUS
  <2> HIDE DEF coins, m
  <2>4. IsFiniteSet(new) /\ Cardinality(new) = 1 * m
    BY <2>1, <2>2, FS_Product
  <2> QED BY <2>3, <2>4
<1>2. C \intersect new = {}
  OBVIOUS
<1> HIDE DEF new
<1>3. /\ IsFiniteSet(C \union new)
      /\ Cardinality(C \union new)
            = Cardinality(C) + Cardinality(new) - Cardinality(C \intersect new)
  BY <1>1, FS_Union
<1>4. Cardinality(C \intersect new) = 0
  BY <1>2, FS_EmptySet
<1>5. Cardinality(C) \in Nat /\ m \in Nat
  BY FS_CardinalityType
<1>6. Cardinality(C \union new) = Cardinality(C) + m
  <2> DEFINE c == Cardinality(C)
             d == Cardinality(C \union new)
             e == Cardinality(C \intersect new)
             f == Cardinality(new)
  <2>1. d = c + f - e /\ e = 0 /\ f = m /\ c \in Nat /\ m \in Nat
    BY <1>1, <1>3, <1>4, <1>5
  <2> HIDE DEF c, d, e, f, m
  <2>2. d = c + m
    BY <2>1
  <2> QED BY <2>2 DEF c, d
<1> QED BY <1>3, <1>6 DEF new, m

\* One payment more brings its amount, whatever its sign.
LEMMA MoneyAdd ==
    ASSUME NEW S, NEW x, x \notin S, x.amt \in Int, Countable(S)
    PROVE  /\ Countable(S \union {x})
           /\ Money(S \union {x}) = Money(S) + x.amt
<1> DEFINE n == x.amt
<1>1. /\ Units(S \union {x}) = Units(S) \union ({x} \X (1..n))
      /\ Units(S) \intersect ({x} \X (1..n)) = {}
  BY DEF Units
<1>2. /\ Debts(S \union {x}) = Debts(S) \union ({x} \X (1..-n))
      /\ Debts(S) \intersect ({x} \X (1..-n)) = {}
  BY DEF Debts
<1>3. n \in Int /\ -n \in Int
  OBVIOUS
<1> HIDE DEF n
<1>4. /\ IsFiniteSet(Units(S \union {x}))
      /\ Cardinality(Units(S \union {x})) = Cardinality(Units(S)) + IF n > 0 THEN n ELSE 0
  <2>1. IsFiniteSet(Units(S))
    BY DEF Countable
  <2>2. /\ IsFiniteSet(Units(S) \union ({x} \X (1..n)))
        /\ Cardinality(Units(S) \union ({x} \X (1..n)))
              = Cardinality(Units(S)) + IF n > 0 THEN n ELSE 0
    BY <1>1, <1>3, <2>1, CoinsAdd
  <2> QED BY <1>1, <2>2
<1>5. /\ IsFiniteSet(Debts(S \union {x}))
      /\ Cardinality(Debts(S \union {x})) = Cardinality(Debts(S)) + IF -n > 0 THEN -n ELSE 0
  <2>1. IsFiniteSet(Debts(S))
    BY DEF Countable
  <2>2. PICK k \in Int : k = -n
    BY <1>3
  <2>3. /\ IsFiniteSet(Debts(S) \union ({x} \X (1..k)))
        /\ Cardinality(Debts(S) \union ({x} \X (1..k)))
              = Cardinality(Debts(S)) + IF k > 0 THEN k ELSE 0
    BY <1>2, <2>1, <2>2, CoinsAdd
  <2> QED BY <1>2, <2>2, <2>3
<1>6. Cardinality(Units(S)) \in Nat /\ Cardinality(Debts(S)) \in Nat
  BY FS_CardinalityType DEF Countable
<1>7. Money(S \union {x}) = Money(S) + n
  <2> DEFINE u == Cardinality(Units(S))
             d == Cardinality(Debts(S))
  <2>1. /\ u \in Nat /\ d \in Nat
        /\ Money(S) = u - d
        /\ Money(S \union {x}) = (u + IF n > 0 THEN n ELSE 0) - (d + IF -n > 0 THEN -n ELSE 0)
    BY <1>4, <1>5, <1>6 DEF Money
  <2> HIDE DEF u, d
  <2> QED BY <1>3, <2>1
<1> QED BY <1>4, <1>5, <1>7 DEF Countable, n

\* No payment, no money.
LEMMA NoMoney == Countable({}) /\ Money({}) = 0
<1>1. Units({}) = {} /\ Debts({}) = {}
  BY DEF Units, Debts
<1> QED BY <1>1, FS_EmptySet DEF Countable, Money

-----------------------------------------------------------------------------
(* The initial books *)

LEMMA InitEstablishesInv == LedgerInit => LedgerInv
<1> SUFFICES ASSUME LedgerInit PROVE LedgerInv
  OBVIOUS
<1> USE AmountsAreIntegers, TotalIsAnInteger
<1>a. \A i \in Invoices : PaymentsOf(i) = {}
  BY NoInvoiceIsNone DEF LedgerInit, PaymentsOf, OpeningPayment
<1>0. MoneyIsFinite /\ InvoiceBooksBalance
  <2> SUFFICES ASSUME NEW i \in Invoices
               PROVE  Countable(PaymentsOf(i)) /\ Money(PaymentsOf(i)) = 0
    BY DEF LedgerInit, MoneyIsFinite, InvoiceBooksBalance
  <2>1. PaymentsOf(i) = {}
    BY <1>a
  <2> QED BY <2>1, NoMoney
<1>1. CASE seq = [p \in Prefixes |-> 0] /\ payments = {} /\ journal = {}
  BY <1>a, <1>0, <1>1 DEF LedgerInit, LedgerInv, LedgerTypeOK, NumbersGapless, Gapless,
     NeverOverpaid, KeyPaysOnce, DocumentsHaveEntries, WalletBooksBalance,
     ClosesAt, TxnsBefore, MarksPointAtReversals, Prefixes
<1>2. ASSUME NEW amt \in Amounts,
             seq = [p \in Prefixes |-> 1],
             payments = {OpeningPayment(amt)},
             journal = {[no |-> 1, kind |-> "payment", of |-> 0]}
      PROVE  LedgerInv
  <2>1. LedgerTypeOK
    BY <1>2 DEF LedgerInit, LedgerTypeOK, OpeningPayment, Payment, Entry,
       EntryKinds, Prefixes
  <2>2. NumbersGapless
    BY <1>2 DEF NumbersGapless, Gapless, OpeningPayment, Prefixes
  <2>3. NeverOverpaid /\ WalletBooksBalance /\ MarksPointAtReversals
    BY <1>a DEF LedgerInit, NeverOverpaid, WalletBooksBalance, ClosesAt, TxnsBefore,
       MarksPointAtReversals
  <2>4. KeyPaysOnce /\ DocumentsHaveEntries
    BY <1>2 DEF LedgerInit, KeyPaysOnce, DocumentsHaveEntries, OpeningPayment
  <2> QED BY <1>0, <2>1, <2>2, <2>3, <2>4 DEF LedgerInv
<1> QED BY <1>1, <1>2 DEF LedgerInit

-----------------------------------------------------------------------------
(* Every posting keeps the types *)

LEMMA TypeStep == LedgerInv /\ [LedgerNext]_ledgerVars => LedgerTypeOK'
<1> SUFFICES ASSUME LedgerInv, [LedgerNext]_ledgerVars PROVE LedgerTypeOK'
  OBVIOUS
<1> USE AmountsAreIntegers DEF LedgerInv, LedgerTypeOK, Prefixes
<1>1. ASSUME NEW inv \in Invoices \union {NoInvoice}, NEW amt \in Amounts,
             NEW key \in Keys \union {NoKey}, Pay(inv, amt, key)
      PROVE  LedgerTypeOK'
  <2>1. paid' \in [Invoices -> Int]
    BY <1>1 DEF Pay, Credited
  <2>2. payments' \subseteq Payment
    BY <1>1 DEF Pay, Payment
  <2>3. journal' \subseteq Entry
    BY <1>1 DEF Pay, NewEntry, Entry, EntryKinds
  <2> QED BY <1>1, <2>1, <2>2, <2>3 DEF Pay
<1>2. ASSUME NEW wal \in Wallets, NEW kind \in WalletKinds, NEW amt \in Amounts,
             MoveWallet(wal, kind, amt)
      PROVE  LedgerTypeOK'
  <2>1. balance[wal] \in Int /\ balance[wal] + Delta(kind, amt) \in Int
    BY DEF Delta
  <2>2. balance' \in [Wallets -> Int]
    BY <1>2, <2>1 DEF MoveWallet
  <2>3. wtxns' \subseteq WalletTxn
    BY <1>2, <2>1 DEF MoveWallet, WalletTxn
  <2>4. journal' \subseteq Entry
    BY <1>2 DEF MoveWallet, NewEntry, Entry, EntryKinds
  <2> QED BY <1>2, <2>2, <2>3, <2>4 DEF MoveWallet
<1>3. ASSUME NEW kind \in EntryKinds, NEW of \in 0..seq["JE"], PostEntry(kind, of)
      PROVE  LedgerTypeOK'
  <2>1. journal' \subseteq Entry
    BY <1>3 DEF PostEntry, NewEntry, Entry
  <2> QED BY <1>3, <2>1 DEF PostEntry
<1>4. ASSUME NEW of \in 1..seq["JE"], NEW by \in 1..seq["JE"], MarkEntry(of, by)
      PROVE  LedgerTypeOK'
  <2>1. reversed' \subseteq Mark
    BY <1>4 DEF MarkEntry, Mark
  <2> QED BY <1>4, <2>1 DEF MarkEntry
<1>5. CASE UNCHANGED ledgerVars
  BY <1>5 DEF ledgerVars
<1> QED BY <1>1, <1>2, <1>3, <1>4, <1>5 DEF LedgerNext

-----------------------------------------------------------------------------
(* Every posting keeps the books *)

LEMMA NumberingStep ==
    LedgerInv /\ [LedgerNext]_ledgerVars => NumbersGapless'
<1> SUFFICES ASSUME LedgerInv, [LedgerNext]_ledgerVars PROVE NumbersGapless'
  OBVIOUS
<1>1. seq["JE"] \in Nat /\ seq["PAY"] \in Nat
  BY DEF LedgerInv, LedgerTypeOK, Prefixes
<1>2. Gapless(journal, seq["JE"]) /\ Gapless(payments, seq["PAY"])
  BY DEF LedgerInv, NumbersGapless
<1>3. ASSUME NEW kind, NEW of, NewEntry(kind, of), seq'["JE"] = seq["JE"] + 1
      PROVE  Gapless(journal', seq'["JE"])
  <2> DEFINE x == [no |-> seq["JE"] + 1, kind |-> kind, of |-> of]
  <2>1. x.no = seq["JE"] + 1
    OBVIOUS
  <2>2. Gapless(journal \union {x}, seq["JE"] + 1)
    <3> HIDE DEF x
    <3> QED BY <1>1, <1>2, <2>1, GaplessAppend
  <2> QED BY <1>3, <2>2 DEF NewEntry
<1>4. ASSUME NEW inv \in Invoices \union {NoInvoice}, NEW amt \in Amounts,
             NEW key \in Keys \union {NoKey}, Pay(inv, amt, key)
      PROVE  NumbersGapless'
  <2> DEFINE x == [no |-> seq["PAY"] + 1, inv |-> inv, amt |-> amt, key |-> key,
                   je |-> seq["JE"] + 1]
  <2>1. seq'["JE"] = seq["JE"] + 1 /\ seq'["PAY"] = seq["PAY"] + 1
    BY <1>4 DEF Pay, Prefixes
  <2>2. Gapless(payments \union {x}, seq["PAY"] + 1)
    <3>1. x.no = seq["PAY"] + 1
      OBVIOUS
    <3> HIDE DEF x
    <3> QED BY <1>1, <1>2, <3>1, GaplessAppend
  <2>3. Gapless(payments', seq'["PAY"])
    BY <1>4, <2>1, <2>2 DEF Pay
  <2>4. Gapless(journal', seq'["JE"])
    BY <1>3, <1>4, <2>1 DEF Pay
  <2> QED BY <2>3, <2>4 DEF NumbersGapless
<1>5. ASSUME NEW wal \in Wallets, NEW kind \in WalletKinds, NEW amt \in Amounts,
             MoveWallet(wal, kind, amt)
      PROVE  NumbersGapless'
  <2>1. seq'["JE"] = seq["JE"] + 1 /\ seq'["PAY"] = seq["PAY"]
    BY <1>5 DEF MoveWallet, LedgerInv, LedgerTypeOK, Prefixes
  <2>2. Gapless(journal', seq'["JE"])
    BY <1>3, <1>5, <2>1 DEF MoveWallet
  <2> QED BY <1>2, <1>5, <2>1, <2>2 DEF MoveWallet, NumbersGapless
<1>6. ASSUME NEW kind \in EntryKinds, NEW of \in 0..seq["JE"], PostEntry(kind, of)
      PROVE  NumbersGapless'
  <2>1. seq'["JE"] = seq["JE"] + 1 /\ seq'["PAY"] = seq["PAY"]
    BY <1>6 DEF PostEntry, LedgerInv, LedgerTypeOK, Prefixes
  <2>2. Gapless(journal', seq'["JE"])
    BY <1>3, <1>6, <2>1 DEF PostEntry
  <2> QED BY <1>2, <1>6, <2>1, <2>2 DEF PostEntry, NumbersGapless
<1>7. ASSUME NEW of \in 1..seq["JE"], NEW by \in 1..seq["JE"], MarkEntry(of, by)
      PROVE  NumbersGapless'
  BY <1>2, <1>7 DEF MarkEntry, NumbersGapless
<1>8. CASE UNCHANGED ledgerVars
  BY <1>2, <1>8 DEF ledgerVars, NumbersGapless
<1> QED BY <1>4, <1>5, <1>6, <1>7, <1>8 DEF LedgerNext

LEMMA PaymentsStep ==
    LedgerInv /\ [LedgerNext]_ledgerVars => (NeverOverpaid /\ KeyPaysOnce)'
<1> SUFFICES ASSUME LedgerInv, [LedgerNext]_ledgerVars
             PROVE  (NeverOverpaid /\ KeyPaysOnce)'
  OBVIOUS
<1> USE DEF LedgerInv, NeverOverpaid, KeyPaysOnce
<1>1. ASSUME NEW inv \in Invoices \union {NoInvoice}, NEW amt \in Amounts,
             NEW key \in Keys \union {NoKey}, Pay(inv, amt, key)
      PROVE  (NeverOverpaid /\ KeyPaysOnce)'
  <2>1. NeverOverpaid'
    <3> SUFFICES ASSUME NEW i \in Invoices, PaymentsOf(i)' # {}
                 PROVE  paid'[i] <= InvoiceTotal
      OBVIOUS
    <3>1. CASE i = inv
      BY <1>1, <3>1, NoInvoiceIsNone DEF Pay, FitsInvoice, Credited, LedgerTypeOK
    <3>2. CASE i # inv
      <4>1. PaymentsOf(i)' = PaymentsOf(i)
        BY <1>1, <3>2 DEF Pay, PaymentsOf
      <4>2. paid'[i] = paid[i]
        BY <1>1, <3>2 DEF Pay, Credited, LedgerTypeOK
      <4> QED BY <4>1, <4>2
    <3> QED BY <3>1, <3>2
  <2>2. KeyPaysOnce'
    BY <1>1 DEF Pay, KeyIsFresh
  <2> QED BY <2>1, <2>2
<1>2. CASE UNCHANGED <<paid, payments>>
  BY <1>2 DEF PaymentsOf
<1> QED BY <1>1, <1>2 DEF LedgerNext, MoveWallet, PostEntry, MarkEntry, ledgerVars

\* A payment adds to its invoice what its record says, and no other invoice.
LEMMA MoneyStep ==
    LedgerInv /\ [LedgerNext]_ledgerVars => (MoneyIsFinite /\ InvoiceBooksBalance)'
<1> SUFFICES ASSUME LedgerInv, [LedgerNext]_ledgerVars
             PROVE  (MoneyIsFinite /\ InvoiceBooksBalance)'
  OBVIOUS
<1>1. ASSUME NEW inv \in Invoices \union {NoInvoice}, NEW amt \in Amounts,
             NEW key \in Keys \union {NoKey}, Pay(inv, amt, key)
      PROVE  (MoneyIsFinite /\ InvoiceBooksBalance)'
  <2> DEFINE x == [no |-> seq["PAY"] + 1, inv |-> inv, amt |-> amt, key |-> key,
                   je |-> seq["JE"] + 1]
  <2>1. payments' = payments \union {x} /\ paid' = Credited(inv, amt)
    BY <1>1 DEF Pay
  <2>2. x.inv = inv /\ x.amt = amt /\ x.no = seq["PAY"] + 1 /\ amt \in Int
    BY AmountsAreIntegers
  <2>3. x \notin payments
    <3>1. \A p \in payments : p.no \in 1..seq["PAY"]
      BY DEF LedgerInv, NumbersGapless, Gapless
    <3>2. seq["PAY"] \in Nat
      BY DEF LedgerInv, LedgerTypeOK, Prefixes
    <3> QED BY <2>2, <3>1, <3>2
  <2> HIDE DEF x
  <2> SUFFICES ASSUME NEW i \in Invoices
               PROVE  /\ Countable(PaymentsOf(i)')
                      /\ paid'[i] = Money(PaymentsOf(i)')
    BY DEF MoneyIsFinite, InvoiceBooksBalance, Countable, Money, Units, Debts, PaymentsOf
  <2>4. /\ Countable(PaymentsOf(i)) /\ paid[i] = Money(PaymentsOf(i))
        /\ paid \in [Invoices -> Int] /\ i # NoInvoice
    BY NoInvoiceIsNone DEF LedgerInv, MoneyIsFinite, InvoiceBooksBalance, LedgerTypeOK
  <2>5. CASE i = inv
    <3>1. PaymentsOf(i)' = PaymentsOf(i) \union {x} /\ x \notin PaymentsOf(i)
      BY <2>1, <2>2, <2>3, <2>5 DEF PaymentsOf
    <3>2. paid'[i] = paid[i] + amt
      BY <2>1, <2>4, <2>5 DEF Credited
    <3> QED BY <2>2, <2>4, <3>1, <3>2, MoneyAdd
  <2>6. CASE i # inv
    <3>1. PaymentsOf(i)' = PaymentsOf(i)
      BY <2>1, <2>2, <2>6 DEF PaymentsOf
    <3>2. paid'[i] = paid[i]
      BY <2>1, <2>4, <2>6 DEF Credited
    <3> QED BY <2>4, <3>1, <3>2
  <2> QED BY <2>5, <2>6
<1>2. CASE UNCHANGED <<paid, payments>>
  BY <1>2 DEF LedgerInv, MoneyIsFinite, InvoiceBooksBalance, Countable, Money, Units, Debts, PaymentsOf
<1> QED BY <1>1, <1>2 DEF LedgerNext, MoveWallet, PostEntry, MarkEntry, ledgerVars

LEMMA DocumentsStep ==
    LedgerInv /\ [LedgerNext]_ledgerVars
        => (DocumentsHaveEntries /\ MarksPointAtReversals)'
<1> SUFFICES ASSUME LedgerInv, [LedgerNext]_ledgerVars
             PROVE  (DocumentsHaveEntries /\ MarksPointAtReversals)'
  OBVIOUS
<1>0. /\ \A p \in payments : p.je # seq["JE"] + 1
      /\ \A t \in wtxns : t.je # seq["JE"] + 1
  BY EntryNumbersIssued DEF LedgerInv, LedgerTypeOK, Prefixes
<1> USE DEF LedgerInv, DocumentsHaveEntries, MarksPointAtReversals
<1>1. ASSUME NEW inv \in Invoices \union {NoInvoice}, NEW amt \in Amounts,
             NEW key \in Keys \union {NoKey}, Pay(inv, amt, key)
      PROVE  (DocumentsHaveEntries /\ MarksPointAtReversals)'
  BY <1>0, <1>1 DEF Pay, NewEntry
<1>2. ASSUME NEW wal \in Wallets, NEW kind \in WalletKinds, NEW amt \in Amounts,
             MoveWallet(wal, kind, amt)
      PROVE  (DocumentsHaveEntries /\ MarksPointAtReversals)'
  BY <1>0, <1>2 DEF MoveWallet, NewEntry
<1>3. ASSUME NEW kind \in EntryKinds, NEW of \in 0..seq["JE"], PostEntry(kind, of)
      PROVE  (DocumentsHaveEntries /\ MarksPointAtReversals)'
  BY <1>3 DEF PostEntry, NewEntry
<1>4. ASSUME NEW of \in 1..seq["JE"], NEW by \in 1..seq["JE"], MarkEntry(of, by)
      PROVE  (DocumentsHaveEntries /\ MarksPointAtReversals)'
  BY <1>4 DEF MarkEntry
<1>5. CASE UNCHANGED ledgerVars
  BY <1>5 DEF ledgerVars
<1> QED BY <1>1, <1>2, <1>3, <1>4, <1>5 DEF LedgerNext

\* A posting that leaves the wallets alone leaves their statements alone: the
\* statement does not see how many entries others have made since.
LEMMA WalletsUndisturbed ==
    ASSUME LedgerInv, wtxns' = wtxns, balance' = balance,
           seq'["JE"] \in Nat, seq["JE"] <= seq'["JE"]
    PROVE  WalletBooksBalance'
<1>1. \A t \in wtxns : t.je \in 1..seq["JE"]
  BY EntryNumbersIssued
<1>2. seq["JE"] \in Nat
  BY DEF LedgerInv, LedgerTypeOK, Prefixes
<1>3. \A wal \in Wallets :
        TxnsBefore(wal, seq["JE"] + 1)' = TxnsBefore(wal, seq["JE"] + 1)
  BY <1>1, <1>2 DEF TxnsBefore
<1>4. \A t \in wtxns : TxnsBefore(t.wal, t.je)' = TxnsBefore(t.wal, t.je)
  BY DEF TxnsBefore
<1> QED BY <1>3, <1>4 DEF LedgerInv, WalletBooksBalance, ClosesAt

LEMMA WalletsStep ==
    LedgerInv /\ [LedgerNext]_ledgerVars => WalletBooksBalance'
<1> SUFFICES ASSUME LedgerInv, [LedgerNext]_ledgerVars PROVE WalletBooksBalance'
  OBVIOUS
<1>0. seq["JE"] \in Nat
  BY DEF LedgerInv, LedgerTypeOK, Prefixes
<1>1. ASSUME NEW inv \in Invoices \union {NoInvoice}, NEW amt \in Amounts,
             NEW key \in Keys \union {NoKey}, Pay(inv, amt, key)
      PROVE  WalletBooksBalance'
  <2>1. seq'["JE"] = seq["JE"] + 1
    BY <1>1 DEF Pay, Prefixes
  <2> QED BY <1>0, <1>1, <2>1, WalletsUndisturbed DEF Pay
<1>2. ASSUME NEW wal \in Wallets, NEW kind \in WalletKinds, NEW amt \in Amounts,
             MoveWallet(wal, kind, amt)
      PROVE  WalletBooksBalance'
  <2>1. PICK n, x : /\ n = seq["JE"] + 1
                    /\ x = [wal |-> wal, kind |-> kind, before |-> balance[wal],
                            after |-> balance[wal] + Delta(kind, amt), je |-> n]
    OBVIOUS
  <2>2. /\ wtxns' = wtxns \union {x}
        /\ balance' = [balance EXCEPT ![wal] = x.after]
        /\ seq'["JE"] = n
    BY <1>2, <2>1 DEF MoveWallet, LedgerInv, LedgerTypeOK, Prefixes
  <2>3. /\ n \in Nat /\ n = seq["JE"] + 1
        /\ x.wal = wal /\ x.kind = kind /\ x.je = n
        /\ x.before = balance[wal] /\ x.after = balance[wal] + Delta(kind, amt)
    BY <1>0, <2>1
  <2>4. \A t \in wtxns : t.je \in Nat /\ t.je < n
    BY <1>0, <2>3, EntryNumbersIssued
  <2>5. \A t \in wtxns' : TxnsBefore(t.wal, t.je)' = TxnsBefore(t.wal, t.je)
    BY <2>2, <2>3, <2>4 DEF TxnsBefore
  <2>6. \A t \in wtxns' : ClosesAt(TxnsBefore(t.wal, t.je), t.before)'
    <3> SUFFICES ASSUME NEW t \in wtxns'
                 PROVE  ClosesAt(TxnsBefore(t.wal, t.je), t.before)
      BY <2>5 DEF ClosesAt
    <3>1. ClosesAt(TxnsBefore(wal, n), balance[wal])
      BY <2>3 DEF LedgerInv, WalletBooksBalance
    <3>2. CASE t = x
      BY <2>3, <3>1, <3>2
    <3>3. CASE t \in wtxns
      BY <3>3 DEF LedgerInv, WalletBooksBalance
    <3> QED BY <2>2, <3>2, <3>3
  <2>7. \A other \in Wallets \ {wal} :
          ClosesAt(TxnsBefore(other, seq["JE"] + 1), balance[other])'
    <3> SUFFICES ASSUME NEW other \in Wallets \ {wal}
                 PROVE  ClosesAt(TxnsBefore(other, seq["JE"] + 1), balance[other])'
      OBVIOUS
    <3>1. TxnsBefore(other, seq["JE"] + 1)' = TxnsBefore(other, seq["JE"] + 1)
      BY <2>2, <2>3, <2>4 DEF TxnsBefore
    <3>2. balance'[other] = balance[other]
      BY <2>2 DEF LedgerInv, LedgerTypeOK
    <3> QED BY <3>1, <3>2 DEF LedgerInv, WalletBooksBalance, ClosesAt
  <2>8. ClosesAt(TxnsBefore(wal, seq["JE"] + 1), balance[wal])'
    <3>1. TxnsBefore(wal, seq["JE"] + 1)' = TxnsBefore(wal, n) \union {x}
      BY <2>2, <2>3, <2>4 DEF TxnsBefore
    <3>2. balance'[wal] = x.after
      BY <2>2 DEF LedgerInv, LedgerTypeOK
    <3>3. \A t \in TxnsBefore(wal, n) : ~(x.je <= t.je)
      BY <2>3, <2>4 DEF TxnsBefore
    <3> QED BY <3>1, <3>2, <3>3 DEF ClosesAt
  <2>9. \A t \in wtxns' : t.kind = "debit" => t.after >= 0
    <3>1. x.kind = "debit" => x.after >= 0
      BY <1>2, <2>3, AmountsAreIntegers
         DEF MoveWallet, Funds, Delta, LedgerInv, LedgerTypeOK
    <3> QED BY <2>2, <3>1 DEF LedgerInv, WalletBooksBalance
  <2> QED BY <2>6, <2>7, <2>8, <2>9 DEF WalletBooksBalance
<1>3. ASSUME NEW kind \in EntryKinds, NEW of \in 0..seq["JE"], PostEntry(kind, of)
      PROVE  WalletBooksBalance'
  <2>1. seq'["JE"] = seq["JE"] + 1
    BY <1>3 DEF PostEntry, LedgerInv, LedgerTypeOK, Prefixes
  <2> QED BY <1>0, <1>3, <2>1, WalletsUndisturbed DEF PostEntry
<1>4. ASSUME NEW of \in 1..seq["JE"], NEW by \in 1..seq["JE"], MarkEntry(of, by)
      PROVE  WalletBooksBalance'
  BY <1>0, <1>4, WalletsUndisturbed DEF MarkEntry
<1>5. CASE UNCHANGED ledgerVars
  BY <1>0, <1>5, WalletsUndisturbed DEF ledgerVars
<1> QED BY <1>1, <1>2, <1>3, <1>4, <1>5 DEF LedgerNext

-----------------------------------------------------------------------------
\* The books of the ledger are right in every reachable state: types, gapless
\* and unique numbers, no over-payment, paid amounts that add up, one charge per
\* idempotency key, chained wallet statements, and an entry for every document and every mark.
THEOREM LedgerCorrect == LedgerSpec => []LedgerInv
<1>1. LedgerInv /\ [LedgerNext]_ledgerVars => LedgerInv'
  BY TypeStep, NumberingStep, PaymentsStep, MoneyStep, DocumentsStep,
     WalletsStep DEF LedgerInv
<1> QED BY InitEstablishesInv, <1>1, PTL DEF LedgerSpec
=============================================================================
