------------------------ MODULE FinanceLedgerProofs ------------------------
(***************************************************************************)
(* FinanceLedger implements SchoolLedger, for any number of workers,       *)
(* invoices, wallets, keys and amounts.  The argument is a locking         *)
(* discipline: Holds(r) is the set of rows a request r has locked, exactly *)
(* (LocksMatch), and while a request holds a row, what it read from the    *)
(* row is still true (RequestOK).  So at its commit the values it computes *)
(* are those of one indivisible step of SchoolLedger.                      *)
(***************************************************************************)
EXTENDS FinanceLedger, SchoolLedgerProofs

\* The request draws, or has drawn, the number of its journal entry.
Entering(r) == r.pfx = "JE" /\ r.at \in {"select", "insert", "commit"}

HoldsPaymentNumber(r) ==
    r.op = "payment" /\ r.kept /\ (r.at = "invoice" \/ Entering(r))
HasPosted(r) == r.op = "payment" /\ r.kept /\ Entering(r)
HasMoved(r) == r.op = "wallet" /\ r.kept /\ (r.at = "period" \/ Entering(r))

\* The rows the transaction of r has locked or inserted.
Holds(r) ==
    {row \in Rows :
        \/ row = "PAY" /\ HoldsPaymentNumber(r)
        \/ row = "JE" /\ r.at = "commit"
        \/ row = r.row /\ (HasPosted(r) \/ HasMoved(r))}

LocksMatch ==
    \A w \in Workers, row \in Rows : holder[row] = w <=> row \in Holds(tx[w])

\* Which operations pass through which stages.
StageOK(r) ==
    /\ r.op = "none" <=> r.at = "idle"
    /\ r.at = "invoice" => r.op = "payment" /\ r.pfx = "PAY"
    /\ r.at \in {"wallet", "walletInsert", "period"} => r.op = "wallet" /\ r.kept
    /\ r.at \in {"select", "insert"} /\ r.pfx = "PAY" => r.op = "payment"
    /\ r.pfx = "PAY" => r.kept
    /\ r.at = "commit" => r.pfx = "JE"
    /\ r.at = "outbox" => r.op # "wallet" /\ r.kept
    /\ r.at = "mark" => r.op = "reversal"

\* The operands an operation works on.
OperandsOK(r) ==
    /\ r.op = "payment" => r.row \in Invoices \union {NoInvoice} /\ r.amt \in Amounts
    /\ r.op = "wallet" => r.row \in Wallets /\ r.amt \in Amounts
    /\ r.op \in {"manual", "reversal"} => r.kept
    /\ IF r.op = "reversal" THEN \E e \in journal : e.no = r.of ELSE r.of = 0

\* What the request read under its locks still holds.
ReadsOK(r) ==
    /\ r.at = "commit" => r.je = seq["JE"] + 1
    /\ HoldsPaymentNumber(r) => r.pay = seq["PAY"] + 1
    /\ HasPosted(r) => /\ FitsInvoice(r.row, r.amt)
                       /\ KeyIsFresh(r.key)
                       /\ r.row # NoInvoice => r.before = paid[r.row]
    /\ HasMoved(r) => Funds(r.row, r.kind, r.amt) /\ r.before = balance[r.row]

\* What the request has committed is there.
CommittedOK(r) ==
    /\ r.at = "outbox" =>
        /\ \E e \in journal : e = [no |-> r.je, kind |-> r.op, of |-> r.of]
        /\ r.op = "payment" => \E p \in payments : p.no = r.pay
    /\ r.at = "mark" => \E e \in journal : e = [no |-> r.je, kind |-> r.op, of |-> r.of]

RequestOK(r) == StageOK(r) /\ OperandsOK(r) /\ ReadsOK(r) /\ CommittedOK(r)

\* The inductive invariant.
Discipline == TypeOK /\ LocksMatch /\ \A w \in Workers : RequestOK(tx[w])

-----------------------------------------------------------------------------
(* Steps that commit nothing *)

EnvironmentOK ==
    /\ locked \in BOOLEAN
    /\ outbox \subseteq OutboxRows
    /\ opened \in BOOLEAN
    /\ late \in [Workers -> Nat]

\* A request is unmoved by steps that change nothing committed.
LEMMA RequestFrame ==
    ASSUME NEW r, RequestOK(r), UNCHANGED ledgerVars
    PROVE  RequestOK(r)'
BY DEF RequestOK, StageOK, OperandsOK, ReadsOK, CommittedOK, HoldsPaymentNumber,
   HasPosted, HasMoved, Entering, FitsInvoice, KeyIsFresh, Funds, ledgerVars

\* When one worker moves to a request that is in order, and the locks agree with
\* it, the discipline is kept.
LEMMA LocalStep ==
    ASSUME Discipline, NEW w \in Workers, NEW r \in Request, Continue(w, r),
           UNCHANGED ledgerVars, EnvironmentOK', RequestOK(r),
           holder' \in [Rows -> Workers \union {Nobody}],
           \A v \in Workers, row \in Rows :
               holder'[row] = v <=> row \in Holds(IF v = w THEN r ELSE tx[v])
    PROVE  Discipline'
<1>1. tx' \in [Workers -> Request]
  BY DEF Continue, Discipline, TypeOK
<1>2. \A v \in Workers : tx'[v] = IF v = w THEN r ELSE tx[v]
  BY DEF Continue, Discipline, TypeOK
<1>3. TypeOK'
  BY <1>1 DEF Discipline, TypeOK, EnvironmentOK, LedgerTypeOK, ledgerVars
<1>4. LocksMatch'
  BY <1>2 DEF LocksMatch, Holds, HoldsPaymentNumber, HasPosted, HasMoved, Entering
<1>5. ASSUME NEW v \in Workers PROVE RequestOK(tx[v])'
  <2>1. RequestOK(IF v = w THEN r ELSE tx[v])
    BY DEF Discipline
  <2>2. PICK q : q = IF v = w THEN r ELSE tx[v]
    OBVIOUS
  <2>3. RequestOK(q)'
    BY <2>1, <2>2, RequestFrame
  <2>4. tx'[v] = q
    BY <1>2, <2>2
  <2> QED BY <2>3, <2>4
<1> QED BY <1>3, <1>4, <1>5 DEF Discipline

\* The worker keeps the rows it has.
LEMMA KeepStep ==
    ASSUME Discipline, NEW w \in Workers, NEW r \in Request, Continue(w, r),
           UNCHANGED ledgerVars, EnvironmentOK', RequestOK(r),
           UNCHANGED holder, Holds(r) = Holds(tx[w])
    PROVE  Discipline'
<1>1. \A v \in Workers, row \in Rows :
        holder'[row] = v <=> row \in Holds(IF v = w THEN r ELSE tx[v])
  BY DEF Discipline, LocksMatch
<1> QED BY <1>1, LocalStep DEF Discipline, TypeOK

\* The worker takes one row more, which was free.
LEMMA TakeStep ==
    ASSUME Discipline, NEW w \in Workers, NEW r \in Request, Continue(w, r),
           UNCHANGED ledgerVars, EnvironmentOK', RequestOK(r),
           NEW row \in Rows, Free(row), Take(w, row),
           Holds(r) = Holds(tx[w]) \union {row}
    PROVE  Discipline'
<1>1. holder' \in [Rows -> Workers \union {Nobody}]
  BY DEF Take, Discipline, TypeOK
<1>2. \A v \in Workers, other \in Rows :
        holder'[other] = v <=> other \in Holds(IF v = w THEN r ELSE tx[v])
  BY NobodyIsNoWorker DEF Take, Free, Discipline, LocksMatch, TypeOK
<1> QED BY <1>1, <1>2, LocalStep

\* The worker lets all its rows go.
LEMMA ReleaseStep ==
    ASSUME Discipline, NEW w \in Workers, NEW r \in Request, Continue(w, r),
           UNCHANGED ledgerVars, EnvironmentOK', RequestOK(r),
           holder' = Released(w), Holds(r) = {}
    PROVE  Discipline'
<1>1. holder' \in [Rows -> Workers \union {Nobody}]
  BY DEF Released, Discipline, TypeOK
<1>2. \A v \in Workers, row \in Rows :
        holder'[row] = v <=> row \in Holds(IF v = w THEN r ELSE tx[v])
  BY NobodyIsNoWorker DEF Released, Discipline, LocksMatch, TypeOK
<1> QED BY <1>1, <1>2, LocalStep

\* An idle request is in order and holds nothing.
LEMMA IdleOK == Idle \in Request /\ RequestOK(Idle) /\ Holds(Idle) = {}
<1>1. Idle \in Request
  BY DEF Idle, Request, Operations, Stages, Prefixes, WalletKinds, MaxTries
<1>2. RequestOK(Idle)
  BY DEF Idle, RequestOK, StageOK, OperandsOK, ReadsOK, CommittedOK,
     HoldsPaymentNumber, HasPosted, HasMoved, Entering
<1>3. Holds(Idle) = {}
  BY DEF Idle, Holds, HoldsPaymentNumber, HasPosted, HasMoved, Entering
<1> QED BY <1>1, <1>2, <1>3

LEMMA AbandonStep ==
    ASSUME Discipline, NEW w \in Workers, Abandon(w)
    PROVE  Discipline'
BY IdleOK, ReleaseStep DEF Abandon, EnvironmentOK, Discipline, TypeOK

\* The names a request is made of.
LEMMA Names ==
    /\ "PAY" \in Prefixes /\ "JE" \in Prefixes
    /\ 0 \in 0..MaxTries
    /\ {"select", "insert", "invoice", "wallet", "walletInsert", "period",
        "commit", "outbox", "mark"} \subseteq Stages
    /\ {"payment", "wallet", "manual", "reversal"} \subseteq Operations
BY DEF Prefixes, MaxTries, Stages, Operations

LEMMA DrawNextType ==
    ASSUME NEW r \in Request, NEW pfx \in Prefixes
    PROVE  DrawNext(r, pfx) \in Request
BY Names DEF Request, DrawNext

\* Facts about the request of a worker.
LEMMA RequestFacts ==
    ASSUME Discipline, NEW w \in Workers
    PROVE  /\ tx[w] \in Request
           /\ RequestOK(tx[w])
           /\ tx[w].at = "idle" => Holds(tx[w]) = {}
BY DEF Discipline, TypeOK, RequestOK, StageOK, Holds, HoldsPaymentNumber, HasPosted,
   HasMoved, Entering

LEMMA BeginStep ==
    ASSUME Discipline, NEW w \in Workers, Begin(w)
    PROVE  Discipline'
<1> USE AmountsAreIntegers DEF EnvironmentOK
<1>0. /\ TypeOK
      /\ tx[w].at = "idle" => Holds(tx[w]) = {}
  BY RequestFacts DEF Discipline
<1>1. ASSUME NEW r \in Request, Starts(w, r), RequestOK(r), Holds(r) = {}
      PROVE  Discipline'
  BY <1>0, <1>1, KeepStep DEF Starts, TypeOK
<1>2. ASSUME NEW inv \in Invoices \union {NoInvoice}, NEW amt \in Amounts,
             NEW key \in Keys \union {NoKey}, BeginPayment(w, inv, amt, key)
      PROVE  Discipline'
  <2> DEFINE r == DrawNext([Idle EXCEPT !.op = "payment", !.row = inv,
                                        !.amt = amt, !.key = key], "PAY")
  <2>1. r \in Request
    <3>1. [Idle EXCEPT !.op = "payment", !.row = inv, !.amt = amt, !.key = key]
            \in Request
      BY IdleOK, Names DEF Request
    <3> QED BY <3>1, DrawNextType, Names
  <2>2. RequestOK(r)
    BY DEF DrawNext, Idle, RequestOK, StageOK, OperandsOK, ReadsOK, CommittedOK,
       HoldsPaymentNumber, HasPosted, HasMoved, Entering
  <2>3. Holds(r) = {}
    BY DEF DrawNext, Idle, Holds, HoldsPaymentNumber, HasPosted, HasMoved, Entering
  <2> HIDE DEF r
  <2> QED BY <1>1, <1>2, <2>1, <2>2, <2>3 DEF BeginPayment, r
<1>3. ASSUME NEW wal \in Wallets, NEW kind \in WalletKinds, NEW amt \in Amounts,
             BeginWallet(w, wal, kind, amt)
      PROVE  Discipline'
  <2> DEFINE r == [Idle EXCEPT !.op = "wallet", !.at = "wallet", !.row = wal,
                               !.kind = kind, !.amt = amt]
  <2>1. r \in Request
    BY IdleOK, Names DEF Request
  <2>2. RequestOK(r)
    BY DEF Idle, RequestOK, StageOK, OperandsOK, ReadsOK, CommittedOK,
       HoldsPaymentNumber, HasPosted, HasMoved, Entering
  <2>3. Holds(r) = {}
    BY DEF Idle, Holds, HoldsPaymentNumber, HasPosted, HasMoved, Entering
  <2> HIDE DEF r
  <2> QED BY <1>1, <1>3, <2>1, <2>2, <2>3 DEF BeginWallet, r
<1>4. ASSUME BeginEntry(w)
      PROVE  Discipline'
  <2> DEFINE r == DrawNext([Idle EXCEPT !.op = "manual"], "JE")
  <2>1. r \in Request
    <3>1. [Idle EXCEPT !.op = "manual"] \in Request
      BY IdleOK, Names DEF Request
    <3> QED BY <3>1, DrawNextType, Names
  <2>2. RequestOK(r)
    BY DEF DrawNext, Idle, RequestOK, StageOK, OperandsOK, ReadsOK, CommittedOK,
       HoldsPaymentNumber, HasPosted, HasMoved, Entering
  <2>3. Holds(r) = {}
    BY DEF DrawNext, Idle, Holds, HoldsPaymentNumber, HasPosted, HasMoved, Entering
  <2> HIDE DEF r
  <2> QED BY <1>1, <1>4, <2>1, <2>2, <2>3 DEF BeginEntry, r
<1>5. ASSUME NEW e \in journal, BeginReversal(w, e)
      PROVE  Discipline'
  <2> DEFINE r == DrawNext([Idle EXCEPT !.op = "reversal", !.of = e.no], "JE")
  <2>1. r \in Request
    <3>1. e.no \in Nat
      BY <1>0 DEF TypeOK, LedgerTypeOK, Entry
    <3>2. [Idle EXCEPT !.op = "reversal", !.of = e.no] \in Request
      BY <3>1, IdleOK, Names DEF Request
    <3> QED BY <3>2, DrawNextType, Names
  <2>2. RequestOK(r)
    BY DEF DrawNext, Idle, RequestOK, StageOK, OperandsOK, ReadsOK, CommittedOK,
       HoldsPaymentNumber, HasPosted, HasMoved, Entering
  <2>3. Holds(r) = {}
    BY DEF DrawNext, Idle, Holds, HoldsPaymentNumber, HasPosted, HasMoved, Entering
  <2> HIDE DEF r
  <2> QED BY <1>1, <1>5, <2>1, <2>2, <2>3 DEF BeginReversal, r
<1> QED BY <1>2, <1>3, <1>4, <1>5 DEF Begin

\* The number is drawn: the sequence row is locked, and its value plus one is
\* the request's until it commits.
LEMMA IncrementStep ==
    ASSUME Discipline, NEW w \in Workers, tx[w].at \in {"select", "insert"},
           Increment(w)
    PROVE  Discipline'
<1> DEFINE r == tx[w]
           q == Drawn(r, seq[r.pfx] + 1)
<1>1. r \in Request /\ RequestOK(r)
  BY RequestFacts
<1>2. r.pfx \in Prefixes /\ r.pfx \in Rows /\ seq[r.pfx] + 1 \in Nat
  BY <1>1 DEF Request, Rows, Discipline, TypeOK, LedgerTypeOK
<1>3. q \in Request
  BY <1>1, <1>2, Names DEF Request, Drawn
<1>4. q.op = r.op /\ q.kept = r.kept /\ q.pfx = r.pfx /\ q.row = r.row
  BY <1>1 DEF Drawn, Request
<1>5. CASE r.pfx = "PAY"
  <2>1. q.at = "invoice" /\ q.pay = seq["PAY"] + 1
    BY <1>1, <1>5 DEF Drawn, Request
  <2>2. RequestOK(q)
    BY <1>1, <1>5, <2>1 DEF Drawn, Request, RequestOK, StageOK, OperandsOK, ReadsOK,
       CommittedOK, HoldsPaymentNumber, HasPosted, HasMoved, Entering
  <2>3. Holds(q) = Holds(r) \union {r.pfx}
    BY <1>1, <1>2, <1>4, <1>5, <2>1 DEF Holds, HoldsPaymentNumber, HasPosted, HasMoved,
       Entering, RequestOK, StageOK
  <2> HIDE DEF q
  <2> QED BY <1>2, <1>3, <2>2, <2>3, TakeStep DEF Increment, EnvironmentOK, Discipline,
             TypeOK, q
<1>6. CASE r.pfx = "JE"
  <2>1. q.at = "commit" /\ q.je = seq["JE"] + 1
    BY <1>1, <1>6 DEF Drawn, Request
  <2>2. RequestOK(q)
    BY <1>1, <1>6, <2>1 DEF Drawn, Request, RequestOK, StageOK, OperandsOK, ReadsOK,
       CommittedOK, HoldsPaymentNumber, HasPosted, HasMoved, Entering
  <2>3. Holds(q) = Holds(r) \union {r.pfx}
    BY <1>1, <1>2, <1>4, <1>6, <2>1 DEF Holds, HoldsPaymentNumber, HasPosted, HasMoved,
       Entering
  <2> HIDE DEF q
  <2> QED BY <1>2, <1>3, <2>2, <2>3, TakeStep DEF Increment, EnvironmentOK, Discipline,
             TypeOK, q
<1> QED BY <1>2, <1>5, <1>6 DEF Prefixes

LEMMA NumberIsMissingStep ==
    ASSUME Discipline, NEW w \in Workers, NumberIsMissing(w)
    PROVE  Discipline'
<1> DEFINE r == tx[w]
           q == [r EXCEPT !.at = "insert"]
<1>1. r \in Request /\ RequestOK(r) /\ r.at = "select"
  BY RequestFacts DEF NumberIsMissing
<1>2. q \in Request
  BY <1>1, Names DEF Request
<1>3. RequestOK(q)
  BY <1>1 DEF Request, RequestOK, StageOK, OperandsOK, ReadsOK, CommittedOK,
     HoldsPaymentNumber, HasPosted, HasMoved, Entering
<1>4. Holds(q) = Holds(r)
  BY <1>1 DEF Holds, HoldsPaymentNumber, HasPosted, HasMoved, Entering, Request
<1> HIDE DEF q
<1> QED BY <1>2, <1>3, <1>4, KeepStep DEF NumberIsMissing, EnvironmentOK, Discipline,
           TypeOK, q

LEMMA InsertLosesStep ==
    ASSUME Discipline, NEW w \in Workers, InsertLoses(w)
    PROVE  Discipline'
<1> DEFINE r == tx[w]
           q == [r EXCEPT !.at = "select", !.tries = @ + 1, !.kept = @ /\ ~HasFlushed(r)]
<1>1. r \in Request /\ RequestOK(r) /\ r.at = "insert"
  BY RequestFacts DEF InsertLoses
<1>2. ASSUME r.tries + 1 < MaxTries PROVE q \in Request
  <2>1. r.tries + 1 \in 0..MaxTries
    BY <1>1, <1>2 DEF Request, MaxTries
  <2>2. (r.kept /\ ~HasFlushed(r)) \in BOOLEAN
    BY <1>1 DEF Request
  <2>3. PICK t, k : t = r.tries + 1 /\ k = (r.kept /\ ~HasFlushed(r))
    OBVIOUS
  <2>4. [r EXCEPT !.at = "select", !.tries = t, !.kept = k] \in Request
    BY <1>1, <2>1, <2>2, <2>3, Names DEF Request
  <2> QED BY <2>3, <2>4
<1>3. /\ q.op = r.op /\ q.pfx = r.pfx /\ q.row = r.row /\ q.of = r.of
      /\ q.amt = r.amt /\ q.at = "select"
      /\ q.kept = (r.kept /\ ~(r.op \in {"payment", "wallet"} /\ r.pfx = "JE"))
  BY <1>1 DEF HasFlushed, Request
<1>4. r.pfx \in Prefixes
  BY <1>1 DEF Request
<1> HIDE DEF q
<1>5. RequestOK(q)
  BY <1>1, <1>3, <1>4 DEF Prefixes, RequestOK, StageOK, OperandsOK, ReadsOK, CommittedOK,
     HoldsPaymentNumber, HasPosted, HasMoved, Entering
<1>6. Holds(q) = {}
  BY <1>1, <1>3, <1>4 DEF Prefixes, Holds, HoldsPaymentNumber, HasPosted, HasMoved,
     Entering, RequestOK, StageOK
<1>7. CASE r.tries + 1 < MaxTries
  BY <1>2, <1>5, <1>6, <1>7, ReleaseStep DEF InsertLoses, EnvironmentOK, Discipline,
     TypeOK, q
<1>8. CASE ~(r.tries + 1 < MaxTries)
  BY <1>8, AbandonStep DEF InsertLoses
<1> QED BY <1>7, <1>8

\* The payment is posted to its invoice, which stays locked.
LEMMA PostToInvoiceStep ==
    ASSUME Discipline, NEW w \in Workers, PostToInvoice(w)
    PROVE  Discipline'
<1> DEFINE r == tx[w]
           q == DrawNext(WithBalance(r), "JE")
<1>1. /\ r \in Request /\ RequestOK(r) /\ r.at = "invoice"
      /\ FitsInvoice(r.row, r.amt) /\ KeyIsFresh(r.key)
  BY RequestFacts DEF PostToInvoice
<1>2. r.op = "payment" /\ r.pfx = "PAY" /\ r.kept /\ r.row \in Invoices \union {NoInvoice}
  BY <1>1 DEF RequestOK, StageOK, OperandsOK
<1>3. /\ WithBalance(r) \in Request
      /\ r.row # NoInvoice => WithBalance(r).before = paid[r.row]
      /\ \A f \in {"op", "pfx", "row", "amt", "key", "of", "pay", "kept"} :
            WithBalance(r)[f] = r[f]
  <2>1. r.row # NoInvoice => paid[r.row] \in Int
    BY <1>2 DEF Discipline, TypeOK, LedgerTypeOK
  <2> QED BY <1>1, <2>1 DEF WithBalance, Request
<1>4. q \in Request
  BY <1>3, Names, DrawNextType
<1>5. /\ q.op = "payment" /\ q.pfx = "JE" /\ q.row = r.row /\ q.of = r.of
      /\ q.amt = r.amt /\ q.at = "select" /\ q.kept /\ q.key = r.key /\ q.pay = r.pay
      /\ r.row # NoInvoice => q.before = paid[r.row]
  <2> DEFINE b == WithBalance(r)
  <2>1. b.op = r.op /\ b.row = r.row /\ b.of = r.of /\ b.amt = r.amt
        /\ b.kept = r.kept /\ b.key = r.key /\ b.pay = r.pay
    BY <1>3
  <2>2. b \in Request
    BY <1>3
  <2>3. r.row # NoInvoice => b.before = paid[r.row]
    BY <1>3
  <2> HIDE DEF b
  <2> QED BY <1>2, <2>1, <2>2, <2>3 DEF DrawNext, Request, b
<1> HIDE DEF q
<1>6. RequestOK(q)
  BY <1>1, <1>2, <1>5 DEF RequestOK, StageOK, OperandsOK, ReadsOK, CommittedOK,
     HoldsPaymentNumber, HasPosted, HasMoved, Entering
<1>7. CASE r.row = NoInvoice
  <2>1. Holds(q) = Holds(r)
    BY <1>1, <1>2, <1>5, <1>7, RowsAreDistinct DEF Holds, HoldsPaymentNumber, HasPosted,
       HasMoved, Entering
  <2> QED BY <1>4, <1>6, <1>7, <2>1, KeepStep DEF PostToInvoice, EnvironmentOK, Discipline,
             TypeOK, q
<1>8. CASE r.row \in Invoices
  <2>1. r.row # NoInvoice /\ r.row \in Rows
    BY <1>8, NoInvoiceIsNone DEF Rows
  <2>2. Holds(q) = Holds(r) \union {r.row}
    BY <1>1, <1>2, <1>5, <2>1 DEF Holds, HoldsPaymentNumber, HasPosted, HasMoved, Entering
  <2> QED BY <1>4, <1>6, <2>1, <2>2, TakeStep DEF PostToInvoice, EnvironmentOK, Discipline,
             TypeOK, q
<1> QED BY <1>2, <1>7, <1>8

\* The wallet is moved, and stays locked.
LEMMA HoldWalletStep ==
    ASSUME Discipline, NEW w \in Workers, tx[w].at \in {"wallet", "walletInsert"},
           HoldWallet(w)
    PROVE  Discipline'
<1> DEFINE r == tx[w]
           q == [r EXCEPT !.at = "period", !.before = balance[r.row]]
<1>1. /\ r \in Request /\ RequestOK(r) /\ r.op = "wallet" /\ r.kept
      /\ r.row \in Wallets /\ r.row \in Rows
  BY RequestFacts DEF RequestOK, StageOK, OperandsOK, Rows
<1>2. balance[r.row] \in Int
  BY <1>1 DEF Discipline, TypeOK, LedgerTypeOK
<1>3. q \in Request
  BY <1>1, <1>2, Names DEF Request
<1>4. /\ q.op = "wallet" /\ q.pfx = r.pfx /\ q.row = r.row /\ q.of = r.of
      /\ q.amt = r.amt /\ q.at = "period" /\ q.kept /\ q.kind = r.kind
      /\ q.before = balance[r.row]
  BY <1>1 DEF Request
<1> HIDE DEF q
<1>5. RequestOK(q)
  BY <1>1, <1>4 DEF HoldWallet, RequestOK, StageOK, OperandsOK, ReadsOK, CommittedOK,
     HoldsPaymentNumber, HasPosted, HasMoved, Entering
<1>6. Holds(q) = Holds(r) \union {r.row}
  BY <1>1, <1>4 DEF Holds, HoldsPaymentNumber, HasPosted, HasMoved, Entering
<1> QED BY <1>1, <1>3, <1>5, <1>6, TakeStep DEF HoldWallet, EnvironmentOK, Discipline,
           TypeOK, q

LEMMA WalletIsMissingStep ==
    ASSUME Discipline, NEW w \in Workers, WalletIsMissing(w)
    PROVE  Discipline'
<1> DEFINE r == tx[w]
           q == [r EXCEPT !.at = "walletInsert"]
<1>1. r \in Request /\ RequestOK(r) /\ r.at = "wallet"
  BY RequestFacts DEF WalletIsMissing
<1>2. q \in Request
  BY <1>1, Names DEF Request
<1>3. RequestOK(q)
  BY <1>1 DEF Request, RequestOK, StageOK, OperandsOK, ReadsOK, CommittedOK,
     HoldsPaymentNumber, HasPosted, HasMoved, Entering
<1>4. Holds(q) = Holds(r)
  BY <1>1 DEF Holds, HoldsPaymentNumber, HasPosted, HasMoved, Entering, Request
<1> HIDE DEF q
<1> QED BY <1>2, <1>3, <1>4, KeepStep DEF WalletIsMissing, EnvironmentOK, Discipline,
           TypeOK, q

LEMMA CheckPeriodStep ==
    ASSUME Discipline, NEW w \in Workers, CheckPeriod(w)
    PROVE  Discipline'
<1> DEFINE r == tx[w]
           q == DrawNext(r, "JE")
<1>1. /\ r \in Request /\ RequestOK(r) /\ r.at = "period" /\ r.op = "wallet" /\ r.kept
  BY RequestFacts DEF CheckPeriod, RequestOK, StageOK
<1>2. q \in Request
  BY <1>1, Names, DrawNextType
<1>3. /\ q.op = r.op /\ q.pfx = "JE" /\ q.row = r.row /\ q.of = r.of /\ q.amt = r.amt
      /\ q.at = "select" /\ q.kept = r.kept /\ q.kind = r.kind /\ q.before = r.before
  BY <1>1 DEF DrawNext, Request
<1> HIDE DEF q
<1>4. RequestOK(q)
  BY <1>1, <1>3 DEF RequestOK, StageOK, OperandsOK, ReadsOK, CommittedOK,
     HoldsPaymentNumber, HasPosted, HasMoved, Entering
<1>5. Holds(q) = Holds(r)
  BY <1>1, <1>3 DEF Holds, HoldsPaymentNumber, HasPosted, HasMoved, Entering
<1>6. CASE PeriodIsOpen
  BY <1>2, <1>4, <1>5, <1>6, KeepStep DEF CheckPeriod, EnvironmentOK, Discipline, TypeOK, q
<1>7. CASE ~PeriodIsOpen
  BY <1>7, AbandonStep DEF CheckPeriod
<1> QED BY <1>6, <1>7

LEMMA EnqueueSyncStep ==
    ASSUME Discipline, NEW w \in Workers, EnqueueSync(w)
    PROVE  Discipline'
<1> DEFINE r == tx[w]
           q == [r EXCEPT !.at = "mark"]
<1>1. r \in Request /\ RequestOK(r) /\ r.at = "outbox" /\ Holds(r) = {}
  BY RequestFacts DEF EnqueueSync, Holds, HoldsPaymentNumber, HasPosted, HasMoved, Entering,
     RequestOK, StageOK
<1>2. EnvironmentOK'
  BY <1>1 DEF EnqueueSync, EnvironmentOK, Discipline, TypeOK, OutboxRow, OutboxRows, Request
<1>3. CASE r.op = "reversal"
  <2>1. q \in Request
    BY <1>1, Names DEF Request
  <2>2. RequestOK(q)
    BY <1>1, <1>3 DEF Request, RequestOK, StageOK, OperandsOK, ReadsOK, CommittedOK,
       HoldsPaymentNumber, HasPosted, HasMoved, Entering
  <2>3. Holds(q) = Holds(r)
    BY <1>1, <1>3 DEF Holds, HoldsPaymentNumber, HasPosted, HasMoved, Entering, Request
  <2> HIDE DEF q
  <2> QED BY <1>2, <1>3, <2>1, <2>2, <2>3, KeepStep DEF EnqueueSync, q
<1>4. CASE r.op # "reversal"
  BY <1>1, <1>2, <1>4, IdleOK, KeepStep DEF EnqueueSync
<1> QED BY <1>3, <1>4

-----------------------------------------------------------------------------
(* Steps that commit *)

LEMMA MarkReversedStep ==
    ASSUME Discipline, NumbersGapless, NEW w \in Workers, MarkReversed(w)
    PROVE  Discipline' /\ LedgerNext
<1> DEFINE r == tx[w]
<1>1. /\ r \in Request /\ RequestOK(r) /\ r.at = "mark" /\ r.op = "reversal"
      /\ Holds(r) = {}
  BY RequestFacts DEF MarkReversed, Holds, HoldsPaymentNumber, HasPosted, HasMoved,
     Entering, RequestOK, StageOK
<1>2. /\ \E e \in journal : e = [no |-> r.je, kind |-> "reversal", of |-> r.of]
      /\ \E e \in journal : e.no = r.of
  BY <1>1 DEF RequestOK, CommittedOK, OperandsOK
<1>3. r.of \in 1..seq["JE"] /\ r.je \in 1..seq["JE"]
  BY <1>2 DEF NumbersGapless, Gapless
<1>4. MarkEntry(r.of, r.je)
  BY <1>2 DEF MarkReversed, MarkEntry
<1>5. LedgerNext
  BY <1>3, <1>4 DEF LedgerNext
<1>6. tx' \in [Workers -> Request] /\ \A v \in Workers : tx'[v] = IF v = w THEN Idle ELSE tx[v]
  BY IdleOK DEF MarkReversed, Continue, Discipline, TypeOK
<1>7. reversed' \subseteq Mark
  BY <1>1 DEF MarkReversed, Mark, Request, Discipline, TypeOK, LedgerTypeOK
<1>8. TypeOK'
  BY <1>6, <1>7 DEF MarkReversed, Discipline, TypeOK, LedgerTypeOK
<1>9. LocksMatch'
  <2>1. \A v \in Workers : Holds(tx'[v]) = Holds(tx[v])
    BY <1>1, <1>6, IdleOK
  <2>2. \A v \in Workers : Holds(tx[v])' = Holds(tx'[v])
    BY DEF Holds, HoldsPaymentNumber, HasPosted, HasMoved, Entering
  <2> QED BY <2>1, <2>2 DEF MarkReversed, Discipline, LocksMatch
<1>10. ASSUME NEW v \in Workers PROVE RequestOK(tx[v])'
  <2>1. RequestOK(tx'[v])
    BY <1>6, IdleOK DEF Discipline
  <2> QED BY <2>1 DEF MarkReversed, RequestOK, StageOK, OperandsOK, ReadsOK, CommittedOK,
       HoldsPaymentNumber, HasPosted, HasMoved, Entering, FitsInvoice, KeyIsFresh, Funds
<1> QED BY <1>5, <1>8, <1>9, <1>10 DEF Discipline

\* What a request knows when it commits.
LEMMA CommitFacts ==
    ASSUME Discipline, NEW w \in Workers, Commit(w)
    PROVE  /\ tx[w] \in Request /\ RequestOK(tx[w]) /\ Entering(tx[w])
           /\ tx[w].je = seq["JE"] + 1
           /\ tx[w].op \in EntryKinds
           /\ seq'["JE"] = seq["JE"] + 1
           /\ seq' = IF tx[w].op = "payment" /\ tx[w].kept
                     THEN [p \in Prefixes |-> seq[p] + 1]
                     ELSE [seq EXCEPT !["JE"] = @ + 1]
<1> DEFINE r == tx[w]
<1>1. r \in Request /\ RequestOK(r) /\ r.at = "commit"
  BY RequestFacts DEF Commit
<1>2. Entering(r) /\ r.je = seq["JE"] + 1
  BY <1>1 DEF RequestOK, StageOK, ReadsOK, Entering
<1>3. r.op \in EntryKinds
  BY <1>1 DEF RequestOK, StageOK, Request, Operations, EntryKinds
<1>4. /\ "JE" \in Rows /\ "PAY" \in Rows
      /\ "JE" \in Holds(r)
      /\ "PAY" \in Holds(r) <=> r.op = "payment" /\ r.kept
  BY <1>1, <1>2, RowsAreDistinct
     DEF Rows, Prefixes, Holds, HoldsPaymentNumber, HasPosted, HasMoved, RequestOK,
         OperandsOK
<1>5. /\ holder["JE"] = w
      /\ holder["PAY"] = w <=> r.op = "payment" /\ r.kept
  BY <1>4 DEF Discipline, LocksMatch
<1>6. seq \in [Prefixes -> Nat]
  BY DEF Discipline, TypeOK, LedgerTypeOK
<1>7. seq' = [p \in Prefixes |-> IF holder[p] = w THEN seq[p] + 1 ELSE seq[p]]
  BY DEF Commit
<1> QED BY <1>1, <1>2, <1>3, <1>5, <1>6, <1>7 DEF Prefixes

\* A commit is one indivisible posting.
LEMMA CommitImplements ==
    ASSUME Discipline, NumbersGapless, NEW w \in Workers, Commit(w)
    PROVE  LedgerNext
<1> DEFINE r == tx[w]
<1>1. /\ r \in Request /\ RequestOK(r) /\ Entering(r)
      /\ r.je = seq["JE"] + 1 /\ r.op \in EntryKinds
      /\ seq' = IF r.op = "payment" /\ r.kept THEN [p \in Prefixes |-> seq[p] + 1]
                                             ELSE [seq EXCEPT !["JE"] = @ + 1]
  BY CommitFacts
<1>2. /\ journal' = journal \union {[no |-> r.je, kind |-> r.op, of |-> r.of]}
      /\ StoreDocuments(r)
      /\ UNCHANGED reversed
  BY DEF Commit
<1>3. CASE r.op = "payment" /\ r.kept
  <2>1. /\ r.row \in Invoices \union {NoInvoice} /\ r.amt \in Amounts
        /\ r.key \in Keys \union {NoKey} /\ r.of = 0
    BY <1>1, <1>3 DEF RequestOK, OperandsOK, Request
  <2>2. /\ FitsInvoice(r.row, r.amt) /\ KeyIsFresh(r.key)
        /\ r.row # NoInvoice => r.before = paid[r.row]
        /\ r.pay = seq["PAY"] + 1
    BY <1>1, <1>3 DEF RequestOK, ReadsOK, HasPosted, HoldsPaymentNumber
  <2>3. paid' = Credited(r.row, r.amt)
    BY <1>2, <1>3, <2>2 DEF StoreDocuments, StorePayment, Credited
  <2>4. Pay(r.row, r.amt, r.key)
    BY <1>1, <1>2, <1>3, <2>1, <2>2, <2>3
       DEF Pay, NewEntry, StoreDocuments, StorePayment
  <2> QED BY <2>1, <2>4 DEF LedgerNext
<1>4. CASE r.op = "wallet" /\ r.kept
  <2>1. /\ r.row \in Wallets /\ r.amt \in Amounts /\ r.kind \in WalletKinds /\ r.of = 0
    BY <1>1, <1>4 DEF RequestOK, OperandsOK, Request
  <2>2. Funds(r.row, r.kind, r.amt) /\ r.before = balance[r.row]
    BY <1>1, <1>4 DEF RequestOK, ReadsOK, HasMoved
  <2>3. MoveWallet(r.row, r.kind, r.amt)
    BY <1>1, <1>2, <1>4, <2>1, <2>2 DEF MoveWallet, NewEntry, StoreDocuments, StoreWalletTxn
  <2> QED BY <2>1, <2>3 DEF LedgerNext
<1>5. CASE ~(r.op \in {"payment", "wallet"} /\ r.kept)
  <2>1. r.op = "reversal" => \E e \in journal : e.no = r.of
    BY <1>1 DEF RequestOK, OperandsOK
  <2>2. r.of \in 0..seq["JE"]
    <3>1. CASE r.op = "reversal"
      BY <2>1, <3>1 DEF NumbersGapless, Gapless
    <3>2. CASE r.op # "reversal"
      BY <1>1, <3>2 DEF RequestOK, OperandsOK, Discipline, TypeOK, LedgerTypeOK, Prefixes
    <3> QED BY <3>1, <3>2
  <2>3. PostEntry(r.op, r.of)
    BY <1>1, <1>2, <1>5, <2>1 DEF PostEntry, NewEntry, StoreDocuments
  <2> QED BY <1>1, <2>2, <2>3 DEF LedgerNext
<1> QED BY <1>3, <1>4, <1>5

LEMMA CommitStep ==
    ASSUME Discipline, LedgerInv, NEW w \in Workers, Commit(w)
    PROVE  Discipline'
<1> DEFINE r == tx[w]
           q == AfterCommit(r)
<1>1. /\ r \in Request /\ RequestOK(r) /\ Entering(r)
      /\ r.je = seq["JE"] + 1 /\ r.op \in EntryKinds
      /\ seq' = IF r.op = "payment" /\ r.kept THEN [p \in Prefixes |-> seq[p] + 1]
                                             ELSE [seq EXCEPT !["JE"] = @ + 1]
  BY CommitFacts
<1>2. /\ journal' = journal \union {[no |-> r.je, kind |-> r.op, of |-> r.of]}
      /\ StoreDocuments(r) /\ holder' = Released(w) /\ r.at = "commit"
      /\ UNCHANGED <<reversed, locked, outbox, opened>>
  BY DEF Commit
<1>3. LedgerTypeOK'
  BY CommitImplements, TypeStep DEF LedgerInv
<1>4. q \in Request /\ Holds(q) = {}
  <2>1. CASE r.op = "wallet" \/ ~r.kept
    BY <2>1, IdleOK DEF AfterCommit
  <2>2. CASE ~(r.op = "wallet" \/ ~r.kept)
    <3>1. q = [r EXCEPT !.at = "outbox"]
      BY <2>2 DEF AfterCommit
    <3>2. q \in Request
      BY <1>1, <3>1, Names DEF Request
    <3>3. q.at = "outbox"
      BY <1>1, <3>1 DEF Request
    <3> QED BY <3>2, <3>3 DEF Holds, HoldsPaymentNumber, HasPosted, HasMoved, Entering
  <2> QED BY <2>1, <2>2
<1>5. \A v \in Workers : tx'[v] = IF v = w THEN q ELSE tx[v]
  BY DEF Commit, Continue, Discipline, TypeOK
<1>6. TypeOK'
  <2>1. tx' \in [Workers -> Request]
    BY <1>4 DEF Commit, Continue, Discipline, TypeOK
  <2>2. holder' \in [Rows -> Workers \union {Nobody}]
    BY <1>2 DEF Released, Discipline, TypeOK
  <2>3. late' \in [Workers -> Nat]
    BY DEF Commit, CountLate, Discipline, TypeOK
  <2> QED BY <1>2, <1>3, <2>1, <2>2, <2>3 DEF Discipline, TypeOK
<1>7. LocksMatch'
  <2>1. \A v \in Workers, row \in Rows :
          holder'[row] = v <=> row \in Holds(IF v = w THEN q ELSE tx[v])
    BY <1>2, <1>4, NobodyIsNoWorker DEF Released, Discipline, LocksMatch, TypeOK
  <2> HIDE DEF q
  <2>2. \A v \in Workers : Holds(tx[v])' = Holds(tx'[v])
    BY DEF Holds, HoldsPaymentNumber, HasPosted, HasMoved, Entering
  <2> QED BY <1>5, <2>1, <2>2 DEF LocksMatch
<1>8. RequestOK(tx[w])'
  <2>1. CASE r.op = "wallet" \/ ~r.kept
    <3>1. tx'[w] = Idle
      BY <1>5, <2>1 DEF AfterCommit
    <3> QED BY <3>1 DEF Idle, RequestOK, StageOK, OperandsOK, ReadsOK, CommittedOK,
         HoldsPaymentNumber, HasPosted, HasMoved, Entering
  <2>2. CASE ~(r.op = "wallet" \/ ~r.kept)
    <3>1. /\ tx'[w].op = r.op /\ tx'[w].at = "outbox" /\ tx'[w].kept /\ tx'[w].of = r.of
          /\ tx'[w].row = r.row /\ tx'[w].amt = r.amt /\ tx'[w].je = r.je
          /\ tx'[w].pay = r.pay /\ tx'[w].pfx = r.pfx
      BY <1>1, <1>5, <2>2 DEF AfterCommit, Request
    <3>2. r.op = "payment" => \E p \in payments' : p.no = r.pay
      <4> DEFINE x == [no |-> r.pay, inv |-> r.row, amt |-> r.amt, key |-> r.key,
                       je |-> r.je]
      <4>1. r.op = "payment" => payments' = payments \union {x}
        BY <1>2, <2>2 DEF StoreDocuments, StorePayment
      <4>2. x.no = r.pay
        OBVIOUS
      <4> HIDE DEF x
      <4> QED BY <4>1, <4>2
    <3> QED BY <1>1, <1>2, <2>2, <3>1, <3>2
            DEF RequestOK, StageOK, OperandsOK, ReadsOK, CommittedOK,
                HoldsPaymentNumber, HasPosted, HasMoved, Entering
  <2> QED BY <2>1, <2>2
<1>9. ASSUME NEW v \in Workers \ {w} PROVE RequestOK(tx[v])'
  <2>1. PICK x : x = tx[v]
    OBVIOUS
  <2>2. x \in Request /\ RequestOK(x) /\ tx'[v] = x
    BY <1>5, <2>1, RequestFacts
  <2>3. \A row \in Rows : row \in Holds(x) => row \notin Holds(r)
    BY <2>1 DEF Discipline, LocksMatch
  <2>4. x.at # "commit"
    BY <1>2, <2>3 DEF Holds, Rows, Prefixes
  <2>5. HoldsPaymentNumber(x) =>
          /\ seq'["PAY"] = seq["PAY"]
          /\ UNCHANGED <<paid, payments>>
    <3> SUFFICES ASSUME HoldsPaymentNumber(x)
                 PROVE  seq'["PAY"] = seq["PAY"] /\ UNCHANGED <<paid, payments>>
      OBVIOUS
    <3>1. "PAY" \notin Holds(r) /\ "PAY" \in Rows
      BY <2>3 DEF Holds, Rows, Prefixes
    <3>2. ~(r.op = "payment" /\ r.kept)
      BY <1>1, <3>1 DEF Holds, HoldsPaymentNumber
    <3> QED BY <1>1, <1>2, <3>2 DEF StoreDocuments, StoreWalletTxn, Discipline, TypeOK,
               LedgerTypeOK, Prefixes
  <2>6. HasMoved(x) => balance'[x.row] = balance[x.row]
    <3> SUFFICES ASSUME HasMoved(x) PROVE balance'[x.row] = balance[x.row]
      OBVIOUS
    <3>1. x.row \in Wallets /\ x.row \in Rows
      BY <2>2 DEF HasMoved, RequestOK, OperandsOK, Rows
    <3>2. x.row \notin Holds(r)
      BY <2>3, <3>1 DEF Holds
    <3>3. HasMoved(r) => x.row # r.row
      BY <3>1, <3>2 DEF Holds
    <3> QED BY <1>1, <1>2, <3>1, <3>3 DEF HasMoved, StoreDocuments, StorePayment,
               StoreWalletTxn, Discipline, TypeOK, LedgerTypeOK
  <2>7. journal \subseteq journal' /\ payments \subseteq payments'
    BY <1>2 DEF StoreDocuments, StorePayment, StoreWalletTxn
  <2>8. OperandsOK(x)' /\ CommittedOK(x)' /\ StageOK(x)'
    BY <2>2, <2>7 DEF RequestOK, OperandsOK, CommittedOK, StageOK
  <2>9. ReadsOK(x)'
    <3>1. HasPosted(x) => HoldsPaymentNumber(x)
      BY DEF HasPosted, HoldsPaymentNumber
    <3>2. ReadsOK(x)
      BY <2>2 DEF RequestOK
    <3>3. /\ HoldsPaymentNumber(x)' = HoldsPaymentNumber(x)
          /\ HasPosted(x)' = HasPosted(x) /\ HasMoved(x)' = HasMoved(x)
      BY DEF HoldsPaymentNumber, HasPosted, HasMoved, Entering
    <3> QED BY <2>4, <2>5, <2>6, <3>1, <3>2, <3>3 DEF ReadsOK, FitsInvoice, KeyIsFresh, Funds
  <2>10. RequestOK(x)'
    BY <2>8, <2>9 DEF RequestOK
  <2> QED BY <2>2, <2>10
<1> QED BY <1>6, <1>7, <1>8, <1>9 DEF Discipline

-----------------------------------------------------------------------------
(* Every step *)

LEMMA InitEstablishesDiscipline == Init => LedgerInv /\ Discipline
<1> SUFFICES ASSUME Init PROVE LedgerInv /\ Discipline
  OBVIOUS
<1>1. LedgerInv
  BY InitEstablishesInv DEF Init
<1>2. TypeOK
  <2>1. opened \in BOOLEAN
    BY DEF Init
  <2>2. holder \in [Rows -> Workers \union {Nobody}] /\ tx \in [Workers -> Request]
    BY IdleOK DEF Init
  <2>3. locked \in BOOLEAN /\ outbox \subseteq OutboxRows /\ late \in [Workers -> Nat]
    BY DEF Init
  <2> QED BY <1>1, <2>1, <2>2, <2>3 DEF LedgerInv, TypeOK
<1>3. \A w \in Workers : tx[w] = Idle
  BY DEF Init
<1>4. LocksMatch
  BY <1>3, IdleOK, NobodyIsNoWorker DEF Init, LocksMatch
<1>5. \A w \in Workers : RequestOK(tx[w])
  BY <1>3, IdleOK
<1> QED BY <1>1, <1>2, <1>4, <1>5 DEF Discipline

\* Every step keeps the discipline, and is a posting or leaves the books alone.
LEMMA NextStep ==
    LedgerInv /\ Discipline /\ [Next]_vars => Discipline' /\ [LedgerNext]_ledgerVars
<1> SUFFICES ASSUME LedgerInv, Discipline, [Next]_vars
             PROVE  Discipline' /\ [LedgerNext]_ledgerVars
  OBVIOUS
<1>0. NumbersGapless
  BY DEF LedgerInv
<1>1. ASSUME NEW w \in Workers, Begin(w) PROVE Discipline' /\ UNCHANGED ledgerVars
  BY <1>1, BeginStep DEF Begin, BeginPayment, BeginWallet, BeginEntry, BeginReversal, Starts
<1>2. ASSUME NEW w \in Workers, Waiting(w) PROVE Discipline' /\ UNCHANGED ledgerVars
  <2>1. CASE SelectNumber(w) \/ InsertNumber(w)
    BY <2>1, IncrementStep DEF SelectNumber, InsertNumber, Increment
  <2>2. CASE InsertLoses(w)
    BY <2>2, InsertLosesStep DEF InsertLoses, Abandon
  <2>3. CASE PostToInvoice(w)
    BY <2>3, PostToInvoiceStep DEF PostToInvoice
  <2>4. CASE LockWallet(w) \/ InsertWallet(w)
    BY <2>4, HoldWalletStep DEF LockWallet, InsertWallet, HoldWallet
  <2>5. CASE RefusePayment(w) \/ RefuseWallet(w)
    BY <2>5, AbandonStep DEF RefusePayment, RefuseWallet, Abandon
  <2> QED BY <1>2, <2>1, <2>2, <2>3, <2>4, <2>5 DEF Waiting
<1>3. ASSUME NEW w \in Workers, Running(w)
      PROVE  Discipline' /\ [LedgerNext]_ledgerVars
  <2>1. CASE NumberIsMissing(w)
    BY <2>1, NumberIsMissingStep DEF NumberIsMissing
  <2>2. CASE WalletIsMissing(w)
    BY <2>2, WalletIsMissingStep DEF WalletIsMissing
  <2>3. CASE CheckPeriod(w)
    BY <2>3, CheckPeriodStep DEF CheckPeriod, Abandon
  <2>4. CASE Commit(w)
    BY <1>0, <2>4, CommitStep, CommitImplements
  <2>5. CASE EnqueueSync(w)
    BY <2>5, EnqueueSyncStep DEF EnqueueSync
  <2>6. CASE MarkReversed(w)
    BY <1>0, <2>6, MarkReversedStep
  <2> QED BY <1>3, <2>1, <2>2, <2>3, <2>4, <2>5, <2>6 DEF Running
<1>4. ASSUME NEW w \in Workers, Crash(w) PROVE Discipline' /\ UNCHANGED ledgerVars
  BY <1>4, AbandonStep DEF Crash, Abandon
<1>5. CASE LockPeriod \/ UnlockPeriod \/ UNCHANGED vars
  <2>1. UNCHANGED <<ledgerVars, holder, tx>>
    BY <1>5 DEF LockPeriod, UnlockPeriod, vars
  <2>2. TypeOK'
    <3>1. LedgerTypeOK' /\ (holder \in [Rows -> Workers \union {Nobody}])'
          /\ (tx \in [Workers -> Request])'
      BY <2>1 DEF Discipline, TypeOK, LedgerTypeOK, ledgerVars
    <3>2. late' \in [Workers -> Nat] /\ locked' \in BOOLEAN
      <4>1. late \in [Workers -> Nat] /\ locked \in BOOLEAN
        BY DEF Discipline, TypeOK
      <4>2. CASE LockPeriod
        BY <4>2 DEF LockPeriod
      <4>3. CASE UnlockPeriod
        BY <4>1, <4>3 DEF UnlockPeriod
      <4>4. CASE UNCHANGED vars
        BY <4>1, <4>4 DEF vars
      <4> QED BY <1>5, <4>2, <4>3, <4>4
    <3>3. outbox' = outbox /\ opened' = opened
      BY <1>5 DEF LockPeriod, UnlockPeriod, vars
    <3> QED BY <3>1, <3>2, <3>3 DEF Discipline, TypeOK
  <2>3. LocksMatch'
    BY <2>1 DEF Discipline, LocksMatch, Holds, HoldsPaymentNumber, HasPosted, HasMoved,
       Entering
  <2>4. ASSUME NEW v \in Workers PROVE RequestOK(tx[v])'
    <3>1. PICK x : x = tx[v]
      OBVIOUS
    <3>2. RequestOK(x)'
      BY <2>1, <3>1, RequestFrame DEF Discipline
    <3> QED BY <2>1, <3>1, <3>2
  <2> QED BY <2>1, <2>2, <2>3, <2>4 DEF Discipline
<1> QED BY <1>1, <1>2, <1>3, <1>4, <1>5 DEF Next

\* The inductive invariant of the interleaved system: the books are right and
\* the locking discipline is kept.
THEOREM InvariantHolds == Spec => [](LedgerInv /\ Discipline)
<1>1. LedgerInv /\ [LedgerNext]_ledgerVars => LedgerInv'
  BY TypeStep, NumberingStep, PaymentsStep, MoneyStep, DocumentsStep,
     WalletsStep DEF LedgerInv
<1>2. LedgerInv /\ Discipline /\ [Next]_vars => (LedgerInv /\ Discipline)'
  BY <1>1, NextStep
<1> QED BY InitEstablishesDiscipline, <1>2, PTL DEF Spec

\* The interleaved transactions of the finance service, with their locks,
\* retries and crashes, change the books only as the indivisible postings of
\* SchoolLedger do.
THEOREM Refinement == Spec => ImplementsLedger
<1>1. Init => LedgerInit
  BY DEF Init
<1>2. LedgerInv /\ Discipline /\ [Next]_vars => [LedgerNext]_ledgerVars
  BY NextStep
<1> QED BY <1>1, <1>2, InvariantHolds, PTL DEF Spec, LedgerSpec, ImplementsLedger

\* Every variable keeps its type.
THEOREM TypesHold == Spec => []TypeOK
<1>1. Discipline => TypeOK
  BY DEF Discipline
<1> QED BY <1>1, InvariantHolds, PTL

\* Document numbers stay unique and gapless under concurrent requests.
THEOREM NumbersStayGapless == Spec => []NumbersGapless
<1>1. LedgerInv => NumbersGapless
  BY DEF LedgerInv
<1> QED BY <1>1, InvariantHolds, PTL

\* No interleaving of payments over-pays an invoice.
THEOREM InvoicesNeverOverpaid == Spec => []NeverOverpaid
<1>1. LedgerInv => NeverOverpaid
  BY DEF LedgerInv
<1> QED BY <1>1, InvariantHolds, PTL

\* No interleaving, retry or crash makes paid_amount differ from the sum of the
\* payment records.
THEOREM InvoicesBalance == Spec => []InvoiceBooksBalance
<1>1. LedgerInv => InvoiceBooksBalance
  BY DEF LedgerInv
<1> QED BY <1>1, InvariantHolds, PTL

\* No interleaving of requests with one idempotency key pays twice.
THEOREM KeysPayOnce == Spec => []KeyPaysOnce
<1>1. LedgerInv => KeyPaysOnce
  BY DEF LedgerInv
<1> QED BY <1>1, InvariantHolds, PTL

\* No interleaving of wallet transactions loses an update or overdraws.
THEOREM WalletsBalance == Spec => []WalletBooksBalance
<1>1. LedgerInv => WalletBooksBalance
  BY DEF LedgerInv
<1> QED BY <1>1, InvariantHolds, PTL

\* Requests never wait for each other in a circle.
THEOREM NoDeadlock == Spec => []NoCircularWait
<1>1. Discipline => NoCircularWait
  <2> SUFFICES ASSUME Discipline, NEW w \in Workers, NEW row \in Rows,
                      holder[row] = w, IsWaiting(tx[w])
               PROVE  Rank(row) < Rank(Awaits(tx[w]))
    BY DEF NoCircularWait
  <2> DEFINE r == tx[w]
  <2>1. r \in Request /\ RequestOK(r) /\ row \in Holds(r)
    BY RequestFacts DEF Discipline, LocksMatch
  <2>2. CASE r.at = "invoice"
    <3>1. row = "PAY"
      BY <2>1, <2>2 DEF Holds, HasPosted, HasMoved, Entering, RequestOK, StageOK
    <3>2. r.row # "PAY" /\ Awaits(r) = r.row
      BY <2>1, <2>2, RowsAreDistinct DEF Request, Rows, Prefixes, Awaits
    <3> QED BY <3>1, <3>2 DEF Rank
  <2>3. CASE r.at \in {"wallet", "walletInsert"}
    BY <2>1, <2>3 DEF Holds, HoldsPaymentNumber, HasPosted, HasMoved, Entering, RequestOK,
       StageOK
  <2>4. CASE r.at \in {"select", "insert"}
    <3>1. r.pfx = "JE" /\ Awaits(r) = "JE"
      BY <2>1, <2>4 DEF Holds, HoldsPaymentNumber, HasPosted, HasMoved, Entering, Request,
         Prefixes, Awaits
    <3>2. row # "JE"
      BY <2>1, <2>4, RowsAreDistinct DEF Holds, HasPosted, HasMoved, RequestOK, OperandsOK,
         Rows, Prefixes
    <3> QED BY <3>1, <3>2 DEF Rank
  <2> QED BY <2>2, <2>3, <2>4 DEF IsWaiting
<1> QED BY <1>1, InvariantHolds, PTL
=============================================================================
