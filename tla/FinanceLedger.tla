---------------------------- MODULE FinanceLedger ----------------------------
(***************************************************************************)
(* The posting operations of backend/app/services/finance_service.py       *)
(* (record_payment, wallet_transaction, create_journal_entry,              *)
(* reverse_journal_entry, lock_period, unlock_period) and the document     *)
(* numbers of backend/app/utils/sequence.py they draw, as concurrent       *)
(* READ COMMITTED transactions with row locks.                             *)
(*                                                                         *)
(* A worker is one request thread with its own database session.  The      *)
(* variables of SchoolLedger hold what is committed; what a transaction    *)
(* has flushed but not committed lives in tx[w].  A row lock, and a row    *)
(* inserted but not committed, are the same thing here: holder[row].       *)
(***************************************************************************)
EXTENDS SchoolLedger

CONSTANTS
    Workers,        \* request threads
    Nobody,         \* holder of an unlocked row
    MaxEntries      \* bound: journal entries of the school year

VARIABLES
    holder,         \* which worker's transaction holds each row
    tx,             \* the request each worker is serving, and how far it is
    locked,         \* is_locked of the accounting period
    outbox,         \* sync_queue rows written by enqueue_sync
    opened,         \* history: were the sequence rows there from the start?
    late            \* history: entries a worker posted since the period's lock

vars == <<ledgerVars, holder, tx, locked, outbox, opened, late>>

Rows == Prefixes \union Invoices \union Wallets

ASSUME RowsAreDistinct ==
    /\ Prefixes \intersect (Invoices \union Wallets) = {}
    /\ Invoices \intersect Wallets = {}
    /\ NoInvoice \notin Rows
ASSUME NobodyIsNoWorker == Nobody \notin Workers
ASSUME WorkersAreFinite == IsFiniteSet(Workers)

MaxTries == 3       \* attempts of next_sequence_number

Idle == [op |-> "none", at |-> "idle", pfx |-> "JE", row |-> NoInvoice, amt |-> 0,
         key |-> NoKey, kind |-> "other", of |-> 0, before |-> 0,
         pay |-> 0, je |-> 0, kept |-> TRUE, tries |-> 0]

Stages == {"idle", "select", "insert", "invoice", "wallet", "walletInsert",
           "period", "commit", "outbox", "mark"}
Operations == {"none", "payment", "wallet", "manual", "reversal"}

-----------------------------------------------------------------------------
(* Transactions and locks. *)

Free(row) == holder[row] = Nobody
Take(w, row) == holder' = [holder EXCEPT ![row] = w]
Released(w) == [row \in Rows |-> IF holder[row] = w THEN Nobody ELSE holder[row]]
Continue(w, r) == tx' = [tx EXCEPT ![w] = r]

\* Faulty: the session is never closed.
AbandonUnclosed(w) ==
    /\ Continue(w, Idle)
    /\ UNCHANGED <<ledgerVars, holder, locked, outbox, opened, late>>

\* The request ends without committing: an exception closes the session, which
\* rolls back.
Abandon(w) ==
    /\ Continue(w, Idle)
    /\ holder' = Released(w)
    /\ UNCHANGED <<ledgerVars, locked, outbox, opened, late>>

Busy == {w \in Workers : tx[w].at # "idle"}
HasRoom == seq["JE"] + Cardinality(Busy) < MaxEntries

Starts(w, r) ==
    /\ tx[w].at = "idle"
    /\ HasRoom
    /\ Continue(w, r)
    /\ UNCHANGED <<ledgerVars, holder, locked, outbox, opened, late>>

\* _check_period: a plain SELECT, no lock.
PeriodIsOpen == ~locked

\* A request that has not entered next_sequence_number draws a number next.
DrawNext(r, pfx) == [r EXCEPT !.at = "select", !.pfx = pfx, !.tries = 0]

-----------------------------------------------------------------------------
(* record_payment *)

\* A locked period is refused and a known idempotency key returns the payment
\* it made: neither changes any state, so neither is a step.
BeginPayment(w, inv, amt, key) ==
    /\ PeriodIsOpen
    /\ KeyIsFresh(key)
    /\ Starts(w, DrawNext([Idle EXCEPT !.op = "payment", !.row = inv,
                                       !.amt = amt, !.key = key], "PAY"))

\* The paid_amount read under the lock is the one the UPDATE starts from.
WithBalance(r) ==
    IF r.row = NoInvoice THEN r ELSE [r EXCEPT !.before = paid[r.row]]

\* Faulty: the idempotency key has no unique constraint.
PostToInvoiceKeyless(w) ==
    LET r == tx[w] IN
    /\ r.at = "invoice"
    /\ r.row # NoInvoice => Free(r.row)
    /\ FitsInvoice(r.row, r.amt)
    /\ IF r.row = NoInvoice THEN UNCHANGED holder ELSE Take(w, r.row)
    /\ Continue(w, DrawNext(WithBalance(r), "JE"))
    /\ UNCHANGED <<ledgerVars, locked, outbox, opened, late>>

\* The invoice row is locked and the payment fits; then db.flush() writes the
\* payment, whose idempotency key is unique.
PostToInvoice(w) ==
    LET r == tx[w] IN
    /\ r.at = "invoice"
    /\ r.row # NoInvoice => Free(r.row)
    /\ FitsInvoice(r.row, r.amt)
    /\ KeyIsFresh(r.key)
    /\ IF r.row = NoInvoice THEN UNCHANGED holder ELSE Take(w, r.row)
    /\ Continue(w, DrawNext(WithBalance(r), "JE"))
    /\ UNCHANGED <<ledgerVars, locked, outbox, opened, late>>

\* BadRequestException for an over-payment, IntegrityError for a key that a
\* concurrent request committed meanwhile.
RefusePayment(w) ==
    LET r == tx[w] IN
    /\ r.at = "invoice"
    /\ r.row # NoInvoice => Free(r.row)
    /\ ~(FitsInvoice(r.row, r.amt) /\ KeyIsFresh(r.key))
    /\ Abandon(w)

-----------------------------------------------------------------------------
(* wallet_transaction *)

BeginWallet(w, wal, kind, amt) ==
    Starts(w, [Idle EXCEPT !.op = "wallet", !.at = "wallet", !.row = wal,
                           !.kind = kind, !.amt = amt])

\* Faulty: the wallet is read without FOR UPDATE.
HoldWalletUnlocked(w) ==
    LET r == tx[w] IN
    /\ Funds(r.row, r.kind, r.amt)
    /\ Continue(w, [r EXCEPT !.at = "period", !.before = balance[r.row]])
    /\ UNCHANGED <<ledgerVars, holder, locked, outbox, opened, late>>

\* The wallet row is held and the balance suffices: balance and transaction
\* are flushed.
HoldWallet(w) ==
    LET r == tx[w] IN
    /\ Free(r.row)
    /\ Funds(r.row, r.kind, r.amt)
    /\ Take(w, r.row)
    /\ Continue(w, [r EXCEPT !.at = "period", !.before = balance[r.row]])
    /\ UNCHANGED <<ledgerVars, locked, outbox, opened, late>>

LockWallet(w) ==
    /\ tx[w].at = "wallet"
    /\ tx[w].row \in walletRows
    /\ HoldWallet(w)

\* SELECT ... FOR UPDATE finds no committed row.
WalletIsMissing(w) ==
    /\ tx[w].at = "wallet"
    /\ tx[w].row \notin walletRows
    /\ Continue(w, [tx[w] EXCEPT !.at = "walletInsert"])
    /\ UNCHANGED <<ledgerVars, holder, locked, outbox, opened, late>>

InsertWallet(w) ==
    /\ tx[w].at = "walletInsert"
    /\ tx[w].row \notin walletRows
    /\ HoldWallet(w)

\* "Insufficient wallet balance", or the wallet was inserted by somebody else
\* between the SELECT and the INSERT (IntegrityError, not caught).
RefuseWallet(w) ==
    LET r == tx[w] IN
    /\ r.at \in {"wallet", "walletInsert"}
    /\ Free(r.row)
    /\ \/ r.at = "wallet" /\ r.row \in walletRows /\ ~Funds(r.row, r.kind, r.amt)
       \/ r.at = "walletInsert" /\ r.row \in walletRows
       \/ r.at = "walletInsert" /\ ~Funds(r.row, r.kind, r.amt)
    /\ Abandon(w)

\* Faulty: no period check.
CheckPeriodNever(w) ==
    /\ tx[w].at = "period"
    /\ Continue(w, DrawNext(tx[w], "JE"))
    /\ UNCHANGED <<ledgerVars, holder, locked, outbox, opened, late>>

\* The period is checked only after the wallet was flushed.
CheckPeriod(w) ==
    /\ tx[w].at = "period"
    /\ IF PeriodIsOpen
       THEN /\ Continue(w, DrawNext(tx[w], "JE"))
            /\ UNCHANGED <<ledgerVars, holder, locked, outbox, opened, late>>
       ELSE Abandon(w)

-----------------------------------------------------------------------------
(* create_journal_entry and reverse_journal_entry *)

BeginEntry(w) ==
    /\ PeriodIsOpen
    /\ Starts(w, DrawNext([Idle EXCEPT !.op = "manual"], "JE"))

IsReversed(e) == \E m \in reversed : m.of = e.no

BeginReversal(w, e) ==
    /\ ~IsReversed(e)
    /\ PeriodIsOpen
    /\ Starts(w, DrawNext([Idle EXCEPT !.op = "reversal", !.of = e.no], "JE"))

-----------------------------------------------------------------------------
(* next_sequence_number, called with prefix "PAY" or "JE" *)

\* Faulty: the original is marked reversed before the reversal is committed.
DrawnMarksFirst(r, n) ==
    IF r.pfx = "PAY" THEN [r EXCEPT !.pay = n, !.at = "invoice"]
    ELSE [r EXCEPT !.je = n, !.at = IF r.op = "reversal" THEN "mark" ELSE "commit"]

\* Faulty: the entry is announced to sync before it is committed.
DrawnAnnounces(r, n) ==
    IF r.pfx = "PAY" THEN [r EXCEPT !.pay = n, !.at = "invoice"]
    ELSE [r EXCEPT !.je = n, !.at = IF r.op = "manual" THEN "outbox" ELSE "commit"]

\* Faulty: the wallet is locked again once the number is drawn.
DrawnRelocks(r, n) ==
    IF r.pfx = "PAY" THEN [r EXCEPT !.pay = n, !.at = "invoice"]
    ELSE [r EXCEPT !.je = n, !.at = IF r.op = "wallet" THEN "wallet" ELSE "commit"]

Drawn(r, n) ==
    IF r.pfx = "PAY" THEN [r EXCEPT !.pay = n, !.at = "invoice"]
                     ELSE [r EXCEPT !.je = n, !.at = "commit"]

\* The row is locked, incremented and flushed.
Increment(w) ==
    LET r == tx[w] IN
    /\ Free(r.pfx)
    /\ Take(w, r.pfx)
    /\ Continue(w, Drawn(r, seq[r.pfx] + 1))
    /\ UNCHANGED <<ledgerVars, locked, outbox, opened, late>>

SelectNumber(w) ==
    /\ tx[w].at = "select"
    /\ seq[tx[w].pfx] > 0
    /\ Increment(w)

\* Faulty: the SELECT misses a row that exists, as it does for a soft-deleted one.
NumberIsHidden(w) ==
    /\ tx[w].at = "select"
    /\ Continue(w, [tx[w] EXCEPT !.at = "insert"])
    /\ UNCHANGED <<ledgerVars, holder, locked, outbox, opened, late>>

\* No committed row to see, whether or not somebody is inserting one.
NumberIsMissing(w) ==
    /\ tx[w].at = "select"
    /\ seq[tx[w].pfx] = 0
    /\ Continue(w, [tx[w] EXCEPT !.at = "insert"])
    /\ UNCHANGED <<ledgerVars, holder, locked, outbox, opened, late>>

\* The INSERT waits for any other transaction that holds the key.
InsertNumber(w) ==
    /\ tx[w].at = "insert"
    /\ seq[tx[w].pfx] = 0
    /\ Increment(w)

\* Faulty: the caller's flushed records are believed to survive the rollback.
HasFlushedNothing(r) == FALSE

\* What the caller flushed before it asked for this number.
HasFlushed(r) == r.op \in {"payment", "wallet"} /\ r.pfx = "JE"

\* Faulty: the IntegrityError is swallowed and number 1 used all the same.
InsertLosesUnnoticed(w) ==
    LET r == tx[w] IN
    /\ r.at = "insert"
    /\ Free(r.pfx)
    /\ seq[r.pfx] > 0
    /\ Continue(w, Drawn(r, 1))
    /\ UNCHANGED <<ledgerVars, holder, locked, outbox, opened, late>>

\* IntegrityError: db.rollback() drops the caller's whole transaction, and its
\* locks, before the loop tries again; after the third time, RuntimeError.
InsertLoses(w) ==
    LET r == tx[w] IN
    /\ r.at = "insert"
    /\ Free(r.pfx)
    /\ seq[r.pfx] > 0
    /\ IF r.tries + 1 < MaxTries
       THEN /\ holder' = Released(w)
            /\ Continue(w, [r EXCEPT !.at = "select", !.tries = @ + 1,
                                     !.kept = @ /\ ~HasFlushed(r)])
            /\ UNCHANGED <<ledgerVars, locked, outbox, opened, late>>
       ELSE Abandon(w)

-----------------------------------------------------------------------------
(* db.commit() and what follows it *)

\* Faulty: paid_amount is set to the payment instead of increased by it.
StorePaymentOverwrites(r) ==
    /\ paid' = IF r.row = NoInvoice THEN paid ELSE [paid EXCEPT ![r.row] = r.amt]
    /\ payments' = payments \union
        {[no |-> r.pay, inv |-> r.row, amt |-> r.amt, key |-> r.key, je |-> r.je]}
    /\ UNCHANGED <<walletRows, balance, wtxns>>

\* Records of a rolled-back request are no longer in its session: only the
\* journal entry made after the rollback is committed.
StorePayment(r) ==
    /\ paid' = IF r.row = NoInvoice THEN paid
               ELSE [paid EXCEPT ![r.row] = r.before + r.amt]
    /\ payments' = payments \union
        {[no |-> r.pay, inv |-> r.row, amt |-> r.amt, key |-> r.key, je |-> r.je]}
    /\ UNCHANGED <<walletRows, balance, wtxns>>

StoreWalletTxn(r) ==
    /\ walletRows' = walletRows \union {r.row}
    /\ balance' = [balance EXCEPT ![r.row] = r.before + Delta(r.kind, r.amt)]
    /\ wtxns' = wtxns \union
        {[wal |-> r.row, kind |-> r.kind, before |-> r.before,
          after |-> r.before + Delta(r.kind, r.amt), je |-> r.je]}
    /\ UNCHANGED <<paid, payments>>

StoreDocuments(r) ==
    IF r.op = "payment" /\ r.kept THEN StorePayment(r)
    ELSE IF r.op = "wallet" /\ r.kept THEN StoreWalletTxn(r)
    ELSE UNCHANGED <<paid, payments, walletRows, balance, wtxns>>

\* A wallet transaction is not synced; db.refresh() of a record that was rolled
\* back raises, so a request that lost its documents ends here.
AfterCommit(r) ==
    IF r.op = "wallet" \/ ~r.kept THEN Idle ELSE [r EXCEPT !.at = "outbox"]

CountLate(w) == [late EXCEPT ![w] = IF locked THEN @ + 1 ELSE @]

\* Faulty: a wallet transaction is committed without its journal entry.
CommitForgetsEntry(w) ==
    LET r == tx[w] IN
    /\ r.at = "commit"
    /\ StoreDocuments(r)
    /\ journal' = IF r.op = "wallet" THEN journal
                  ELSE journal \union {[no |-> r.je, kind |-> r.op, of |-> r.of]}
    /\ seq' = [p \in Prefixes |-> IF holder[p] = w THEN seq[p] + 1 ELSE seq[p]]
    /\ holder' = Released(w)
    /\ Continue(w, AfterCommit(r))
    /\ late' = CountLate(w)
    /\ UNCHANGED <<reversed, locked, outbox, opened>>

Commit(w) ==
    LET r == tx[w] IN
    /\ r.at = "commit"
    /\ StoreDocuments(r)
    /\ journal' = journal \union {[no |-> r.je, kind |-> r.op, of |-> r.of]}
    /\ seq' = [p \in Prefixes |-> IF holder[p] = w THEN seq[p] + 1 ELSE seq[p]]
    /\ holder' = Released(w)
    /\ Continue(w, AfterCommit(r))
    /\ late' = CountLate(w)
    /\ UNCHANGED <<reversed, locked, outbox, opened>>

\* Faulty: the record is announced under the name log_audit has for it.
OutboxRowOfAudit(r) ==
    IF r.op = "payment" THEN [table |-> "payment", no |-> r.pay]
                        ELSE [table |-> "journal_entry", no |-> r.je]

\* enqueue_sync commits on its own, after the business transaction.
OutboxRow(r) ==
    IF r.op = "payment" THEN [table |-> "payments", no |-> r.pay]
                        ELSE [table |-> "journal_entries", no |-> r.je]

EnqueueSync(w) ==
    LET r == tx[w] IN
    /\ r.at = "outbox"
    /\ outbox' = outbox \union {OutboxRow(r)}
    /\ Continue(w, IF r.op = "reversal" THEN [r EXCEPT !.at = "mark"] ELSE Idle)
    /\ UNCHANGED <<ledgerVars, holder, locked, opened, late>>

\* reverse_journal_entry marks the original in a transaction of its own and
\* does not look at is_reversed again.
MarkReversed(w) ==
    LET r == tx[w] IN
    /\ r.at = "mark"
    /\ reversed' = {m \in reversed : m.of # r.of} \union {[of |-> r.of, by |-> r.je]}
    /\ Continue(w, Idle)
    /\ UNCHANGED <<seq, paid, walletRows, balance, payments, wtxns, journal,
                   holder, locked, outbox, opened, late>>

-----------------------------------------------------------------------------
(* The rest of the environment *)

\* The process or its connection dies: PostgreSQL rolls back and unlocks.
Crash(w) == tx[w].at # "idle" /\ Abandon(w)

LockPeriod ==
    /\ ~locked
    /\ locked' = TRUE
    /\ late' = [w \in Workers |-> 0]
    /\ UNCHANGED <<ledgerVars, holder, tx, outbox, opened>>

UnlockPeriod ==
    /\ locked
    /\ locked' = FALSE
    /\ UNCHANGED <<ledgerVars, holder, tx, outbox, opened, late>>

-----------------------------------------------------------------------------
Init ==
    /\ LedgerInit
    /\ holder = [row \in Rows |-> Nobody]
    /\ tx = [w \in Workers |-> Idle]
    /\ locked = FALSE
    /\ outbox = {}
    /\ opened = (seq["JE"] > 0)
    /\ late = [w \in Workers |-> 0]

Begin(w) ==
    \/ \E inv \in Invoices \union {NoInvoice}, amt \in Amounts,
          key \in Keys \union {NoKey} : BeginPayment(w, inv, amt, key)
    \/ \E wal \in Wallets, kind \in WalletKinds, amt \in Amounts :
          BeginWallet(w, wal, kind, amt)
    \/ BeginEntry(w)
    \/ \E e \in journal : BeginReversal(w, e)

\* The steps that wait for a row another transaction may hold.
Waiting(w) ==
    \/ SelectNumber(w) \/ InsertNumber(w) \/ InsertLoses(w)
    \/ PostToInvoice(w) \/ RefusePayment(w)
    \/ LockWallet(w) \/ InsertWallet(w) \/ RefuseWallet(w)

Running(w) ==
    \/ NumberIsMissing(w) \/ WalletIsMissing(w) \/ CheckPeriod(w)
    \/ Commit(w) \/ EnqueueSync(w) \/ MarkReversed(w)

Next ==
    \/ \E w \in Workers : Begin(w) \/ Waiting(w) \/ Running(w) \/ Crash(w)
    \/ LockPeriod
    \/ UnlockPeriod

Spec == Init /\ [][Next]_vars

\* PostgreSQL grants a row lock to the transactions that wait for it in turn
\* (SF), and a thread that waits for nothing keeps running (WF).  Nobody has to
\* send a request, lock the period or crash.
Fairness == \A w \in Workers : WF_vars(Running(w)) /\ SF_vars(Waiting(w))
FairSpec == Spec /\ Fairness

-----------------------------------------------------------------------------
(* Properties *)

Request == [op : Operations, at : Stages, pfx : Prefixes,
            row : Invoices \union Wallets \union {NoInvoice},
            amt : Amounts \union {0}, key : Keys \union {NoKey},
            kind : WalletKinds, of : Nat, before : Int, pay : Nat, je : Nat,
            kept : BOOLEAN, tries : 0..MaxTries]

OutboxRows == [table : {"payments", "journal_entries"}, no : Nat]

\* The shape of every variable.
TypeOK ==
    /\ LedgerTypeOK
    /\ holder \in [Rows -> Workers \union {Nobody}]
    /\ tx \in [Workers -> Request]
    /\ locked \in BOOLEAN
    /\ outbox \subseteq OutboxRows
    /\ opened \in BOOLEAN
    /\ late \in [Workers -> Nat]

\* The row a request must get before it can go on.
Awaits(r) == IF r.at \in {"select", "insert"} THEN r.pfx ELSE r.row
IsWaiting(r) == r.at \in {"select", "insert", "invoice", "wallet", "walletInsert"}
Rank(row) == IF row = "PAY" THEN 1 ELSE IF row = "JE" THEN 3 ELSE 2

\* Transactions take rows in one order (PAY number, invoice or wallet, JE
\* number), so requests never wait for each other in a circle: PostgreSQL never
\* has a deadlock to break.
NoCircularWait ==
    \A w \in Workers, row \in Rows :
        holder[row] = w /\ IsWaiting(tx[w]) => Rank(row) < Rank(Awaits(tx[w]))

\* next_sequence_number loses the insert at most once per call, so its third
\* attempt, and the RuntimeError after it, are never reached.
RetryBudgetSuffices == \A w \in Workers : tx[w].tries <= 1

\* Once the year's sequence rows exist, no request loses the documents it
\* flushed: every journal entry belongs to a committed document.
AtomicOnceOpened ==
    opened => JournalMatchesDocuments /\ \A w \in Workers : tx[w].kept

\* What docs/FINANCE.md promises of a closed period: no new entries in it.
NothingPostedLate == locked => \A w \in Workers : late[w] = 0

\* What the code keeps of that promise: the period check takes no lock, so a
\* request that passed it may still post after lock_period; but only that one
\* entry, and none that checks later.
OneLateEntryPerRequest == locked => \A w \in Workers : late[w] <= 1

\* sync_queue announces only what is committed, even though it is written by a
\* later transaction that a crash may cut off.
OutboxIsCommitted ==
    \A o \in outbox :
        IF o.table = "payments" THEN \E p \in payments : p.no = o.no
                                ELSE \E e \in journal : e.no = o.no

\* Committed state changes only as SchoolLedger allows: the interleaved
\* transactions are equivalent to indivisible ones.
ImplementsLedger == LedgerSpec

\* Every request comes to an end.
RequestsFinish ==
    \A w \in Workers : tx[w].at # "idle" ~> tx[w].at = "idle"
=============================================================================
