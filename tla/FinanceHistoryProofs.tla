------------------------ MODULE FinanceHistoryProofs ------------------------
(***************************************************************************)
(* What FinanceLedger keeps besides the books: the retries of a number,    *)
(* the entries posted after a period was locked, the documents that a      *)
(* rollback may lose, and the sync outbox.  Each is an invariant over the  *)
(* life of a request; Moves says what one step may do to it.               *)
(***************************************************************************)
EXTENDS FinanceLedgerProofs

Drawing == {"select", "insert"}
\* Past the period check, and not yet committed.
Cleared == {"select", "insert", "invoice", "commit"}
BeforePeriod == {"wallet", "walletInsert", "period"}
After == {"idle", "outbox", "mark"}

\* A request draws a number only after it passed the period check; it goes on
\* to "insert" only if there is no row, and back only if there is one.  It loses
\* its documents only when it loses the insert of a journal number.
Advances(r, q) ==
    \/ /\ r.at \in {"period", "invoice"} /\ q.at = "select"
       /\ r.at = "period" => ~locked
       /\ q.pfx = "JE" /\ q.tries = 0 /\ q.kept = r.kept
    \/ /\ r.at \in {"wallet", "walletInsert"} /\ q.at \in {"walletInsert", "period"}
       /\ q.at # r.at /\ q.tries = r.tries /\ q.kept = r.kept
    \/ /\ r.at = "select" /\ q.at = "insert" /\ seq[r.pfx] = 0
       /\ q.pfx = r.pfx /\ q.tries = r.tries /\ q.kept = r.kept
    \/ /\ r.at = "insert" /\ q.at = "select" /\ seq[r.pfx] > 0
       /\ q.pfx = r.pfx /\ q.tries = r.tries + 1 /\ q.tries < MaxTries
       /\ r.pfx = "PAY" => q.kept = r.kept
    \/ /\ r.at \in Drawing /\ q.at = (IF r.pfx = "PAY" THEN "invoice" ELSE "commit")
       /\ q.tries = r.tries /\ q.kept = r.kept
    \/ /\ r.at \in {"commit", "outbox"} /\ q.at \in {"outbox", "mark"}
       /\ q.at # r.at /\ q.tries = r.tries /\ q.kept = r.kept

Moves(r, q) ==
    \/ q = r
    \/ q = Idle
    \/ /\ r.at = "idle" /\ q.at = "wallet" /\ q.op = "wallet"
       /\ q.tries = 0 /\ q.kept
    \/ /\ r.at = "idle" /\ q.at = "select" /\ ~locked
       /\ q.tries = 0 /\ q.kept
       /\ q.op = "reversal" => \E e \in journal : q.of = e.no /\ ~IsReversed(e)
    \/ Advances(r, q) /\ q.op = r.op /\ q.of = r.of

LEMMA OneMoves ==
    ASSUME Discipline, NEW w \in Workers, NEW q, Continue(w, q), Moves(tx[w], q)
    PROVE  \A v \in Workers : Moves(tx[v], tx'[v])
BY DEF Continue, Discipline, TypeOK, Moves, Advances

LEMMA RequestMoves ==
    Discipline /\ [Next]_vars => \A v \in Workers : Moves(tx[v], tx'[v])
<1> SUFFICES ASSUME Discipline, [Next]_vars
             PROVE  \A v \in Workers : Moves(tx[v], tx'[v])
  OBVIOUS
<1>1. ASSUME NEW w \in Workers, Abandon(w)
      PROVE  \A v \in Workers : Moves(tx[v], tx'[v])
  BY <1>1, OneMoves DEF Abandon, Moves, Advances
<1>2. ASSUME NEW w \in Workers, Begin(w)
      PROVE  \A v \in Workers : Moves(tx[v], tx'[v])
  <2>1. ASSUME NEW inv \in Invoices \union {NoInvoice}, NEW amt \in Amounts,
               NEW key \in Keys \union {NoKey}, BeginPayment(w, inv, amt, key)
        PROVE  \A v \in Workers : Moves(tx[v], tx'[v])
    BY <2>1, OneMoves DEF BeginPayment, Starts, PeriodIsOpen, DrawNext, Idle, Moves, Advances
  <2>2. ASSUME NEW wal \in Wallets, NEW kind \in WalletKinds, NEW amt \in Amounts,
               BeginWallet(w, wal, kind, amt)
        PROVE  \A v \in Workers : Moves(tx[v], tx'[v])
    BY <2>2, OneMoves DEF BeginWallet, Starts, Idle, Moves, Advances
  <2>3. CASE BeginEntry(w)
    BY <2>3, OneMoves DEF BeginEntry, Starts, PeriodIsOpen, DrawNext, Idle, Moves, Advances
  <2>4. ASSUME NEW e \in journal, BeginReversal(w, e)
        PROVE  \A v \in Workers : Moves(tx[v], tx'[v])
    BY <2>4, OneMoves DEF BeginReversal, Starts, PeriodIsOpen, DrawNext, Idle, Moves, Advances
  <2> QED BY <1>2, <2>1, <2>2, <2>3, <2>4 DEF Begin
<1>3. ASSUME NEW w \in Workers, Waiting(w)
      PROVE  \A v \in Workers : Moves(tx[v], tx'[v])
  <2> DEFINE r == tx[w]
  <2>0. r \in Request
    BY DEF Discipline, TypeOK
  <2>1. CASE SelectNumber(w) \/ InsertNumber(w)
    <3>1. PICK n : Continue(w, Drawn(r, n)) /\ r.at \in Drawing
      BY <2>1 DEF SelectNumber, InsertNumber, Increment, Drawing
    <3>2. Moves(r, Drawn(r, n))
      BY <2>0, <3>1 DEF Drawn, Moves, Advances, Request
    <3> QED BY <3>1, <3>2, OneMoves
  <2>2. CASE InsertLoses(w)
    <3>1. CASE r.tries + 1 < MaxTries
      <4> DEFINE q == [r EXCEPT !.at = "select", !.tries = @ + 1,
                                !.kept = @ /\ ~HasFlushed(r)]
      <4>1. Continue(w, q)
        BY <2>2, <3>1 DEF InsertLoses
      <4>2. Moves(r, q)
        <5>1. r.at = "insert" /\ seq[r.pfx] > 0
          BY <2>2 DEF InsertLoses
        <5>2. /\ q.at = "select" /\ q.tries = r.tries + 1 /\ q.pfx = r.pfx
              /\ q.op = r.op /\ q.of = r.of
              /\ q.kept = (r.kept /\ ~HasFlushed(r))
          BY <2>0 DEF Request
        <5>3. r.pfx = "PAY" => ~HasFlushed(r)
          BY DEF HasFlushed
        <5>4. r.pfx = "PAY" => q.kept = r.kept
          BY <2>0, <5>2, <5>3 DEF Request
        <5> HIDE DEF q
        <5> QED BY <3>1, <5>1, <5>2, <5>4 DEF Moves, Advances
      <4> QED BY <4>1, <4>2, OneMoves
    <3>2. CASE ~(r.tries + 1 < MaxTries)
      BY <1>1, <2>2, <3>2 DEF InsertLoses
    <3> QED BY <3>1, <3>2
  <2>3. CASE PostToInvoice(w)
    <3>1. Moves(r, DrawNext(WithBalance(r), "JE"))
      BY <2>0, <2>3 DEF PostToInvoice, WithBalance, DrawNext, Moves, Advances, Request
    <3> QED BY <2>3, <3>1, OneMoves DEF PostToInvoice
  <2>4. CASE LockWallet(w) \/ InsertWallet(w)
    <3> DEFINE q == [r EXCEPT !.at = "period", !.before = balance[r.row]]
    <3>1. Moves(r, q)
      BY <2>0, <2>4 DEF LockWallet, InsertWallet, Moves, Advances, Request
    <3> QED BY <2>4, <3>1, OneMoves DEF LockWallet, InsertWallet, HoldWallet
  <2>5. CASE RefusePayment(w) \/ RefuseWallet(w)
    BY <1>1, <2>5 DEF RefusePayment, RefuseWallet
  <2> QED BY <1>3, <2>1, <2>2, <2>3, <2>4, <2>5 DEF Waiting
<1>4. ASSUME NEW w \in Workers, Running(w)
      PROVE  \A v \in Workers : Moves(tx[v], tx'[v])
  <2> DEFINE r == tx[w]
  <2>0. r \in Request
    BY DEF Discipline, TypeOK
  <2>1. CASE NumberIsMissing(w)
    <3>1. Moves(r, [r EXCEPT !.at = "insert"])
      BY <2>0, <2>1 DEF NumberIsMissing, Moves, Advances, Request
    <3> QED BY <2>1, <3>1, OneMoves DEF NumberIsMissing
  <2>2. CASE WalletIsMissing(w)
    <3>1. Moves(r, [r EXCEPT !.at = "walletInsert"])
      BY <2>0, <2>2 DEF WalletIsMissing, Moves, Advances, Request
    <3> QED BY <2>2, <3>1, OneMoves DEF WalletIsMissing
  <2>3. CASE CheckPeriod(w)
    <3>1. CASE PeriodIsOpen
      <4>1. Moves(r, DrawNext(r, "JE"))
        BY <2>0, <2>3, <3>1 DEF CheckPeriod, PeriodIsOpen, DrawNext, Moves, Advances, Request
      <4> QED BY <2>3, <3>1, <4>1, OneMoves DEF CheckPeriod
    <3>2. CASE ~PeriodIsOpen
      BY <1>1, <2>3, <3>2 DEF CheckPeriod
    <3> QED BY <3>1, <3>2
  <2>4. CASE Commit(w)
    <3>1. Moves(r, AfterCommit(r))
      BY <2>0, <2>4 DEF Commit, AfterCommit, Moves, Advances, Request
    <3> QED BY <2>4, <3>1, OneMoves DEF Commit
  <2>5. CASE EnqueueSync(w)
    <3>1. Moves(r, IF r.op = "reversal" THEN [r EXCEPT !.at = "mark"] ELSE Idle)
      BY <2>0, <2>5 DEF EnqueueSync, Moves, Advances, Request
    <3> QED BY <2>5, <3>1, OneMoves DEF EnqueueSync
  <2>6. CASE MarkReversed(w)
    BY <2>6, OneMoves DEF MarkReversed, Moves, Advances
  <2> QED BY <1>4, <2>1, <2>2, <2>3, <2>4, <2>5, <2>6 DEF Running
<1>5. CASE LockPeriod \/ UnlockPeriod \/ UNCHANGED vars
  BY <1>5 DEF LockPeriod, UnlockPeriod, vars, Moves, Advances
<1> QED BY <1>1, <1>2, <1>3, <1>4, <1>5 DEF Next, Crash

-----------------------------------------------------------------------------
(* Committed records stay *)

LEMMA BooksGrow ==
    ASSUME LedgerInv, [LedgerNext]_ledgerVars
    PROVE  /\ \A p \in Prefixes : seq[p] \in Nat /\ seq'[p] >= seq[p]
           /\ payments \subseteq payments'
           /\ wtxns \subseteq wtxns'
           /\ journal \subseteq journal'
<1>0. seq \in [Prefixes -> Nat]
  BY DEF LedgerInv, LedgerTypeOK
<1>1. ASSUME NEW inv \in Invoices \union {NoInvoice}, NEW amt \in Amounts,
             NEW key \in Keys \union {NoKey}, Pay(inv, amt, key)
      PROVE  /\ \A p \in Prefixes : seq'[p] >= seq[p]
             /\ payments \subseteq payments' /\ wtxns \subseteq wtxns'
             /\ journal \subseteq journal'
  BY <1>0, <1>1 DEF Pay, NewEntry
<1>2. ASSUME NEW wal \in Wallets, NEW kind \in WalletKinds, NEW amt \in Amounts,
             MoveWallet(wal, kind, amt)
      PROVE  /\ \A p \in Prefixes : seq'[p] >= seq[p]
             /\ payments \subseteq payments' /\ wtxns \subseteq wtxns'
             /\ journal \subseteq journal'
  BY <1>0, <1>2 DEF MoveWallet, NewEntry
<1>3. ASSUME NEW kind \in EntryKinds, NEW of \in 0..seq["JE"], PostEntry(kind, of)
      PROVE  /\ \A p \in Prefixes : seq'[p] >= seq[p]
             /\ payments \subseteq payments' /\ wtxns \subseteq wtxns'
             /\ journal \subseteq journal'
  BY <1>0, <1>3 DEF PostEntry, NewEntry
<1>4. ASSUME NEW of \in 1..seq["JE"], NEW by \in 1..seq["JE"], MarkEntry(of, by)
      PROVE  /\ \A p \in Prefixes : seq'[p] >= seq[p]
             /\ payments \subseteq payments' /\ wtxns \subseteq wtxns'
             /\ journal \subseteq journal'
  BY <1>0, <1>4 DEF MarkEntry
<1>5. CASE UNCHANGED ledgerVars
  BY <1>0, <1>5 DEF ledgerVars
<1> QED BY <1>0, <1>1, <1>2, <1>3, <1>4, <1>5 DEF LedgerNext

-----------------------------------------------------------------------------
(* Retries *)

\* A request on its second attempt finds the row that beat it.
RetryFindsRow ==
    \A w \in Workers :
        /\ tx[w].tries <= 1
        /\ tx[w].tries = 1 /\ tx[w].at \in Drawing
              => tx[w].at = "select" /\ seq[tx[w].pfx] > 0

\* next_sequence_number never needs its third attempt.
THEOREM RetriesSuffice == Spec => []RetryBudgetSuffices
<1>1. Init => RetryFindsRow
  BY DEF Init, Idle, RetryFindsRow, Drawing
<1>2. LedgerInv /\ Discipline /\ RetryFindsRow /\ [Next]_vars => RetryFindsRow'
  <2> SUFFICES ASSUME LedgerInv, Discipline, RetryFindsRow, [Next]_vars, NEW w \in Workers
               PROVE  /\ tx'[w].tries <= 1
                      /\ tx'[w].tries = 1 /\ tx'[w].at \in Drawing
                            => tx'[w].at = "select" /\ seq'[tx'[w].pfx] > 0
    BY DEF RetryFindsRow
  <2> DEFINE r == tx[w]
             q == tx'[w]
  <2>1. \A p \in Prefixes : seq[p] \in Nat /\ seq'[p] \in Nat /\ seq'[p] >= seq[p]
    BY BooksGrow, NextStep DEF Discipline, TypeOK, LedgerTypeOK
  <2>2. Moves(r, q)
    BY RequestMoves
  <2>3. r \in Request /\ q \in Request
    BY NextStep DEF Discipline, TypeOK
  <2>4. /\ r.tries \in Nat /\ r.tries <= 1 /\ r.pfx \in Prefixes
        /\ r.tries = 1 /\ r.at \in Drawing => r.at = "select" /\ seq[r.pfx] > 0
    BY <2>3 DEF RetryFindsRow, Request, MaxTries
  <2> QED BY <2>1, <2>2, <2>3, <2>4 DEF Moves, Advances, Idle, Drawing
<1>3. RetryFindsRow => RetryBudgetSuffices
  BY DEF RetryFindsRow, RetryBudgetSuffices
<1> QED BY <1>1, <1>2, <1>3, InvariantHolds, PTL DEF Spec

-----------------------------------------------------------------------------
(* Locking a period *)

\* A request that has passed the period check and will still post has posted
\* nothing since the lock.
OnePostPending ==
    locked => \A w \in Workers :
        late[w] <= 1 /\ (tx[w].at \in Cleared => late[w] = 0)

LEMMA LateMoves ==
    Discipline /\ [Next]_vars =>
        \/ late' = late /\ (locked' => locked)
        \/ late' = [w \in Workers |-> 0]
        \/ /\ locked' = locked
           /\ \E w \in Workers :
                 tx[w].at = "commit" /\ tx'[w].at \in After /\ late' = CountLate(w)
<1> SUFFICES ASSUME Discipline, [Next]_vars
             PROVE  \/ late' = late /\ (locked' => locked)
                    \/ late' = [w \in Workers |-> 0]
                    \/ /\ locked' = locked
                       /\ \E w \in Workers :
                             tx[w].at = "commit" /\ tx'[w].at \in After /\ late' = CountLate(w)
  OBVIOUS
<1>1. ASSUME NEW w \in Workers, Begin(w) \/ Waiting(w) \/ Crash(w)
      PROVE  late' = late /\ locked' = locked
  BY <1>1 DEF Begin, BeginPayment, BeginWallet, BeginEntry, BeginReversal, Starts, Waiting,
     SelectNumber, InsertNumber, Increment, InsertLoses, PostToInvoice, RefusePayment,
     LockWallet, InsertWallet, HoldWallet, RefuseWallet, Crash, Abandon
<1>2. ASSUME NEW w \in Workers, Commit(w)
      PROVE  tx[w].at = "commit" /\ tx'[w].at \in After /\ late' = CountLate(w)
             /\ locked' = locked
  <2>1. tx[w] \in Request /\ tx'[w] = AfterCommit(tx[w])
    BY <1>2 DEF Commit, Continue, Discipline, TypeOK
  <2>2. tx'[w].at \in After
    BY <2>1 DEF AfterCommit, Idle, After, Request
  <2> QED BY <1>2, <2>2 DEF Commit
<1>3. ASSUME NEW w \in Workers, Running(w), ~Commit(w)
      PROVE  late' = late /\ locked' = locked
  BY <1>3 DEF Running, NumberIsMissing, WalletIsMissing, CheckPeriod, EnqueueSync,
     MarkReversed, Abandon
<1>4. CASE LockPeriod \/ UnlockPeriod \/ UNCHANGED vars
  BY <1>4 DEF LockPeriod, UnlockPeriod, vars
<1> QED BY <1>1, <1>2, <1>3, <1>4 DEF Next

\* A request that was running when its period was locked posts at most one more
\* entry, whatever the worker does afterwards.
THEOREM OneLateEntry == Spec => []OneLateEntryPerRequest
<1>1. Init => OnePostPending
  BY DEF Init, OnePostPending
<1>2. LedgerInv /\ Discipline /\ OnePostPending /\ [Next]_vars => OnePostPending'
  <2> SUFFICES ASSUME LedgerInv, Discipline, OnePostPending, [Next]_vars, locked',
                      NEW w \in Workers
               PROVE  late'[w] <= 1 /\ (tx'[w].at \in Cleared => late'[w] = 0)
    BY DEF OnePostPending
  <2>1. Moves(tx[w], tx'[w])
    BY RequestMoves
  <2>2. late \in [Workers -> Nat]
    BY DEF Discipline, TypeOK
  <2>3. CASE late' = [v \in Workers |-> 0]
    BY <2>3
  <2>4. CASE late' = late /\ locked
    <3>1. tx'[w].at \in Cleared => tx[w].at \in Cleared
      BY <2>1, <2>4 DEF Moves, Advances, Idle, Cleared, Drawing
    <3> QED BY <2>4, <3>1 DEF OnePostPending
  <2>5. CASE locked /\ \E v \in Workers :
                 tx[v].at = "commit" /\ tx'[v].at \in After /\ late' = CountLate(v)
    <3>1. PICK v \in Workers :
             tx[v].at = "commit" /\ tx'[v].at \in After /\ late' = CountLate(v)
      BY <2>5
    <3>2. late[v] = 0
      BY <2>5, <3>1 DEF OnePostPending, Cleared
    <3>3. CASE w = v
      BY <2>2, <2>5, <3>1, <3>2, <3>3 DEF CountLate, After, Cleared
    <3>4. CASE w # v
      <4>1. late'[w] = late[w]
        BY <2>2, <3>1, <3>4 DEF CountLate
      <4>2. tx'[w].at \in Cleared => tx[w].at \in Cleared
        BY <2>1, <2>5 DEF Moves, Advances, Idle, Cleared, Drawing
      <4> QED BY <2>5, <4>1, <4>2 DEF OnePostPending
    <3> QED BY <3>3, <3>4
  <2> QED BY <2>3, <2>4, <2>5, LateMoves
<1>3. OnePostPending => OneLateEntryPerRequest
  BY DEF OnePostPending, OneLateEntryPerRequest
<1> QED BY <1>1, <1>2, <1>3, InvariantHolds, PTL DEF Spec

-----------------------------------------------------------------------------
(* Rollbacks and documents *)

\* With both sequence rows committed nobody inserts one, so nobody is rolled
\* back under a caller that goes on.
RowsAreOpen ==
    opened =>
        /\ \A p \in Prefixes : seq[p] > 0
        /\ \A w \in Workers : tx[w].at # "insert" /\ tx[w].kept
        /\ JournalMatchesDocuments

LEMMA JournalMoves ==
    Discipline /\ [Next]_vars =>
        /\ opened' = opened
        /\ journal' = journal \/ \E w \in Workers : Commit(w)
BY DEF Discipline, Next, Begin, BeginPayment, BeginWallet, BeginEntry, BeginReversal, Starts,
   Waiting, SelectNumber, InsertNumber, Increment, InsertLoses, PostToInvoice,
   RefusePayment, LockWallet, InsertWallet, HoldWallet, RefuseWallet, Crash, Abandon,
   Running, NumberIsMissing, WalletIsMissing, CheckPeriod, EnqueueSync, MarkReversed,
   LockPeriod, UnlockPeriod, Commit, vars, ledgerVars

\* A request that has kept its documents commits them with their entry.
LEMMA KeptDocuments ==
    ASSUME NEW w \in Workers, Commit(w), tx[w].kept
    PROVE  /\ tx[w].op = "payment" => \E p \in payments' : p.je = tx[w].je
           /\ tx[w].op = "wallet" => \E t \in wtxns' : t.je = tx[w].je
<1> DEFINE r == tx[w]
<1>1. StoreDocuments(r)
  BY DEF Commit
<1>2. ASSUME r.op = "payment" PROVE \E p \in payments' : p.je = r.je
  <2> DEFINE p == [no |-> r.pay, inv |-> r.row, amt |-> r.amt, key |-> r.key, je |-> r.je]
  <2>1. StorePayment(r)
    BY <1>1, <1>2 DEF StoreDocuments
  <2>2. p \in payments'
    BY <2>1 DEF StorePayment
  <2>3. p.je = r.je
    OBVIOUS
  <2> QED BY <2>2, <2>3
<1>3. ASSUME r.op = "wallet" PROVE \E t \in wtxns' : t.je = r.je
  <2> DEFINE t == [wal |-> r.row, kind |-> r.kind, before |-> r.before,
                   after |-> r.before + Delta(r.kind, r.amt), je |-> r.je]
  <2>1. StoreWalletTxn(r)
    BY <1>1, <1>3 DEF StoreDocuments
  <2>2. t \in wtxns'
    BY <2>1 DEF StoreWalletTxn
  <2>3. t.je = r.je
    OBVIOUS
  <2> QED BY <2>2, <2>3
<1> QED BY <1>2, <1>3

\* So the entries still match their documents.
LEMMA CommitMatches ==
    ASSUME NEW w \in Workers, Commit(w), tx[w].kept,
           payments \subseteq payments', wtxns \subseteq wtxns', JournalMatchesDocuments
    PROVE  JournalMatchesDocuments'
<1> DEFINE x == [no |-> tx[w].je, kind |-> tx[w].op, of |-> tx[w].of]
<1>1. journal' = journal \union {x} /\ x.no = tx[w].je /\ x.kind = tx[w].op
  BY DEF Commit
<1> QED BY <1>1, KeptDocuments DEF JournalMatchesDocuments

\* Once the year's sequence rows exist, no crash, retry or race separates an
\* entry from its document.
THEOREM AtomicWhenOpened == Spec => []AtomicOnceOpened
<1>1. Init => RowsAreOpen
  <2> SUFFICES ASSUME Init, opened
               PROVE  /\ \A p \in Prefixes : seq[p] > 0
                      /\ \A w \in Workers : tx[w].at # "insert" /\ tx[w].kept
                      /\ JournalMatchesDocuments
    BY DEF RowsAreOpen
  <2>1. seq["JE"] > 0
    BY DEF Init
  <2>2. PICK amt \in Amounts :
          /\ seq = [p \in Prefixes |-> 1]
          /\ payments = {OpeningPayment(amt)}
          /\ journal = {[no |-> 1, kind |-> "payment", of |-> 0]}
    BY <2>1 DEF Init, LedgerInit, Prefixes
  <2>3. JournalMatchesDocuments
    BY <2>2 DEF JournalMatchesDocuments, OpeningPayment
  <2> QED BY <2>2, <2>3 DEF Init, Idle
<1>2. LedgerInv /\ Discipline /\ RowsAreOpen /\ [Next]_vars => RowsAreOpen'
  <2> SUFFICES ASSUME LedgerInv, Discipline, RowsAreOpen, [Next]_vars, opened
               PROVE  /\ \A p \in Prefixes : seq'[p] > 0
                      /\ \A w \in Workers : tx'[w].at # "insert" /\ tx'[w].kept
                      /\ JournalMatchesDocuments'
    BY JournalMoves DEF RowsAreOpen
  <2>1. /\ \A p \in Prefixes : seq[p] \in Nat /\ seq'[p] \in Nat /\ seq'[p] >= seq[p]
        /\ payments \subseteq payments' /\ wtxns \subseteq wtxns'
    BY BooksGrow, NextStep DEF Discipline, TypeOK, LedgerTypeOK
  <2>2. \A p \in Prefixes : seq[p] > 0 /\ seq'[p] > 0
    BY <2>1 DEF RowsAreOpen
  <2>3. ASSUME NEW w \in Workers PROVE tx'[w].at # "insert" /\ tx'[w].kept
    <3>1. Moves(tx[w], tx'[w])
      BY RequestMoves
    <3>2. tx[w].pfx \in Prefixes
      BY DEF Discipline, TypeOK, Request
    <3>3. tx[w].at # "insert" /\ tx[w].kept
      BY DEF RowsAreOpen
    <3>4. seq[tx[w].pfx] # 0
      BY <2>1, <2>2, <3>2
    <3>5. CASE tx'[w] = tx[w]
      BY <3>3, <3>5
    <3>6. CASE tx'[w] = Idle
      BY <3>6 DEF Idle
    <3>7. CASE tx'[w] # tx[w] /\ tx'[w] # Idle
      <4>1. tx'[w].kept \/ tx'[w].kept = tx[w].kept
        BY <3>1, <3>3, <3>7 DEF Moves, Advances
      <4>2. tx'[w].at # "insert"
        BY <3>1, <3>4, <3>7 DEF Moves, Advances
      <4> QED BY <3>3, <4>1, <4>2
    <3> QED BY <3>5, <3>6, <3>7
  <2>4. JournalMatchesDocuments'
    <3>1. CASE journal' = journal
      BY <2>1, <3>1 DEF RowsAreOpen, JournalMatchesDocuments
    <3>2. ASSUME NEW w \in Workers, Commit(w) PROVE JournalMatchesDocuments'
      BY <2>1, <3>2, CommitMatches DEF RowsAreOpen
    <3> QED BY <3>1, <3>2, JournalMoves
  <2> QED BY <2>2, <2>3, <2>4
<1>3. RowsAreOpen => AtomicOnceOpened
  BY DEF RowsAreOpen, AtomicOnceOpened
<1> QED BY <1>1, <1>2, <1>3, InvariantHolds, PTL DEF Spec

-----------------------------------------------------------------------------
(* The sync outbox *)

LEMMA OutboxMoves ==
    Discipline /\ [Next]_vars =>
        outbox' = outbox \/ \E w \in Workers : EnqueueSync(w)
BY DEF Discipline, Next, Begin, BeginPayment, BeginWallet, BeginEntry, BeginReversal, Starts,
   Waiting, SelectNumber, InsertNumber, Increment, InsertLoses, PostToInvoice,
   RefusePayment, LockWallet, InsertWallet, HoldWallet, RefuseWallet, Crash, Abandon,
   Running, NumberIsMissing, WalletIsMissing, CheckPeriod, Commit, MarkReversed,
   LockPeriod, UnlockPeriod, vars

\* The outbox never announces what was rolled back.
THEOREM OutboxStaysCommitted == Spec => []OutboxIsCommitted
<1>1. Init => OutboxIsCommitted
  BY DEF Init, OutboxIsCommitted
<1>2. LedgerInv /\ Discipline /\ OutboxIsCommitted /\ [Next]_vars => OutboxIsCommitted'
  <2> SUFFICES ASSUME LedgerInv, Discipline, OutboxIsCommitted, [Next]_vars,
                      NEW o \in outbox'
               PROVE  IF o.table = "payments" THEN \E p \in payments' : p.no = o.no
                                              ELSE \E e \in journal' : e.no = o.no
    BY DEF OutboxIsCommitted
  <2>1. payments \subseteq payments' /\ journal \subseteq journal'
    BY BooksGrow, NextStep
  <2>2. CASE o \in outbox
    BY <2>1, <2>2 DEF OutboxIsCommitted
  <2>3. ASSUME NEW w \in Workers, EnqueueSync(w), o = OutboxRow(tx[w])
        PROVE  IF o.table = "payments" THEN \E p \in payments' : p.no = o.no
                                       ELSE \E e \in journal' : e.no = o.no
    <3>1. /\ \E e \in journal : e.no = tx[w].je
          /\ tx[w].op = "payment" => \E p \in payments : p.no = tx[w].pay
      BY <2>3 DEF EnqueueSync, Discipline, RequestOK, CommittedOK
    <3> QED BY <2>1, <2>3, <3>1 DEF OutboxRow
  <2>4. ASSUME NEW w \in Workers, EnqueueSync(w), o \notin outbox
        PROVE  o = OutboxRow(tx[w])
    BY <2>4 DEF EnqueueSync
  <2> QED BY <2>2, <2>3, <2>4, OutboxMoves
<1> QED BY <1>1, <1>2, InvariantHolds, PTL DEF Spec

-----------------------------------------------------------------------------
(* Documents and marks *)

\* No interleaving leaves a payment or a wallet transaction without an entry of
\* its own.
THEOREM DocumentsKeepEntries == Spec => []DocumentsHaveEntries
<1>1. LedgerInv => DocumentsHaveEntries
  BY DEF LedgerInv
<1> QED BY <1>1, InvariantHolds, PTL

\* No crash between the two commits of a reversal leaves a mark without its
\* reversing entry.
THEOREM MarksAreEarned == Spec => []MarksPointAtReversals
<1>1. LedgerInv => MarksPointAtReversals
  BY DEF LedgerInv
<1> QED BY <1>1, InvariantHolds, PTL

-----------------------------------------------------------------------------
(* Requests come to an end *)

\* The request waits for a row that another transaction holds.
Blocked(w) ==
    /\ IsWaiting(tx[w])
    /\ Awaits(tx[w]) \in Rows
    /\ ~Free(Awaits(tx[w]))

SomebodyCanGo == Busy # {} => \E w \in Busy : ~Blocked(w)

\* A blocked request waits for a busy one; if that one is blocked too, then for
\* a row that comes later in the order of locking.
LEMMA BlockedByLater ==
    ASSUME Discipline, NoCircularWait, NEW w \in Busy, \A v \in Busy : Blocked(v)
    PROVE  \E v \in Busy : Rank(Awaits(tx[w])) < Rank(Awaits(tx[v]))
<1> DEFINE row == Awaits(tx[w])
           v == holder[row]
<1>1. row \in Rows /\ v # Nobody
  BY DEF Blocked, Free
<1>2. v \in Workers
  BY <1>1 DEF Discipline, TypeOK
<1>3. row \in Holds(tx[v])
  BY <1>1, <1>2 DEF Discipline, LocksMatch
<1>4. tx[v].at # "idle"
  BY <1>3 DEF Holds, HoldsPaymentNumber, HasPosted, HasMoved, Entering
<1>5. v \in Busy
  BY <1>2, <1>4 DEF Busy
<1>6. Rank(row) < Rank(Awaits(tx[v]))
  BY <1>1, <1>2, <1>5 DEF NoCircularWait, Blocked
<1> QED BY <1>5, <1>6

\* As long as a request is running, one of them waits for nobody: the ranks of
\* the rows that requests wait for would rise for ever.
THEOREM NobodyStopsEverybody == Spec => []SomebodyCanGo
<1>1. Discipline /\ NoCircularWait => SomebodyCanGo
  <2> SUFFICES ASSUME Discipline, NoCircularWait, NEW w \in Busy,
                      \A v \in Busy : Blocked(v)
               PROVE  FALSE
    BY DEF SomebodyCanGo
  <2> DEFINE R(v) == Rank(Awaits(tx[v]))
  <2>1. \A v \in Busy : R(v) \in 1..3
    BY DEF Rank
  <2>2. \A u \in Busy : \E v \in Busy : R(u) < R(v)
    BY BlockedByLater
  <2> HIDE DEF R
  <2>3. PICK x \in Busy : R(w) < R(x)
    BY <2>2
  <2>4. PICK y \in Busy : R(x) < R(y)
    BY <2>2
  <2>5. PICK z \in Busy : R(y) < R(z)
    BY <2>2
  <2> QED BY <2>1, <2>3, <2>4, <2>5
<1>2. Spec => []NoCircularWait
  BY NoDeadlock
<1> QED BY <1>1, <1>2, InvariantHolds, PTL

\* The steps a request may still take before it ends, or more.
DrawFuel(r) == 2 * (MaxTries - r.tries) + (IF r.at = "select" THEN 1 ELSE 0)
Fuel(r) ==
    IF r.at \in Drawing THEN (IF r.pfx = "PAY" THEN 13 ELSE 4) + DrawFuel(r)
    ELSE IF r.at = "wallet" THEN 14
    ELSE IF r.at = "walletInsert" THEN 13
    ELSE IF r.at \in {"invoice", "period"} THEN 12
    ELSE IF r.at = "commit" THEN 3
    ELSE IF r.at = "outbox" THEN 2
    ELSE IF r.at = "mark" THEN 1
    ELSE 0

LEMMA FuelBounds ==
    ASSUME NEW r \in Request
    PROVE  /\ Fuel(r) \in 0..20
           /\ Fuel(r) = 0 <=> r.at = "idle"
<1>1. /\ r.tries \in 0..3 /\ r.pfx \in Prefixes /\ r.at \in Stages
  BY DEF Request, MaxTries
<1>2. DrawFuel(r) \in 0..7
  BY <1>1 DEF DrawFuel, MaxTries
<1> QED BY <1>1, <1>2 DEF Fuel, Stages, Drawing

LEMMA AdvancingBurns ==
    ASSUME NEW r \in Request, NEW q \in Request, Advances(r, q)
    PROVE  Fuel(q) < Fuel(r)
<1>1. /\ r.tries \in 0..3 /\ r.pfx \in Prefixes
      /\ q.tries \in 0..3 /\ q.pfx \in Prefixes
  BY DEF Request, MaxTries
<1> QED BY <1>1 DEF Advances, Fuel, DrawFuel, Drawing, MaxTries, Prefixes

\* Every step a request takes brings it nearer to its end, through all the
\* retries and rollbacks of next_sequence_number: it takes 20 steps at most.
THEOREM RequestsAreShort ==
    Spec => /\ [](\A w \in Workers : Fuel(tx[w]) \in 0..20)
            /\ [][\A w \in Workers :
                     tx[w].at # "idle" /\ tx'[w] # tx[w] => Fuel(tx'[w]) < Fuel(tx[w])]_vars
<1>1. Discipline => \A w \in Workers : Fuel(tx[w]) \in 0..20
  BY FuelBounds DEF Discipline, TypeOK
<1>2. Discipline /\ Discipline' /\ [Next]_vars =>
        \A w \in Workers :
            tx[w].at # "idle" /\ tx'[w] # tx[w] => Fuel(tx'[w]) < Fuel(tx[w])
  <2> SUFFICES ASSUME Discipline, Discipline', [Next]_vars, NEW w \in Workers,
                      tx[w].at # "idle", tx'[w] # tx[w]
               PROVE  Fuel(tx'[w]) < Fuel(tx[w])
    OBVIOUS
  <2>1. tx[w] \in Request /\ tx'[w] \in Request /\ Moves(tx[w], tx'[w])
    BY RequestMoves DEF Discipline, TypeOK
  <2>2. CASE tx'[w] = Idle
    <3>1. Fuel(tx'[w]) = 0
      BY <2>2 DEF Fuel, Idle, Drawing
    <3>2. Fuel(tx[w]) \in 0..20 /\ Fuel(tx[w]) # 0
      BY <2>1, FuelBounds
    <3> QED BY <3>1, <3>2
  <2>3. CASE Advances(tx[w], tx'[w])
    BY <2>1, <2>3, AdvancingBurns
  <2> QED BY <2>1, <2>2, <2>3 DEF Moves
<1> QED BY <1>1, <1>2, InvariantHolds, PTL DEF Spec

-----------------------------------------------------------------------------
(* One request moves at a time *)

LEMMA OneContinues ==
    Discipline /\ [Next]_vars => tx' = tx \/ \E w \in Workers : \E q : Continue(w, q)
BY DEF Next, Begin, BeginPayment, BeginWallet, BeginEntry, BeginReversal, Starts,
   Waiting, SelectNumber, InsertNumber, Increment, InsertLoses, PostToInvoice,
   RefusePayment, LockWallet, InsertWallet, HoldWallet, RefuseWallet, Crash, Abandon,
   Running, NumberIsMissing, WalletIsMissing, CheckPeriod, Commit, EnqueueSync,
   MarkReversed, LockPeriod, UnlockPeriod, vars

LEMMA OneMover ==
    ASSUME Discipline, [Next]_vars, NEW v \in Workers, NEW w \in Workers,
           tx'[v] # tx[v], tx'[w] # tx[w]
    PROVE  v = w
<1>1. PICK u \in Workers : \E q : Continue(u, q)
  BY OneContinues
<1>2. \A x \in Workers : x # u => tx'[x] = tx[x]
  BY <1>1 DEF Continue, Discipline, TypeOK
<1> QED BY <1>2

-----------------------------------------------------------------------------
(* Reversals *)

Marked(of) == \E m \in reversed : m.of = of
Reversing(w, of) == tx[w].op = "reversal" /\ tx[w].of = of
Posted(w) == tx[w].at \in {"outbox", "mark"}

\* Nobody begins to reverse an entry that another request is reversing.
OneReversalAtATime ==
    \A v, w \in Workers, of \in Nat : Reversing(v, of) /\ Reversing(w, of) => v = w

\* No request ends between the commit of its reversing entry and its mark.
MarksBeforeItEnds(w) ==
    tx[w].op = "reversal" /\ Posted(w) /\ tx'[w].at = "idle"
        => \E m \in reversed' : m.of = tx[w].of

\* An entry that has been reversed is marked, or is about to be; one that is
\* about to be reversed has not been.
ReversalsInOrder ==
    /\ ReversedAtMostOnce
    /\ \A e \in journal : e.kind = "reversal" =>
          Marked(e.of) \/ \E w \in Workers : Reversing(w, e.of) /\ Posted(w)
    /\ \A w \in Workers : tx[w].op = "reversal" /\ ~Posted(w) =>
          \A e \in journal : e.kind = "reversal" => e.of # tx[w].of

\* A mark may be replaced but never goes.
LEMMA MarksStay ==
    ASSUME [LedgerNext]_ledgerVars, NEW of, Marked(of)
    PROVE  Marked(of)'
<1>1. CASE reversed' = reversed
  BY <1>1 DEF Marked
<1>2. ASSUME NEW x \in 1..seq["JE"], NEW y \in 1..seq["JE"], MarkEntry(x, y)
      PROVE  Marked(of)'
  <2>1. reversed' = {m \in reversed : m.of # x} \union {[of |-> x, by |-> y]}
    BY <1>2 DEF MarkEntry
  <2>2. [of |-> x, by |-> y].of = x
    OBVIOUS
  <2> QED BY <2>1, <2>2 DEF Marked
<1> QED BY <1>1, <1>2 DEF LedgerNext, Pay, MoveWallet, PostEntry, ledgerVars

LEMMA ReversalCommits ==
    ASSUME Discipline, ReversalsInOrder, OneReversalAtATime,
           NEW w \in Workers, Commit(w)
    PROVE  ReversalsInOrder'
<1> DEFINE r == tx[w]
           q == tx'[w]
           x == [no |-> r.je, kind |-> r.op, of |-> r.of]
<1>1. /\ journal' = journal \union {x} /\ reversed' = reversed /\ r.at = "commit"
      /\ x.kind = r.op /\ x.of = r.of
  BY DEF Commit
<1>2. \A v \in Workers : v # w => tx'[v] = tx[v]
  BY DEF Commit, Continue, Discipline, TypeOK
<1>3. r \in Request /\ RequestOK(r) /\ q = AfterCommit(r)
  BY RequestFacts DEF Commit, Continue, Discipline, TypeOK
<1>4. r.op = "reversal" => q.op = "reversal" /\ q.of = r.of /\ q.at = "outbox"
  <2>1. r.op = "reversal" => q = [r EXCEPT !.at = "outbox"]
    BY <1>3 DEF AfterCommit, RequestOK, OperandsOK
  <2> QED BY <1>3, <2>1 DEF Request
<1>5. r.op # "reversal" => q.op # "reversal"
  BY <1>3 DEF AfterCommit, Idle, Request
<1>6. r.of \in Nat
  BY <1>3 DEF Request
<1>7. r.op = "reversal" => \A e \in journal : e.kind = "reversal" => e.of # r.of
  BY <1>1 DEF ReversalsInOrder, Posted
<1> HIDE DEF x, q, r
<1>8. ReversedAtMostOnce'
  BY <1>1, <1>7 DEF ReversalsInOrder, ReversedAtMostOnce
<1>9. ASSUME NEW e \in journal', e.kind = "reversal"
      PROVE  Marked(e.of)' \/ \E v \in Workers : (Reversing(v, e.of) /\ Posted(v))'
  <2>1. CASE e = x
    BY <1>1, <1>4, <1>9, <2>1 DEF Reversing, Posted, q
  <2>2. CASE e \in journal
    <3>1. CASE Marked(e.of)
      BY <1>1, <3>1 DEF Marked
    <3>2. ASSUME NEW v \in Workers, Reversing(v, e.of), Posted(v)
          PROVE  (Reversing(v, e.of) /\ Posted(v))'
      <4>1. v # w
        BY <1>1, <3>2 DEF Posted, r
      <4> QED BY <1>2, <3>2, <4>1 DEF Reversing, Posted
    <3> QED BY <1>9, <2>2, <3>1, <3>2 DEF ReversalsInOrder
  <2> QED BY <1>1, <2>1, <2>2
<1>10. ASSUME NEW v \in Workers, tx'[v].op = "reversal", ~Posted(v)',
              NEW e \in journal', e.kind = "reversal"
       PROVE  e.of # tx'[v].of
  <2>1. v # w
    BY <1>4, <1>5, <1>10 DEF Posted, q
  <2>2. tx'[v] = tx[v]
    BY <1>2, <2>1
  <2>3. CASE e \in journal
    BY <1>10, <2>2, <2>3 DEF ReversalsInOrder, Posted
  <2>4. CASE e = x
    BY <1>1, <1>6, <1>10, <2>1, <2>2, <2>4 DEF OneReversalAtATime, Reversing, r
  <2> QED BY <1>1, <2>3, <2>4
<1> QED BY <1>8, <1>9, <1>10 DEF ReversalsInOrder

LEMMA ReversalStep ==
    ASSUME LedgerInv, Discipline, ReversalsInOrder, OneReversalAtATime, OneReversalAtATime',
           [Next]_vars, \A w \in Workers : MarksBeforeItEnds(w)
    PROVE  ReversalsInOrder'
<1>1. CASE journal' = journal
  <2>1. ReversedAtMostOnce'
    BY <1>1 DEF ReversalsInOrder, ReversedAtMostOnce
  <2>2. ASSUME NEW e \in journal, e.kind = "reversal"
        PROVE  Marked(e.of)' \/ \E v \in Workers : (Reversing(v, e.of) /\ Posted(v))'
    <3>1. CASE Marked(e.of)
      BY <3>1, MarksStay, NextStep
    <3>2. ASSUME NEW w \in Workers, Reversing(w, e.of), Posted(w)
          PROVE  Marked(e.of)' \/ (Reversing(w, e.of) /\ Posted(w))'
      <4>1. Moves(tx[w], tx'[w])
        BY RequestMoves
      <4>2. CASE tx'[w] = Idle
        <5>1. tx'[w].at = "idle"
          BY <4>2 DEF Idle
        <5> QED BY <3>2, <5>1 DEF MarksBeforeItEnds, Reversing, Marked
      <4>3. CASE tx'[w] # Idle
        BY <3>2, <4>1, <4>3 DEF Moves, Advances, Reversing, Posted, Drawing
      <4> QED BY <4>2, <4>3
    <3> QED BY <2>2, <3>1, <3>2 DEF ReversalsInOrder
  <2>3. ASSUME NEW w \in Workers, tx'[w].op = "reversal", ~Posted(w)',
               NEW e \in journal, e.kind = "reversal"
        PROVE  e.of # tx'[w].of
    <3> DEFINE r == tx[w]
               q == tx'[w]
    <3>1. Moves(r, q) /\ q # Idle
      BY <2>3, RequestMoves DEF Idle
    <3>2. CASE q = r
      BY <2>3, <3>2 DEF ReversalsInOrder, Posted
    <3>3. CASE r.at = "idle" /\ \E f \in journal : q.of = f.no /\ ~IsReversed(f)
      <4>1. ~Marked(q.of)
        BY <3>3 DEF Marked, IsReversed
      <4>2. ASSUME NEW v \in Workers, Reversing(v, q.of), Posted(v) PROVE FALSE
        <5>1. v # w
          BY <3>3, <4>2 DEF Posted
        <5>2. q # r
          <6>1. r \in Request /\ RequestOK(r)
            BY RequestFacts
          <6> QED BY <2>3, <3>3, <6>1 DEF RequestOK, StageOK
        <5>3. tx'[v] = tx[v]
          BY <5>1, <5>2, OneMover
        <5>4. /\ tx'[v].op = "reversal" /\ tx'[w].op = "reversal"
              /\ tx'[v].of = q.of /\ q.of \in Nat
          BY <2>3, <4>2, <5>3, NextStep DEF Reversing, Discipline, TypeOK, Request
        <5> QED BY <5>1, <5>4 DEF OneReversalAtATime, Reversing
      <4> QED BY <2>3, <4>1, <4>2 DEF ReversalsInOrder
    <3>4. CASE Advances(r, q) /\ q.op = r.op /\ q.of = r.of
      <4>1. ~Posted(w)
        BY <2>3, <3>4 DEF Advances, Posted, Drawing
      <4> QED BY <2>3, <3>4, <4>1 DEF ReversalsInOrder
    <3> QED BY <2>3, <3>1, <3>2, <3>3, <3>4 DEF Moves
  <2> QED BY <1>1, <2>1, <2>2, <2>3 DEF ReversalsInOrder
<1>2. ASSUME NEW w \in Workers, Commit(w) PROVE ReversalsInOrder'
  BY <1>2, ReversalCommits
<1> QED BY <1>1, <1>2, JournalMoves

\* An entry is reversed twice only if two requests reverse it at once, or one of
\* them ends between its commit and its mark: nothing else in the interleaving
\* of reverse_journal_entry can do it.
THEOREM TwiceOnlyThatWay ==
    Spec /\ []OneReversalAtATime /\ [][\A w \in Workers : MarksBeforeItEnds(w)]_vars
        => []ReversedAtMostOnce
<1>1. Init => ReversalsInOrder
  <2> SUFFICES ASSUME Init PROVE ReversalsInOrder
    OBVIOUS
  <2>1. \A e \in journal : e.kind # "reversal"
    BY DEF Init, LedgerInit
  <2> QED BY <2>1 DEF Init, Idle, ReversalsInOrder, ReversedAtMostOnce
<1>2. LedgerInv /\ Discipline /\ ReversalsInOrder /\ OneReversalAtATime /\ OneReversalAtATime'
      /\ [Next]_vars /\ [\A w \in Workers : MarksBeforeItEnds(w)]_vars
        => ReversalsInOrder'
  <2> SUFFICES ASSUME LedgerInv, Discipline, ReversalsInOrder, OneReversalAtATime,
                      OneReversalAtATime', [Next]_vars,
                      [\A w \in Workers : MarksBeforeItEnds(w)]_vars
               PROVE  ReversalsInOrder'
    OBVIOUS
  <2>1. CASE UNCHANGED vars
    BY <2>1 DEF vars, ledgerVars, ReversalsInOrder, ReversedAtMostOnce, Marked, Reversing, Posted
  <2>2. CASE \A w \in Workers : MarksBeforeItEnds(w)
    BY <2>2, ReversalStep
  <2> QED BY <2>1, <2>2
<1>3. ReversalsInOrder => ReversedAtMostOnce
  BY DEF ReversalsInOrder
<1> QED BY <1>1, <1>2, <1>3, InvariantHolds, PTL DEF Spec

-----------------------------------------------------------------------------
(* How much a rollback can lose *)

\* Entries whose payment or wallet transaction was rolled back under them.
Orphans ==
    {e \in journal :
        \/ e.kind = "payment" /\ ~\E p \in payments : p.je = e.no
        \/ e.kind = "wallet" /\ ~\E t \in wtxns : t.je = e.no}

\* Requests that lost their documents, or lose them if they lose the insert.
Doomed == {w \in Workers : ~tx[w].kept \/ (tx[w].at = "insert" /\ tx[w].pfx = "JE")}

\* Before the first entry nobody has lost anything; after it nobody can become
\* doomed who was not, and every orphan costs a doomed request.
OrphansWereDoomed ==
    /\ seq["JE"] = 0 => journal = {} /\ \A w \in Workers : tx[w].kept
    /\ seq["JE"] > 0 /\ Workers # {} =>
          /\ IsFiniteSet(Orphans)
          /\ Cardinality(Orphans) + Cardinality(Doomed) < Cardinality(Workers)

FewOrphans == Workers # {} => Cardinality(Orphans) < Cardinality(Workers)

LEMMA DoomedIsFinite ==
    /\ IsFiniteSet(Doomed) /\ Cardinality(Doomed) \in Nat
    /\ Cardinality(Workers) \in Nat
    /\ Cardinality(Doomed) <= Cardinality(Workers)
BY WorkersAreFinite, FS_Subset, FS_CardinalityType DEF Doomed

\* Only a commit issues a number.
LEMMA SeqMoves ==
    Discipline /\ [Next]_vars =>
        (seq' = seq /\ journal' = journal) \/ \E w \in Workers : Commit(w)
BY DEF Next, Begin, BeginPayment, BeginWallet, BeginEntry, BeginReversal, Starts,
   Waiting, SelectNumber, InsertNumber, Increment, InsertLoses, PostToInvoice,
   RefusePayment, LockWallet, InsertWallet, HoldWallet, RefuseWallet, Crash, Abandon,
   Running, NumberIsMissing, WalletIsMissing, CheckPeriod, EnqueueSync, MarkReversed,
   LockPeriod, UnlockPeriod, vars, ledgerVars

\* The worker that commits starts afresh.
LEMMA CommitterIsSafe ==
    ASSUME Discipline, [Next]_vars, NEW w \in Workers, Commit(w)
    PROVE  w \notin Doomed'
<1>1. tx[w] \in Request /\ tx'[w] = AfterCommit(tx[w])
  BY DEF Commit, Continue, Discipline, TypeOK
<1>2. tx'[w].kept /\ tx'[w].at # "insert"
  <2>1. CASE tx[w].op = "wallet" \/ ~tx[w].kept
    BY <1>1, <2>1 DEF AfterCommit, Idle
  <2>2. CASE ~(tx[w].op = "wallet" \/ ~tx[w].kept)
    BY <1>1, <2>2 DEF AfterCommit, Request
  <2> QED BY <2>1, <2>2
<1> QED BY <1>2 DEF Doomed

\* With the JE row in place the doomed become fewer.
LEMMA DoomedShrinks ==
    ASSUME Discipline, [Next]_vars, seq["JE"] > 0
    PROVE  Doomed' \subseteq Doomed
<1> SUFFICES ASSUME NEW w \in Workers, w \notin Doomed
             PROVE  tx'[w].kept /\ ~(tx'[w].at = "insert" /\ tx'[w].pfx = "JE")
  BY DEF Doomed
<1> DEFINE r == tx[w]
           q == tx'[w]
<1>1. r.kept /\ ~(r.at = "insert" /\ r.pfx = "JE")
  BY DEF Doomed
<1>2. Moves(r, q) /\ r \in Request /\ seq["JE"] \in Nat /\ r.pfx \in {"JE", "PAY"}
  BY RequestMoves DEF Discipline, TypeOK, LedgerTypeOK, Request, Prefixes
<1>3. CASE q = r
  BY <1>1, <1>3
<1>4. CASE q = Idle
  BY <1>4 DEF Idle
<1>5. CASE Advances(r, q)
  <2>1. q.at = "insert" => q.pfx # "JE"
    BY <1>2, <1>5 DEF Advances
  <2>2. q.kept = r.kept
    BY <1>1, <1>2, <1>5 DEF Advances
  <2> QED BY <1>1, <2>1, <2>2
<1>6. CASE r.at = "idle" /\ q.at \in {"wallet", "select"} /\ q.kept
  BY <1>6
<1> QED BY <1>2, <1>3, <1>4, <1>5, <1>6 DEF Moves

\* Before the first entry every request keeps its documents.
LEMMA AllKept ==
    ASSUME Discipline, [Next]_vars, seq["JE"] = 0, \A w \in Workers : tx[w].kept
    PROVE  \A w \in Workers : tx'[w].kept
<1> SUFFICES ASSUME NEW w \in Workers PROVE tx'[w].kept
  OBVIOUS
<1>1. /\ Moves(tx[w], tx'[w]) /\ tx[w].kept
      /\ tx[w].pfx \in {"JE", "PAY"}
  BY RequestMoves DEF Discipline, TypeOK, Request, Prefixes
<1>2. CASE Advances(tx[w], tx'[w])
  <2>1. ~(seq[tx[w].pfx] > 0 /\ tx[w].pfx = "JE")
    OBVIOUS
  <2>2. tx'[w].kept = tx[w].kept
    BY <1>1, <1>2, <2>1 DEF Advances
  <2> QED BY <1>1, <2>2
<1>3. CASE tx'[w] = Idle
  BY <1>3 DEF Idle
<1> QED BY <1>1, <1>2, <1>3 DEF Moves

\* A commit makes an orphan only of the entry of a request without documents.
LEMMA OrphansGrow ==
    ASSUME LedgerInv, Discipline, [Next]_vars
    PROVE  \/ Orphans' \subseteq Orphans
           \/ \E w \in Workers : \E x :
                 Commit(w) /\ ~tx[w].kept /\ Orphans' \subseteq Orphans \union {x}
<1>1. payments \subseteq payments' /\ wtxns \subseteq wtxns'
  BY BooksGrow, NextStep
<1>2. CASE journal' = journal
  BY <1>1, <1>2 DEF Orphans
<1>3. ASSUME NEW w \in Workers, Commit(w)
      PROVE  \/ Orphans' \subseteq Orphans
             \/ \E x : ~tx[w].kept /\ Orphans' \subseteq Orphans \union {x}
  <2> DEFINE x == [no |-> tx[w].je, kind |-> tx[w].op, of |-> tx[w].of]
  <2>1. journal' = journal \union {x} /\ x.no = tx[w].je /\ x.kind = tx[w].op
    BY <1>3 DEF Commit
  <2> HIDE DEF x
  <2>2. Orphans' \subseteq Orphans \union {x}
    BY <1>1, <2>1 DEF Orphans
  <2>3. tx[w].kept => x \notin Orphans'
    BY <1>3, <2>1, KeptDocuments DEF Orphans
  <2> QED BY <2>2, <2>3
<1> QED BY <1>2, <1>3, SeqMoves

LEMMA OrphansStep ==
    ASSUME LedgerInv, Discipline, OrphansWereDoomed, [Next]_vars
    PROVE  OrphansWereDoomed'
<1>1. seq["JE"] \in Nat /\ seq'["JE"] \in Nat /\ seq'["JE"] >= seq["JE"]
  BY BooksGrow, NextStep DEF Discipline, TypeOK, LedgerTypeOK, Prefixes
<1>2. ASSUME seq'["JE"] = 0
      PROVE  journal' = {} /\ \A w \in Workers : tx'[w].kept
  <2>1. seq["JE"] = 0 /\ journal = {} /\ \A w \in Workers : tx[w].kept
    BY <1>1, <1>2 DEF OrphansWereDoomed
  <2>2. \A w \in Workers : ~Commit(w)
    BY <1>1, <1>2, CommitFacts
  <2> QED BY <2>1, <2>2, AllKept, SeqMoves
<1>3. ASSUME seq["JE"] = 0, seq'["JE"] > 0, Workers # {}
      PROVE  /\ IsFiniteSet(Orphans')
             /\ Cardinality(Orphans') + Cardinality(Doomed') < Cardinality(Workers)
  <2>1. journal = {} /\ \A w \in Workers : tx[w].kept
    BY <1>3 DEF OrphansWereDoomed
  <2>2. PICK w \in Workers : Commit(w)
    BY <1>3, SeqMoves
  <2>3. Orphans = {}
    BY <2>1 DEF Orphans
  <2>4. Orphans' = {}
    BY <2>1, <2>3, OrphansGrow
  <2>5. Doomed' \subseteq Workers \ {w}
    BY <2>2, CommitterIsSafe DEF Doomed
  <2>6. IsFiniteSet(Workers \ {w}) /\ Cardinality(Workers \ {w}) = Cardinality(Workers) - 1
    BY WorkersAreFinite, FS_RemoveElement
  <2>7. Cardinality(Doomed') <= Cardinality(Workers \ {w}) /\ Cardinality(Doomed') \in Nat
    BY <2>5, <2>6, FS_Subset, FS_CardinalityType
  <2>8. IsFiniteSet(Orphans') /\ Cardinality(Orphans') = 0
    BY <2>4, FS_EmptySet
  <2> QED BY <2>6, <2>7, <2>8, DoomedIsFinite
<1>4. ASSUME seq["JE"] > 0, Workers # {}
      PROVE  /\ IsFiniteSet(Orphans')
             /\ Cardinality(Orphans') + Cardinality(Doomed') < Cardinality(Workers)
  <2>1. /\ IsFiniteSet(Orphans)
        /\ Cardinality(Orphans) + Cardinality(Doomed) < Cardinality(Workers)
    BY <1>4 DEF OrphansWereDoomed
  <2>2. Doomed' \subseteq Doomed
    BY <1>4, DoomedShrinks
  <2>3. Cardinality(Orphans) \in Nat
    BY <2>1, FS_CardinalityType
  <2>4. CASE Orphans' \subseteq Orphans
    <3>1. /\ IsFiniteSet(Orphans') /\ Cardinality(Orphans') <= Cardinality(Orphans)
          /\ Cardinality(Orphans') \in Nat
      BY <2>1, <2>4, FS_Subset, FS_CardinalityType
    <3>2. Cardinality(Doomed') <= Cardinality(Doomed) /\ Cardinality(Doomed') \in Nat
      BY <2>2, DoomedIsFinite, FS_Subset, FS_CardinalityType
    <3> QED BY <2>1, <2>3, <3>1, <3>2, DoomedIsFinite
  <2>5. ASSUME NEW w \in Workers, NEW x,
               Commit(w), ~tx[w].kept, Orphans' \subseteq Orphans \union {x}
        PROVE  /\ IsFiniteSet(Orphans')
               /\ Cardinality(Orphans') + Cardinality(Doomed') < Cardinality(Workers)
    <3>1. /\ IsFiniteSet(Orphans \union {x})
          /\ Cardinality(Orphans \union {x}) <= Cardinality(Orphans) + 1
          /\ Cardinality(Orphans \union {x}) \in Nat
      <4>1. x \in Orphans => Orphans \union {x} = Orphans
        OBVIOUS
      <4>2. /\ IsFiniteSet(Orphans \union {x})
            /\ Cardinality(Orphans \union {x})
                  = IF x \in Orphans THEN Cardinality(Orphans) ELSE Cardinality(Orphans) + 1
        BY <2>1, <4>1, FS_AddElement
      <4> QED BY <2>3, <4>2
    <3>2. /\ IsFiniteSet(Orphans') /\ Cardinality(Orphans') <= Cardinality(Orphans \union {x})
          /\ Cardinality(Orphans') \in Nat
      BY <2>5, <3>1, FS_Subset, FS_CardinalityType
    <3>3. w \in Doomed /\ Doomed' \subseteq Doomed \ {w}
      BY <2>2, <2>5, CommitterIsSafe DEF Doomed
    <3>4. IsFiniteSet(Doomed \ {w}) /\ Cardinality(Doomed \ {w}) = Cardinality(Doomed) - 1
      BY <3>3, DoomedIsFinite, FS_RemoveElement
    <3>5. Cardinality(Doomed') <= Cardinality(Doomed \ {w}) /\ Cardinality(Doomed') \in Nat
      BY <3>3, <3>4, FS_Subset, FS_CardinalityType
    <3> QED BY <2>1, <2>3, <3>1, <3>2, <3>4, <3>5, DoomedIsFinite
  <2> QED BY <2>4, <2>5, OrphansGrow
<1> QED BY <1>1, <1>2, <1>3, <1>4 DEF OrphansWereDoomed

\* However many requests race for the year's first numbers, the entries left
\* without their document are fewer than the requests that run at once: the loss
\* is bounded, and over once the rows are there.
THEOREM OrphansAreFew == Spec => []FewOrphans
<1>1. Init => OrphansWereDoomed
  <2> SUFFICES ASSUME Init PROVE OrphansWereDoomed
    OBVIOUS
  <2>1. CASE seq = [p \in Prefixes |-> 0] /\ journal = {}
    BY <2>1 DEF Init, Idle, OrphansWereDoomed, Prefixes
  <2>2. ASSUME NEW amt \in Amounts, seq = [p \in Prefixes |-> 1],
               payments = {OpeningPayment(amt)},
               journal = {[no |-> 1, kind |-> "payment", of |-> 0]},
               Workers # {}
        PROVE  OrphansWereDoomed
    <3>1. Orphans = {}
      BY <2>2 DEF Orphans, OpeningPayment
    <3>2. Doomed = {}
      BY DEF Doomed, Init, Idle
    <3>3. Cardinality(Workers) \in Nat /\ Cardinality(Workers) # 0
      BY <2>2, WorkersAreFinite, FS_CardinalityType, FS_EmptySet
    <3>4. seq["JE"] = 1
      BY <2>2 DEF Prefixes
    <3> QED BY <3>1, <3>2, <3>3, <3>4, FS_EmptySet DEF OrphansWereDoomed
  <2>3. CASE Workers = {}
    BY <2>3 DEF Init, LedgerInit, OrphansWereDoomed, Prefixes
  <2> QED BY <2>1, <2>2, <2>3 DEF Init, LedgerInit
<1>2. LedgerInv /\ Discipline /\ OrphansWereDoomed => FewOrphans
  <2> SUFFICES ASSUME LedgerInv, Discipline, OrphansWereDoomed, Workers # {}
               PROVE  Cardinality(Orphans) < Cardinality(Workers)
    BY DEF FewOrphans
  <2>1. seq["JE"] \in Nat
    BY DEF LedgerInv, LedgerTypeOK, Prefixes
  <2>2. CASE seq["JE"] = 0
    <3>1. Orphans = {}
      BY <2>2 DEF OrphansWereDoomed, Orphans
    <3>2. Cardinality(Workers) \in Nat /\ Cardinality(Workers) # 0
      BY WorkersAreFinite, FS_CardinalityType, FS_EmptySet
    <3> QED BY <3>1, <3>2, FS_EmptySet
  <2>3. CASE seq["JE"] > 0
    <3>1. /\ IsFiniteSet(Orphans)
          /\ Cardinality(Orphans) + Cardinality(Doomed) < Cardinality(Workers)
      BY <2>3 DEF OrphansWereDoomed
    <3>2. Cardinality(Orphans) \in Nat
      BY <3>1, FS_CardinalityType
    <3> QED BY <3>1, <3>2, DoomedIsFinite
  <2> QED BY <2>1, <2>2, <2>3
<1>3. LedgerInv /\ Discipline /\ OrphansWereDoomed /\ [Next]_vars => OrphansWereDoomed'
  BY OrphansStep
<1> QED BY <1>1, <1>2, <1>3, InvariantHolds, PTL DEF Spec
=============================================================================
