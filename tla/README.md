# Zenova School ERP: TLA+ models, checks and proofs

This directory specifies the parts of the system in which money moves, messages
travel and requests race: the finance ledger, the parents' online payments, the
platform's billing of the schools, the synchronisation between servers, the
attendance a teacher takes on a phone, and the circuit breaker that guards
calls to external services. Specifications are written from the code in
`src/backend/app` and `src/mobile-app`; TLC checks them on small instances and TLAPS
proves the main results for every instance.

Paths below are relative to `src/backend/app` unless they start with `src/`.

## 1. The system

One school runs a FastAPI server (several processes and threads over one
PostgreSQL database), a web frontend and a mobile app. Schools report to a VPS
(sync), a licence server and a control centre. Background loops run in the
server processes: the sync worker, the licence heartbeat and a scheduler.

Every request gets a database session of its own (`database.py`, `get_db`):
autocommit and autoflush are off, the isolation level is PostgreSQL's default
READ COMMITTED, and closing the session rolls back. Services commit in the
middle of their work (`log_audit` and `enqueue_sync` add and commit too), so one
request may be several transactions. That, and reads without `FOR UPDATE`, is
where the interesting behaviour is.

| Component | State | Operations | Hard behaviour | Correct means |
|---|---|---|---|---|
| Finance ledger (`services/finance_service.py`) | invoices, payments, wallets, journal, periods | `record_payment`, `wallet_transaction`, `create_journal_entry`, `reverse_journal_entry`, `lock_period`, `unlock_period`, plus configuration records | concurrent requests on one invoice or wallet; a period locked under a running request; two commits in a reversal | no over-payment, no lost update, one charge per idempotency key, statements that chain, documents and entries that belong together |
| Document numbers (`utils/sequence.py`) | one row per prefix, school, year | `next_sequence_number` | first insert raced by two transactions; `rollback()` of the caller's work; three attempts | unique, gapless numbers |
| Online payments (`services/parent_payment_service.py`, `api/v1/endpoints/parent_payments.py`) | payment sessions, receipts, refunds | create session, initialise checkout, webhook, request/approve/process refund | the webhook against the checkout's own commit, redelivery, stale reads before a lock, a lock lost to the rollback of a first number, two processors of one refund | one payment per charge under the session's lock, a receipt per payment, each refund applied once |
| Gateway adapters (`core/payment_gateway.py`, `services/chapa_service.py`) | none of their own | initialise, verify | lost answers | (environment) |
| Webhook retry queue (`services/webhook_retry.py`) | a queue in Redis | enqueue, process | nothing calls it | |
| Circuit breaker (`utils/circuit_breaker.py`) | state, counters, time of last failure | `call`, `call_async`, `reset` | results that arrive in another state than the one that admitted the call; cancelled tasks | opens only when earned, bounded trials, never stuck |
| Sync (`services/sync_service.py`, `api/v1/endpoints/sync.py`, `workers/sync_worker.py`) | `sync_queue` outbox; `sync_inbound` at the peer | `enqueue_sync`, `process_queue`, retry, purge; `receive_sync`, `apply_sync_payload` | several runs over one queue without a lock; a batch committed after all its calls; requests that outlive their sender; a server that is not configured | what leaves the outbox is known to the peer; duplicates are bounded; a row is decided |
| Attendance (`src/mobile-app/src/services/queue.ts`, `api/v1/endpoints/attendance.py`, `scanner.py`) | the queue on the phone; `attendance`, `attendance_batches` | save, enqueue, drain; bulk marking with an idempotency key, correction, scan | replays of requests still being handled; death of the app; a key stored after everything else; several writers of the stored queue, and a read of it that fails | an operation is answered with success only when its marks and notices are made; the queue keeps what no other call overwrites |
| Platform commission (`services/platform_commission_service.py`, `core/scheduler.py`) | transactions, fees, monthly invoices | record a fee, daily job, monthly job, mark paid | every process runs every job; look-then-insert without a lock; fees that arrive after the invoice | nothing charged or billed twice; a fee paid with its invoice |
| Licensing (`services/license_service.py`, heartbeat, grace period; `src/license-server`) | keys, activations, heartbeats | activate, validate, revoke | look-then-write activation | one key, one school |
| Authentication (`services/auth_service.py`, `core/rate_limit.py`, recovery codes) | tokens, blacklist, history, counters | login, refresh, recover | once-only tokens, counters in Redis | a token is used once |
| Stock (library, inventory, cafeteria) | quantities | borrow, return, move, order | unlocked counters | quantities match movements |
| Records (students, academics, staff), cards and scans, notifications, backup, analytics, scheduler, frontend, control centre, native licence core | | CRUD and I/O | little | |

How they interact: the ledger and online payments share invoices, accounts and
number sequences through the database. The cash desk creates the two fee
accounts that decide whether a webhook can be recorded. Posting operations write
the sync outbox, the workers of all processes send it to the VPS through a circuit breaker, and the
gateway, licence and notification clients each have a breaker of the same class. A webhook that records a
payment records its platform fee in the same transaction; the daily job charges the payments made otherwise.
The phone and the card scanner mark attendance in one table, whose unique constraint decides between them.

`PROJECT.json` lists every component with its status, and under `hazards` the
lines where this code is hard to test and the properties aimed at each.

## 2. Modules

| Module | Models | Role |
|---|---|---|
| `SchoolLedger` | what the ledger promises, each request one indivisible step | abstract specification |
| `FinanceLedger` | the same operations as concurrent transactions | detailed specification, implements `SchoolLedger` |
| `ParentPayments` | sessions, checkout, webhook, receipts, refunds and the cash desk | specification |
| `CircuitBreaker` | the breaker and the threads that call through it | specification |
| `Delivery` | what the synchronisation promises, with nothing said about how | abstract specification |
| `Sync` | the outbox, the runs of `process_queue`, the operator, the peer and the requests between them | detailed specification, implements `Delivery` |
| `Attendance` | the phone's `save` and `drain` with the queue between them, and the server's handlers | specification |
| `Billing` | payments, the two jobs in every process, invoices and the webhook that pays them | specification |
| `MCFinanceLedger`, `MCParentPayments`, `MCCircuitBreaker`, `MCSync`, `MCAttendance`, `MCBilling` | values of the constants, symmetry | for TLC |
| `SchoolLedgerProofs`, `FinanceLedgerProofs`, `FinanceHistoryProofs`, `ParentPaymentsProofs`, `CircuitBreakerProofs`, `SyncProofs`, `AttendanceProofs`, `BillingProofs` | theorems | for TLAPS |

Definitions introduced by a comment `Faulty:` are not part of any specification.
Each is a plausible slip in the definition named after it (a lock forgotten, a
check dropped) and is kept to show that the property it would break notices.

### 2.1 SchoolLedger and FinanceLedger

The variables of `SchoolLedger` are committed rows: `seq` (the last number of the
prefixes PAY and JE), `paid`, `walletRows`, `balance`, `payments`, `wtxns`, `journal`, and
`reversed` (the `is_reversed` and `reversed_entry_id` columns). `FinanceLedger` adds
what a running system has besides: `tx[w]`, the request each worker serves with everything it has
flushed and not committed; `holder`, the transaction that holds each row, by `FOR
UPDATE` or by an uncommitted insert; `locked`, the accounting period; and `outbox`, the
`sync_queue`. `opened` and `late` are history variables for two properties.

A request passes through the stages of `tx[w].at`, and a step goes from one database
statement that may wait or fail to the next:

| Stage | Code | Steps |
|---|---|---|
| `select` | `SELECT ... FOR UPDATE` of the sequence row | `SelectNumber`, `NumberIsMissing` |
| `insert` | `INSERT` of the first number | `InsertNumber`, `InsertLoses` |
| `invoice` | invoice lock, over-payment check, flush of the payment | `PostToInvoice`, `RefusePayment` |
| `wallet`, `walletInsert` | wallet lock or insert, balance check, flush | `LockWallet`, `WalletIsMissing`, `InsertWallet`, `RefuseWallet` |
| `period` | `_check_period` in `wallet_transaction`, after the flush | `CheckPeriod` |
| `commit` | `db.commit()` | `Commit` |
| `outbox` | `enqueue_sync`, a transaction of its own | `EnqueueSync` |
| `mark` | the second commit of `reverse_journal_entry` | `MarkReversed` |

A worker may `Crash` at any stage. `InsertLoses` is the step that deserves a look:
on an `IntegrityError`, `next_sequence_number` rolls back *the caller's*
transaction and tries again. `kept` remembers whether that threw away documents the
caller had flushed; if so, `Commit` stores only the journal entry.

Assumptions and abstractions. Amounts are any integers: `PaymentCreate.amount` and
`WalletTransactionCreate.amount` (`schemas/finance.py:153`, `185`) are bare decimals and no service looks at the sign, so
a negative payment commits, and leaves a negative `paid_amount` on a fresh invoice.
There is one school, one year and one period that holds every date, and the fee
accounts exist: `_create_*_journal_entry` creates them on first use, and two first
uses at once are not modelled. An invoice's `status` is a function of `paid_amount` and is left
out. Reads a request makes before its first lock, and which do not
wait, are merged into its first step. A request that is refused before it has any effect is
not a step. Debit and credit lines are checked to balance before anything is written and are not
represented. Bounds: `MaxEntries` (entries of the year, so also requests begun), `MaxTries` (3, as in the code).

### 2.2 ParentPayments

`ses`, `payments`, `receipts`, `paid`, `refunds` are the tables; `checkout` is the gateway's
own record of each session; `feeAccounts` says whether the two accounts that
`_create_payment_journal_entry` looks up exist; `rows` says which of the school year's sequence rows PAY and RFD exist;
`handler` is what each request handler has read so far and which row it has locked. `desk`, `applied` and the field `kept` of payments and
refunds are history.

A transaction whose reads are all made under locks that it holds to its commit is one step,
the reduction that `FinanceLedgerProofs` proves for the cash desk. Everything else is
split where the code lets somebody else in:

* `initialize_chapa_payment` reads the session, calls the gateway, then writes
  `"processing"`: `InitializeRead`, `GatewayOpens`, `InitializeCommit`. The answer may be lost.
* the webhook loads the session (`WebhookRead`), verifies with the gateway, then locks the
  row and looks for the gateway's reference among the payments (`WebhookLocks`). The locking `SELECT` runs in the same session, whose identity map keeps the
  status already loaded, so the committed status is not looked at again. What stops a second payment is the reference.
* its payment number is drawn next. If the year's row PAY is missing (`NumberIsMissing`) the handler inserts it, and if another transaction's insert
  is committed first (`InsertLoses`), `next_sequence_number` rolls back: the session's lock and its `"completed"` are gone, the handler goes on, and `WebhookRecords` commits a payment
  of a session that is pending again. `NewPayment` notes in `kept` whether the lock was still held.
* `request_refund` draws its number after the check for other refunds of the payment, and may lose the payment's lock in the same way:
  `RefundFindsNoRow`, `RefundInsertsRow` or `RefundInsertLoses` and `RefundGoesOn`. With the row RFD in place it is one step (`RequestRefund`).
* `process_refund` reads refund, receipt and invoice without locks: `ProcessRead`,
  `ProcessReadInvoice`, `ProcessCommit`. The stale `paid_amount` is written.

Receipt numbers need no such steps: a webhook draws RCP after PAY, whose row it has locked or inserted by then, unless it lost the PAY row, in which case it locks the row
it lost to; nothing else draws RCP (`create_receipt_from_payment` would, and has no caller), so two handlers never insert it at once. `OthersDraw` inserts a row on behalf of payments and refunds that are not modelled.

The gateway is external: it charges a checkout once, with one reference per session, and delivers
the callback any number of times. Sessions never expire (nothing enforces `expires_at`). A refund's amount is positive (`parent_payments.py:271`), all other amounts are any integers.
`SystemUser` says whether a user with id
`"system"` exists, to which `payments.received_by` refers; no seed creates one, so the runs
that need a webhook to succeed assume it. `CsrfExempt` says whether `CSRFMiddleware` lets the callback
pass (see section 5). With either of them false, as the code stands, no callback records a payment; the runs ask what would hold once the two are repaired. The commission recorded
inside the webhook's transaction is the business of `Billing`. Bound: `MaxDesk`.

### 2.3 CircuitBreaker

`state`, `failures`, `trials` are the fields of the class; `rested` says whether
`recovery_timeout` has passed since the last failure, the only question the code asks about
time; `call[t]` is what thread `t` does. Admission and the recording of a result are each
one step, because the lock is held for each and not for the call between them. A
rejected call changes nothing and is no step. `failures` stops at the threshold, since it is only
ever compared with it. The property `state`, which recovers without the lock, is read by nothing in the
application and is not modelled; no caller passes a fallback.

### 2.4 Delivery and Sync

`rows` is the table `sync_queue`, each row with its status, its payload, its place in the order of creation
and whether `synced_at` is set (`stamped`); `inbound` is the peer's `sync_inbound`, as how often each row
was recorded. `worker[w]` is the batch of a run of `process_queue`: rows still to send, sent, and failed.
Runs are the sync worker, a thread of every backend process (`main.py`) and `POST /sync/trigger`; they read
the queue without a lock, so batches overlap. `handler[h]` is a request at the peer. `configured` says whether `server_id.json`
names a role and a VPS: without them `process_queue` returns before it reads the queue.

| Step | Code |
|---|---|
| `Enqueue` | `enqueue_sync` |
| `Configure`, `IdentityLost` | somebody edits the file (no code writes the URL into it); `save_server_identity` writes it anew without the URL, or it is lost |
| `Collect`, `Send`, `SendFails`, `CommitBatch` | `process_queue` and `_send_to_vps`; the one commit at the end writes every row whatever another run has written since, and fails as a whole when a row is gone |
| `Dies` | an exception or the end of the process before the commit |
| `ReadFailed`, `RetryFailed`, `Purge` | `retry_failed` (read, then commit), `purge_old_sync` |
| `LookUp` or `Duplicate`, `Record` | `apply_sync_payload` looks for the hash, then inserts |
| `Lost` | a request that dies at the peer after its sender has gone |

`SendFails` is enabled whenever a row is to be sent: no connection, an open breaker, a refusal by signature,
clock or school, or a timeout. After a timeout the request is still being handled and may be recorded later
than a retry of it. `Says` gives the payloads each row may have. `apply_sync_payload` compares only the
payload and the sending server, so two rows with equal payloads are one to the peer; the run gives each row a
payload of its own, and the theorems do not assume that. `Delivery` has three steps: a record is announced,
the peer learns a payload that was announced, and announcements are settled, for good, when the peer knows what they say.
The mapping takes `synced_at` for "settled", because the status may go back to failed when a second run fails to send the same row.
Bound: `MaxTrouble` (crashes, retries, purges, lost identities).

### 2.5 Attendance

One section and one day. On the phone, `save[v]` is what the submit button of a view does, `drain[d]` what `drainAttendanceQueue` does for a portal,
`store` the queue in SecureStore. One callback runs at a time, so a step is the stretch between two awaits. The flags `busy` and `syncingRef` belong to
views that a change of tabs unmounts (`TeacherPortal.tsx:169`), so there may be several saves and several drains under way (`Saves`, `Drains`), each of which reads the
queue and writes it back later. `Rolls` is the set of marks a teacher may submit.

| Step | Code |
|---|---|
| `Save`, `SaveSends`, `SaveEnds` | `save`: submit; the session has expired, or the store does not write |
| `SaveFails`, `ReadFails`, `Enqueue` | `enqueueAttendance`: the queue is read, or the read fails and counts as an empty queue (`queue.ts:29-31`); then it is written back with the operation |
| `DrainStarts`, `DrainSends`, `DrainKeeps`, `DrainAborts`, `DrainEnds` | `drainAttendanceQueue`, whose last step overwrites the store with what it kept |
| `Killed` | the end of the app |

On the server a step is the stretch between two commits of `mark_attendance_bulk`, for each of several requests:

| Step | Code |
|---|---|
| `TurnAway` | a 4xx before the handler (`CSRFMiddleware`, permissions) |
| `Replay`, `Refuse` | the stored response of the key; the attendance window |
| `Check`, `CommitMarks` | the loop that leaves out students already marked; the commit, which `uq_attendance_student_date` may refuse |
| `Notify`, `StoreResponse` | the parents of all absent students, one by one; the response under its key, which `uq_attendance_batch_key` may refuse |
| `Scan`, `Patch`, `WindowTurns` | the card scanner, a correction, the clock |

A phone that gives up (`SaveFails`, `DrainKeeps`, `Killed`) leaves its request with nobody waiting for it;
it goes on, or dies at any point (`Gone`). `settled`, `queued` and `exposed` are history; `exposed` are the operations
the phone may lose: those queued while another call held the queue it had read (`Held`), and what was in the store when a read failed. The queue is a set of operation numbers, because it
is always in the order of saving. A direct submission and its queued copy have different keys, as in the code. `Check` does not
skip students who have left the school (`attendance.py:96-98`): soft deletion is not modelled, and a student of the roster stays one. Bounds: `MaxOps` saves, `MaxOutages` (deaths, failed reads, refusals
before the handler, scans, corrections, turns of the window).

### 2.6 Billing

`dated` is the date of each payment, `fees` the tables `school_transactions` and `platform_fees` (a transaction and its
fee are always written together), `bills` the monthly invoices. `daily[s]` and `monthly[s]` are the runs of the two jobs in
server process `s`: `start_scheduler` is called in each, so both jobs run once per process, at the same time. A draft is
what a job has flushed and not committed. `holder` is who holds the `number_sequences` row `PINV`, `paying` the webhooks
that hold an invoice's lock. The field `met` (which runs of the same job were under way meanwhile) is history.

`Charge` looks for the payment's transaction among committed rows and adds to the draft; `BillNext`, `ReadFees` and `Write`
are the three reads and waits of `generate_monthly_invoice`. `PayOnline` commits the fee with the payment; `PayAtDesk` takes the date from the
request. `SystemSchool` says whether a school with id `"system"` exists, to which the sequence row of invoice numbers refers; nothing creates
one, so on PostgreSQL every generation fails and the run assumes it. There are two clocks: jobs start, and the daily job selects payments, by the server's date,
while the months of fees and invoices are counted in UTC (`platform_commission_service.py:47`, `310`). `UtcDays` are the dates UTC may show on a day of the server, `Offsets` how far they may differ:
east of Greenwich the job of the first, at 1:00, may find that UTC is still in the month before, and bills the one before that (`EndOfLastMonth`).
A job that missed its time does not run later in the same process, and may be killed at any
step. Bounds: `MaxDay`, and the month `MonthOf` each day.

## 3. What is checked

| Run | Instance | Shows |
|---|---|---|
| `finance_safety` | 2 workers, 1 invoice of 2, 1 wallet, 1 key, amounts -1 and 2, 3 entries | all safety properties of the ledger, and that the transactions implement `SchoolLedger` |
| `finance_liveness` | as above, no key, amount 1 | every request ends |
| `orphan_entry`, `double_reversal`, `late_entry` | as `finance_safety`, amounts 1 and 2 | violations, see findings |
| `parent_payments` | 1 session, 2 refunds, 1 invoice of 1, amounts -1 and 1, 2 handlers, desk balance from -1 to 1 | all safety properties of online payments |
| `charge_lost`, `refund_twice` | 2 sessions, 2 refunds, amount 1 | violations, see findings |
| `circuit_breaker` | 4 threads, one of them async, threshold 3, 2 trials | safety and recovery of the breaker |
| `sync` | 2 rows of different priority, 2 runs, one with a limit of 1, 2 requests at the peer, 1 interference | safety of the outbox, that it implements `Delivery`, and that pending rows are decided once the server is configured |
| `attendance` | 2 students, one of them absent, 2 operations, 2 saves at once, 1 drain, 2 requests, 1 interference | what a success tells the teacher, and what the queue keeps |
| `billing` | 2 payments of a school, 2 processes east of Greenwich, 3 days in 2 months | what may be charged or billed twice, and how fees follow invoices |

Properties of the ledger, in words:

* `NumbersGapless`: numbers are 1, 2, ..., n with no repetition, whatever rolls back.
* `NeverOverpaid`, `InvoiceBooksBalance`: payments of an invoice never exceed its total, and
  `paid_amount` is their sum, negative ones included.
* `KeyPaysOnce`: one payment per idempotency key.
* `WalletBooksBalance`: every wallet transaction starts at the balance the previous one left; nothing is overdrawn.
* `DocumentsHaveEntries`: every payment or wallet transaction has an entry of its own.
* `MarksPointAtReversals`: a mark names a committed reversing entry.
* `NoCircularWait`: rows are taken in one order, so the database never has a deadlock to break.
* `RetryBudgetSuffices`: the third attempt of `next_sequence_number` is never used.
* `AtomicOnceOpened`: once the year's sequence rows exist no request loses what it flushed.
* `OneLateEntryPerRequest`: after `lock_period`, a running request posts at most one more entry. The documents promise none (`NothingPostedLate`, see findings); this is what the code keeps.
* `OutboxIsCommitted`: the outbox announces nothing that was rolled back.
* `ImplementsLedger`: refinement of `SchoolLedger`; uncommitted work maps to nothing, `Commit` to the posting.
* `RequestsFinish`: every request ends (liveness).

Of online payments:

* `SecondPaymentOnlyFromLostLock`: one charge makes one payment under the session's lock, and at most one more by a callback that lost the lock to the
  rollback of the year's first payment number.
* `SecondRefundOnlyFromLostLock`: of two refunds of a payment that wait for approval at once, one was asked for by a handler that lost the payment's lock in that way, and there is no third.
* `CompletedIsPaid`: a session is completed with its payment and receipt or not at all.
* `ReceiptFollowsRefund`: a receipt is cancelled when, and only when, a refund of its payment has been processed.
* `InvoiceBooksBalance`: until the first refund is processed, `paid_amount` is what the desk and the webhooks brought; afterwards the code guarantees nothing.

Of the breaker: `BrokenIsEarned`,
`ProbesBounded`, `NeverWedged`, `KeepsProbing`.

Of the outbox:

* `NothingLost`: a row marked synced or purged says nothing the peer does not hold.
* `CopiesAreConcurrent`: however often a payload is sent, the peer records it no more often than it handles requests side by side.
* `PendingIsDecided`: on a server that is configured from some time on, a pending row becomes synced or failed (liveness): rows that keep failing do not stand in front of it for ever.
* `ImplementsDelivery`: refinement of `Delivery`.

Of attendance:

* `DoneIsMarked`, `DoneIsTold`: when the drain drops an operation as done, every student has a mark and every parent of a student it
  called absent has been told, though each part may have been done by another request that died since. `DoneIsTold` holds because *all* absences are told, also
  of students whose mark says otherwise (see section 5).
* `KeptUntilAnswered`: a queued operation stays queued until a drain is answered for it, unless it was queued while another save or drain was to write the queue back, or
  was in the store when a save failed to read it. Those the code does lose (see section 5).

Of billing:

* `ChargedTwiceTogether`, `BilledTwiceTogether`: two fees for a payment, or two invoices for a school and month, come only
  from jobs of two processes that overlapped. That is the most the code guarantees: looking first and inserting later is safe
  against every run that has ended, and no constraint guards the rest.
* `FeesFollowBills`: a fee is pending if and only if no invoice has it; it is paid only when an invoice of its school and month was; and a paid invoice leaves one of its fees unpaid only if
  a second invoice has the fee too.

**Why the bounds are enough.** The hazards are races of two requests over one row, so two workers,
one invoice and one wallet produce them; the third entry lets a crashed or refused request be followed by another
while one still runs, and lets a reversal of a reversed entry occur. Amounts -1 and 2 against a
total of 2 give the exact fit, the over-payment, and the payment that makes room for more than the total. `Init` covers both a year in which no number has been
drawn and one in which both sequences are open. Two handlers race over
one session or one payment of it, and a second refund is what the one-pending rule needs. One session is enough for that, because the others matter to it only by
the sequence rows they insert, which `OthersDraw` does, and by the invoice, which the desk pays too; `Init` has every combination of sequence rows. In the breaker
four threads are one more than the threshold, so a late result can arrive after the breaker opened, was probed and opened again.
In `sync` two overlapping batches, one of them cut off by its limit, race over two rows while one of them is retried, purged or lost; the peer's two requests are the least that
duplicate a record. In `attendance` a second save is what a drain, or the first save, can overwrite, and a second request is a replay beside its original. Two drains at once with two saves at once
have too many states: overlapping drains are covered by the proof. In `billing` the
month turns with the third day: a daily job, one that is late, and the monthly job all have a day to run on, and on the third day a fee may be of either month. A month before the last is not in the instance. Instances
of `billing` with three payments or two schools have too many states for a routine run.
What is proved (section 4) does not depend on these bounds.

**Deadlock** is checked except in the `ParentPayments` runs, where every session and refund may
be used up or every session stuck in `"processing"`, and in `sync`, `attendance` and `billing`, where
every row may be synced, every operation answered, or the last day over: places where the
system really has nothing left to do. In `FinanceLedger` `UnlockPeriod`/`LockPeriod` are always possible, so absence of
deadlock there is the business of `NoCircularWait` and `RequestsFinish`.

**Fairness.** `FinanceLedger`: PostgreSQL queues those who wait for a row lock, so a request
whose row is free again and again gets it (strong fairness of `Waiting`), and a thread that waits for nothing
continues (weak fairness of `Running`); nobody is obliged to send a request, to crash or to lock the period.
`ParentPayments` (only `charge_lost` needs fairness): the gateway redelivers until accepted and handlers run on; verification may fail,
not for ever. Nobody has to pay, refund or initialise. `CircuitBreaker`: time passes, somebody keeps calling (the worker loops and
users do), and every call reports because every client call has a timeout; a cancelled task is the exception that `cancelled` records.
`Sync`: each process calls `process_queue` in a loop and a call ends, because `urlopen` has a timeout (weak fairness of `Run`); nothing is assumed of the peer, the
operator or the connection, and a server that is never configured owes nothing (`<>[]configured` is a premise of `PendingIsDecided`). `Attendance` and `Billing` have no liveness property: nobody has to press the button, and a job that is missed is not made up for.

## 4. What is proved

TLAPS checks the following for all constants that satisfy the named assumptions (amounts are
integers of either sign, the total is a natural, "no key" is no key, "no invoice" no invoice, rows of different tables are distinct, nobody is not a worker; workers, sessions, handlers and threads finite, threshold and trials positive; records finite, limits positive, priorities natural; each payment of one school, months in the order of days, UTC at most a day off, saves, drains and the marker of nobody different, and the markers "nobody" and "none" nobody's name).

* `SchoolLedgerProofs!LedgerCorrect`: the indivisible ledger keeps `LedgerInv`, the conjunction of the
  type invariant, `NumbersGapless`, `NeverOverpaid`, `KeyPaysOnce`, `DocumentsHaveEntries`, `WalletBooksBalance`, `InvoiceBooksBalance` and `MarksPointAtReversals`. These are inductive
  only together: the chain of a wallet's transactions is ordered by entry numbers, which are ordered because numbering is
  gapless and each document owns its entry. `InvoiceBooksBalance` states a sum as the cardinality of a set: `Units` holds one pair for
  every unit of money each payment brings and `Debts` one for every unit a negative payment takes away, so a payment of n adds n elements to one of them and no induction over the payments is needed.
* `FinanceLedgerProofs!Refinement`: `Spec => LedgerSpec`. Every step of the interleaved
  transactions leaves the committed rows alone or is one indivisible posting.
* `FinanceLedgerProofs!InvariantHolds`, `TypesHold`, `NumbersStayGapless`, `InvoicesNeverOverpaid`, `KeysPayOnce`,
  `WalletsBalance`, `InvoicesBalance`, `NoDeadlock`: the ledger's properties for any number of workers, invoices, wallets and keys. The
  inductive invariant is `LedgerInv /\ Discipline`. `Discipline` says what a transaction in
  progress may rely on: which rows it holds at each stage, that the number it has drawn is the successor of the
  committed one while it holds the row, that the balance it read under the lock is still the committed one, that its
  checks (room on the invoice, funds, a fresh key) still hold at commit. Without it the step `Commit` could not be
  shown to be a posting: the properties speak of committed rows, the reasons they hold are in the locks.
* `FinanceHistoryProofs`: `RetriesSuffice` (a request on its second attempt finds the sequence row that beat it: `RetryFindsRow`),
  `OneLateEntry` (a request that has passed the period check has posted nothing since the lock: `OnePostPending`),
  `AtomicWhenOpened` (with both rows committed nobody inserts one, so nobody is rolled back under a caller that goes on: `RowsAreOpen`),
  `OutboxStaysCommitted`, and the corollaries `DocumentsKeepEntries` and `MarksAreEarned`. The relation `Moves` says once what a step may do to a request, and the invariants follow from it. Further:
  * `NobodyStopsEverybody`: while a request runs, one that runs is not blocked. A blocked request waits for a holder that waits, if at all, for a row of higher
    rank, and ranks are finite. `RequestsAreShort`: `Fuel`, a natural number up to 20, falls with every step of a request, retries included. The two
    are the safety half of `RequestsFinish`; what they leave to TLC is fairness.
  * `TwiceOnlyThatWay`: if no two requests reverse one entry at a time and none ends between its commit and its mark, no entry is reversed
    twice. Together with the run `double_reversal` this says exactly when the books go wrong. The invariant is `ReversalsInOrder`: a reversed entry is marked, or its request is about to.
  * `OrphansAreFew`: the entries without a document (`orphan_entry`) are fewer than the workers. `OrphansWereDoomed` counts them together with
    the requests that may still leave one: of those that race for the year's first entry at least one wins, and afterwards no request becomes `Doomed` that was not.
* `ParentPaymentsProofs!PaymentsCorrect` and its corollaries `PaymentsTyped`, `ChargesPayOnceLocked`, `CompletedStaysPaid`, `ReceiptsFollowRefunds`,
  `RefundsWaitAloneLocked`: any number of sessions (finitely many), refunds, invoices and handlers. The strengthening `Inv` adds that payment numbers run up to
  the number of payments, that a refund names a payment that exists, that whoever drew a number left its row behind (`RowsOK`), `HandlersOK`: what a handler read without a lock, or holds a lock on, and may still rely on,
  and `HandlersApart`: two handlers never hold one lock, and never race for one row on behalf of one session or payment. So of the handlers of one session, or of one payment's refunds, at most one goes on without its lock. A receipt a processor saw
  cancelled still is; one it saw active may not be, and the proof shows that the write is right all the same. (The invoice's balance is where it is not right: see `refund_twice`.)
  * `OnlineBooksBalance`: until the first refund is processed an invoice's `paid_amount` is the sum of its payments, counted in units as at the desk.
  * `RefundsApplyOnce`: a refund that no two processors handle at once is applied once (`RefundsInOrder`: what such a processor read of it is still true), so `refund_twice` needs the overlap.
  * `LostChargesStayLost`: a charge `Lost` once, refused by the webhook or unable to be posted, is never recorded. So what `charge_lost` shows is not made good by any redelivery.
* `CircuitBreakerProofs!BreakerCorrect` and the four corollaries `BreakerTyped`, `RejectsOnlyWhenEarned`, `TrialsAreBounded`, `NotWedged`: any number
  of threads, any threshold, any number of trials. The strengthening says that in a
  half-open period every probe has been counted and that some probe still runs or one was cancelled. `OnlyResetRevives` and `CancelledAbandons` say what the
  exception `cancelled` in `NeverWedged` and `KeepsProbing` costs: a breaker without trials left and without a running call comes only of a cancelled call, and no time and no caller brings it back, only `reset`.
* `SyncProofs!InvariantHolds`, `TypeCorrect`, `NothingIsLost`, `SyncImplementsDelivery`: any number of rows, runs, requests and interferences, payloads shared or not. The
  strengthening follows the truth backwards: a run holds a row as sent only if the peer holds its payload (`GoodIsKnown`), hence so does every row with `synced_at` (`StampedIsKnown`), and every synced or purged row has it
  (`SettledIsStamped`), because `purge_old_sync` goes by that column. Without the middle part `NothingLost` is not inductive: a second run may set a synced row to failed, and a purge may then delete it.
  `CopiesStayConcurrent` proves `CopiesAreConcurrent` from `CopiesHaveWriters`: the copies of a payload and the requests that have looked for it in vain and are about to record it are together no more than the handlers,
  since nobody looks in vain once there is a copy.
* `AttendanceProofs!InvariantHolds`, `TypeCorrect`, `DoneMeansMarked`, `DoneMeansTold`, `QueueKeeps`: any roster and any number of operations, saves, drains and requests. `RequestsDo` says
  what a request has done when it comes to its next commit, `KeysAreDone` that a stored response is that of a request that had done everything, `CopiesAreComplete` that no copy of the queue in memory misses an operation
  it is about to overwrite, but for those that are `exposed`. Saves and drains may overlap in any number.
  `CorrectionsSurvive` is an action property: only a correction changes a mark, though requests insert what they found missing some time ago; the constraint on student and date stops the rest.
* `BillingProofs!TypeCorrect`, `ChargedOnceAlone`, `BilledOnceAlone`, `FeesSettledByBills`: any number of payments, schools, processes and days. `ChargeInv` and `BillInv` say that runs under way at the same time
  know of each other and that what one has in its draft was committed meanwhile, if at all, by such a run; `SettleInv` that drafts and webhooks refer to fees of the school and month they are for, and that a webhook pays all fees of its invoice that are not in another.
  From the three together: `DoubledByTwoProcesses`, what is doubled comes from two different processes, and a payment made online is charged once; `PaymentsStand`, a paid invoice stays paid, and a paid fee too
  unless the commit of a monthly job writes over it that overlapped with the one that billed it (on two processes this happens); and `OneSchedulerSuffices`, a deployment in
  which one process runs the scheduler charges and bills nothing twice and keeps paid what is paid.

The theorems of this section that state no property of a run (the last four of the ledger, the ones on refunds, lost charges, the breaker, corrections and processes) were checked by TLC on small instances before they were proved.

Only model-checked are the liveness properties `RequestsFinish`, `KeepsProbing` and `PendingIsDecided`, because the installed provers
handle neither fairness nor ENABLED; and the five runs that expect a violation.

## 5. Findings

Each is a run whose property quotes the repository and that TLC refutes.

* `orphan_entry` (`utils/sequence.py:35`): the rollback inside `next_sequence_number` drops the payment the caller
  flushed, and `record_payment` then commits a journal entry that belongs to no payment. It needs two requests that both find the year's JE row missing.
* `double_reversal` (`services/finance_service.py:129`): an entry can be reversed twice, by two requests or after a crash between the two commits.
* `late_entry` (`services/finance_service.py:68`): the period check takes no lock, so a request that passed it posts after `lock_period`, although `docs/FINANCE.md:33` says
  "Locked after close: no new entries in locked period" (also `docs/FINANCE.md:105` and `finance_service.py:76`).
* `charge_lost` (`api/v1/endpoints/parent_payments.py:155`): after the checkout has been initialised the session is
  `"processing"`, which the webhook refuses, so the charge is never recorded.
* `refund_twice` (`services/parent_payment_service.py:517`): a refund read as approved by two requests is applied twice.

Seen while modelling, with no run of their own:

* `CSRFMiddleware` (`main.py:88`) refuses every POST under `/api/` without a CSRF cookie, and `CSRF_EXEMPT_PATHS` (`core/constants.py:59`) lists
  neither `/api/v1/sync/receive` nor `/api/v1/platform/invoice/webhook` nor the callback the checkout is given,
  `/api/v1/parent-payments/chapa/webhook` (it lists `/api/v1/chapa/webhook`, which no router serves). `docs/APU_AUTHENTICATION.md:67` says webhooks are exempt. As long as that is so,
  no callback is processed and no row is ever synced. The constant `CsrfExempt` of `ParentPayments`, `Sync` and `Billing` stands for it, and the runs set it to what the documents say.
  No seed creates the user `"system"` either, so that nothing a webhook does is committed in a fresh installation, CSRF or not.
* A session can be paid twice, and two refunds of a payment can both wait for approval, when a handler loses the year's first number (`utils/sequence.py:35`) and with it its lock. The comments at
  `services/parent_payment_service.py:245-246` and `450-451` say the lock prevents both. `PaidTwice.cfg` and `RefundPendingTwice.cfg` refute the properties `OnePaymentPerSession` and `OnePendingRefund` that state them; the paid session is left `"pending"` in between.
* A payment or a wallet movement with a negative amount is accepted (`schemas/finance.py:153`, `185`; `finance_service.py:353-381`, `486-511`), and an invoice's `paid_amount` may become negative, so that later payments add up to more than its total.
* `connect_vps` answers "VPS connected successfully at ... Sync will begin shortly." (`api/v1/endpoints/installer.py:483`), but stores the URL in the database only. `process_queue` asks
  `server_id.json` for it (`sync_service.py:51-62`), and no code writes it there: without a hand on that file nothing is ever sent.
* `models/sync_inbound.py:8` says received payloads are tracked "for deduplication"; two requests side by side both look in vain and record a payload twice. `CopiesAreConcurrent` is what remains.
* Two sessions, each within the balance when it was opened, together exceed the invoice: `process_chapa_payment` adds (`services/parent_payment_service.py:298`) what `create_payment_session` had
  compared (211-213), although `docs/FINANCE.md:104` says over-payment is blocked.
* Two rows of `sync_queue` with equal payloads are recorded once: the hash is of the payload alone (`api/v1/endpoints/sync.py:176`), and two cafeteria orders of one total have equal payloads
  (`services/cafeteria_service.py:60`). `docs/ARCHITECTURE_REVIEW_2026-06-30_GLM.md:150` proposes the table, record and operation as well. `NothingLost` is therefore about payloads.
* Attendance queued while a drain, or another view's save, is under way is lost when that one writes back the queue it had read (`queue.ts:97`, `46`), and the whole queue is lost when
  `getPendingAttendance` takes a failed read for an empty queue (`queue.ts:29-31`) and a save writes it back; `queue.ts:23` says replay is at-least-once. A 403 on replay, from the window or the middleware, drops the operation too.
* `mark_attendance_bulk` tells the parents of every student the request calls absent, also when the student had been marked present before and the record was left out (`attendance.py:123-125`).
* A payment entered after 23:30, dated on another day, or made on a day without a running process is never charged, and a fee recorded after its month's invoice is never billed: neither job looks further back.
  East of Greenwich the monthly job may bill the month before last, see 2.6.
  Of two overlapping monthly jobs the later one may set a fee that was paid meanwhile back to "invoiced".
* `get_wallet` creates a wallet without
its required `school_id`; the journal entry of an online payment is built with an argument the model class does not have; the scheduler's session clean-up uses
an undefined name.

## 6. Not modelled

Listed with reasons in `PROJECT.json`. In short:

* in the components above: soft deletion, configuration records of the finance
  service (accounts, fee types, budgets, payroll, purchase requests), invoices' creation, read-only reports and dashboards; several schools on one phone; staff attendance;
* look-then-write operations that promise nothing under concurrency: licence activation and first set-up, the library's, inventory's and budget's counters. Two requests at once both succeed there, a model would say no more than that; they are listed as hazards without a property;
* cafeteria orders, which lock what they sell like the ledger locks an invoice;
* authentication, licensing, cryptography, the native licence core, control centre and licence server: tokens, keys and signatures, not protocols between parts of this system;
* record keeping (students, academics, staff), notifications, backup, archive, analytics, user interfaces and deployment: no state shared between steps, or input and output only.

These last parts, with migrations, scripts and tests, are most of the repository's lines, so the modules stand for a small share of them.

## 7. Plan

Done: the ledger and its refinement, online payments, the breaker, the outbox with its abstract specification, attendance from the phone to the table, billing; each with its proofs.
Open, in order of importance:

1. *A reduction lemma* for the steps of `ParentPayments` that stand for a whole transaction, like the one `FinanceLedgerProofs` has for the desk.
2. *Creation of invoices and accounts* in `FinanceLedger`: the numbers INV, and the fee accounts created at first use by two requests.
3. *Stock*: cafeteria orders with their lock order and `update_product`, library and inventory counters, once they promise something.
4. *Composition* of `Billing` with `ParentPayments`, so that one webhook step writes both.
