-------------------------------- MODULE Sync --------------------------------
(***************************************************************************)
(* Server-to-server synchronisation: the outbox table sync_queue, the      *)
(* processes that drain it (the sync worker, a thread of every backend     *)
(* process and POST /sync/trigger all run process_queue), the operator's   *)
(* retry and purge, and the peer's POST /sync/receive                      *)
(* (services/sync_service.py, endpoints/sync.py).                          *)
(*                                                                         *)
(* process_queue reads its batch without a lock, sends row by row and      *)
(* commits once.  The peer reads before it writes, without a lock.  What   *)
(* the sender makes of a request (no connection, an open circuit breaker,  *)
(* a refusal, a timeout) is its failure, and says nothing of the peer: a   *)
(* request that timed out is still being handled there.                    *)
(***************************************************************************)
EXTENDS Integers, FiniteSets

CONSTANTS
    Records,        \* rows that may be written to the outbox
    Payloads,       \* payloads
    Says,           \* the payloads each record may carry; two may carry the same one
    Priority,       \* PRIORITY of each record's table
    Workers,        \* processes that run process_queue
    Handlers,       \* requests the peer handles at once
    NoWorker,       \* the sender of a request nobody waits for
    CsrfExempt,     \* does the peer's CSRFMiddleware let /sync/receive pass?
    Limit,          \* the limit each process passes to process_queue
    MaxTrouble      \* bound: crashes, retries, purges and lost identities

ASSUME PriorityIsNatural == Priority \in [Records -> Nat]
ASSUME NoWorkerIsNone == NoWorker \notin Workers
ASSUME LimitIsPositive == Limit \in [Workers -> Nat \ {0}]
ASSUME TroubleIsNatural == MaxTrouble \in Nat
ASSUME SomethingToSay == Payloads # {} /\ Says \in [Records -> SUBSET Payloads]
ASSUME RecordsAreFinite == IsFiniteSet(Records)
ASSUME HandlersAreFinite == IsFiniteSet(Handlers)

VARIABLES
    rows,       \* sync_queue
    worker,     \* the batch of each run of process_queue
    handler,    \* the requests at the peer
    inbound,    \* sync_inbound at the peer: rows written for each record
    failed,     \* what retry_failed has read and will set to PENDING
    configured, \* does server_id.json name a school server and the URL of its VPS?
    trouble     \* how often the environment interfered

vars == <<rows, worker, handler, inbound, failed, configured, trouble>>

Status == {"none", "pending", "synced", "failed", "purged"}

NoRow == [status |-> "none", stamped |-> FALSE, body |-> CHOOSE p \in Payloads : TRUE, no |-> 0]

\* A worker has rows still to send, rows sent and rows it could not send.
Idle == [todo |-> {}, good |-> {}, bad |-> {}]
Batch(w) == worker[w].todo \union worker[w].good \union worker[w].bad

Free == [at |-> "free"]
WaitsFor(w) == {h \in Handlers : handler[h].at # "free" /\ handler[h].from = w}

With(status) == {r \in Records : rows[r].status = status}

\* ORDER BY priority, created_at
Before(r, s) ==
    \/ Priority[r] < Priority[s]
    \/ Priority[r] = Priority[s] /\ rows[r].no < rows[s].no

\* The payloads the peer's lookup by payload_hash finds.
Known == {rows[r].body : r \in {s \in Records : inbound[s] > 0}}

Interferes == trouble < MaxTrouble /\ trouble' = trouble + 1

-----------------------------------------------------------------------------
(* The outbox *)

\* The operator writes the URL into server_id.json, which no code does:
\* connect_vps stores it in the database only.
Configure ==
    /\ ~configured
    /\ configured' = TRUE
    /\ UNCHANGED <<rows, worker, handler, inbound, failed, trouble>>

\* The file is lost, or written anew by an installation, without a URL.
IdentityLost ==
    /\ configured
    /\ Interferes
    /\ configured' = FALSE
    /\ UNCHANGED <<rows, worker, handler, inbound, failed>>

\* Faulty: a status that SyncStatus does not have.
EnqueueUnknownStatus(r, p) ==
    /\ p \in Says[r]
    /\ rows[r].status = "none"
    /\ rows' = [rows EXCEPT ![r] = [status |-> "queued", stamped |-> FALSE, body |-> p, no |-> 1]]
    /\ UNCHANGED <<worker, handler, inbound, failed, configured, trouble>>

\* enqueue_sync, called after the business transaction has committed
Enqueue(r, p) ==
    /\ p \in Says[r]
    /\ rows[r].status = "none"
    /\ rows' = [rows EXCEPT ![r] =
                  [status |-> "pending", stamped |-> FALSE, body |-> p,
                   no |-> Cardinality(Records \ With("none")) + 1]]
    /\ UNCHANGED <<worker, handler, inbound, failed, configured, trouble>>

\* The batch a run reads: the first rows in order up to its limit, or all there
\* are.  A server without an identity, another role or no URL reads nothing.
Collect(w) ==
    /\ configured
    /\ Batch(w) = {}
    /\ \E todo \in SUBSET With("pending") \ {{}} :
         /\ \A r \in todo, s \in With("pending") \ todo : Before(r, s)
         /\ \/ Cardinality(todo) = Limit[w]
            \/ Cardinality(todo) < Limit[w] /\ todo = With("pending")
         /\ worker' = [worker EXCEPT ![w].todo = todo]
    /\ UNCHANGED <<rows, handler, inbound, failed, configured, trouble>>

\* _send_to_vps reads the identity again; the request, which has no CSRF token,
\* reaches the peer's handler.
Send(w, h) ==
    /\ configured
    /\ CsrfExempt
    /\ WaitsFor(w) = {}
    /\ handler[h] = Free
    /\ \E r \in worker[w].todo :
         /\ \A s \in worker[w].todo \ {r} : Before(r, s)
         /\ handler' = [handler EXCEPT ![h] = [at |-> "received", row |-> r, from |-> w]]
    /\ UNCHANGED <<rows, worker, inbound, failed, configured, trouble>>

\* _send_to_vps raises: before anything was sent, or because no answer came.
SendFails(w) ==
    /\ \E r \in worker[w].todo :
         /\ \A s \in worker[w].todo \ {r} : Before(r, s)
         /\ worker' = [worker EXCEPT ![w].todo = @ \ {r}, ![w].bad = @ \union {r}]
    /\ handler' = [h \in Handlers |-> IF h \in WaitsFor(w)
                                        THEN [handler[h] EXCEPT !.from = NoWorker]
                                        ELSE handler[h]]
    /\ UNCHANGED <<rows, inbound, failed, configured, trouble>>

\* Faulty: an exception of _send_to_vps is swallowed.
MarkedAlways(w, r) == [rows[r] EXCEPT !.status = "synced", !.stamped = TRUE]

\* Faulty: synced_at is set before the request is sent.
MarkedEarly(w, r) ==
    [rows[r] EXCEPT !.status = IF r \in worker[w].good THEN "synced" ELSE "failed",
                    !.stamped = TRUE]

\* Faulty: a row that could not be sent stays in the queue.
MarkedNever(w, r) ==
    IF r \in worker[w].good
      THEN [rows[r] EXCEPT !.status = "synced", !.stamped = TRUE]
      ELSE rows[r]

\* The row as the session of run w writes it: status, and synced_at if sent.
\* An UPDATE does not look at what another run committed meanwhile.
Marked(w, r) ==
    IF r \in worker[w].good
      THEN [rows[r] EXCEPT !.status = "synced", !.stamped = TRUE]
      ELSE [rows[r] EXCEPT !.status = "failed"]

\* The one commit at the end.  A row that was purged meanwhile makes the
\* UPDATE match nothing, and the whole batch is rolled back.
CommitBatch(w) ==
    /\ worker[w].todo = {}
    /\ Batch(w) # {}
    /\ worker' = [worker EXCEPT ![w] = Idle]
    /\ rows' = IF Batch(w) \intersect With("purged") # {}
                 THEN rows
                 ELSE [r \in Records |-> IF r \in Batch(w) THEN Marked(w, r) ELSE rows[r]]
    /\ UNCHANGED <<handler, inbound, failed, configured, trouble>>

\* A run dies; the requests it had sent go on.
Dies(w) ==
    /\ Batch(w) # {}
    /\ Interferes
    /\ worker' = [worker EXCEPT ![w] = Idle]
    /\ handler' = [h \in Handlers |-> IF h \in WaitsFor(w)
                                        THEN [handler[h] EXCEPT !.from = NoWorker]
                                        ELSE handler[h]]
    /\ UNCHANGED <<rows, inbound, failed, configured>>

\* retry_failed reads the failed rows and then makes them PENDING.
ReadFailed ==
    /\ failed = {}
    /\ With("failed") # {}
    /\ Interferes
    /\ failed' = With("failed")
    /\ UNCHANGED <<rows, worker, handler, inbound, configured>>

RetryFailed ==
    /\ failed # {}
    /\ failed' = {}
    /\ rows' = IF failed \intersect With("purged") # {}
                 THEN rows
                 ELSE [r \in Records |-> IF r \in failed
                                           THEN [rows[r] EXCEPT !.status = "pending"]
                                           ELSE rows[r]]
    /\ UNCHANGED <<worker, handler, inbound, configured, trouble>>

\* purge_old_sync deletes rows by their synced_at, whatever their status is.
Purge(old) ==
    /\ old # {}
    /\ \A r \in old : rows[r].stamped /\ rows[r].status # "purged"
    /\ Interferes
    /\ rows' = [r \in Records |-> IF r \in old
                                    THEN [rows[r] EXCEPT !.status = "purged"]
                                    ELSE rows[r]]
    /\ UNCHANGED <<worker, handler, inbound, failed, configured>>

-----------------------------------------------------------------------------
(* The peer *)

\* The answer ends the request; a sender that still waits marks its row.
Answer(h) ==
    /\ handler' = [handler EXCEPT ![h] = Free]
    /\ worker' = IF handler[h].from = NoWorker
                   THEN worker
                   ELSE [worker EXCEPT ![handler[h].from].todo = @ \ {handler[h].row},
                                       ![handler[h].from].good = @ \union {handler[h].row}]

\* apply_sync_payload finds the payload: a duplicate, answered like any other.
Duplicate(h) ==
    /\ handler[h].at = "received"
    /\ rows[handler[h].row].body \in Known
    /\ Answer(h)
    /\ UNCHANGED <<rows, inbound, failed, configured, trouble>>

\* Faulty: the lookup finds nothing.
LookUpMisses(h) ==
    /\ handler[h].at = "received"
    /\ handler' = [handler EXCEPT ![h].at = "new"]
    /\ UNCHANGED <<rows, worker, inbound, failed, configured, trouble>>

\* It does not find it ...
LookUp(h) ==
    /\ handler[h].at = "received"
    /\ rows[handler[h].row].body \notin Known
    /\ handler' = [handler EXCEPT ![h].at = "new"]
    /\ UNCHANGED <<rows, worker, inbound, failed, configured, trouble>>

\* ... and records it.
Record(h) ==
    /\ handler[h].at = "new"
    /\ inbound' = [inbound EXCEPT ![handler[h].row] = @ + 1]
    /\ Answer(h)
    /\ UNCHANGED <<rows, failed, configured, trouble>>

\* A handler ends without having recorded anything; nobody is told.
Lost(h) ==
    /\ handler[h].at # "free"
    /\ handler[h].from = NoWorker
    /\ handler' = [handler EXCEPT ![h] = Free]
    /\ UNCHANGED <<rows, worker, inbound, failed, configured, trouble>>

-----------------------------------------------------------------------------
Init ==
    /\ rows = [r \in Records |-> NoRow]
    /\ worker = [w \in Workers |-> Idle]
    /\ handler = [h \in Handlers |-> Free]
    /\ inbound = [r \in Records |-> 0]
    /\ failed = {}
    /\ configured \in BOOLEAN
    /\ trouble = 0

\* One round of the loop around process_queue.
Run(w) == Collect(w) \/ SendFails(w) \/ CommitBatch(w) \/ \E h \in Handlers : Send(w, h)
Peer(h) == Duplicate(h) \/ LookUp(h) \/ Record(h) \/ Lost(h)

Next ==
    \/ \E r \in Records, p \in Payloads : Enqueue(r, p)
    \/ \E w \in Workers : Run(w) \/ Dies(w)
    \/ \E h \in Handlers : Peer(h)
    \/ ReadFailed \/ RetryFailed \/ Configure \/ IdentityLost
    \/ \E old \in SUBSET Records : Purge(old)

Spec == Init /\ [][Next]_vars

\* sync_worker.run and _sync_worker_loop call process_queue over and over, and
\* a call ends: every request has a timeout.
FairSpec == Spec /\ \A w \in Workers : WF_vars(Run(w))

-----------------------------------------------------------------------------
(* Properties *)

Rows == [status : Status, stamped : BOOLEAN, body : Payloads, no : Nat]
Requests ==
    {Free} \union [at : {"received", "new"}, row : Records, from : Workers \union {NoWorker}]

\* Every variable has its type.
TypeOK ==
    /\ rows \in [Records -> Rows]
    /\ worker \in [Workers -> [todo : SUBSET Records, good : SUBSET Records, bad : SUBSET Records]]
    /\ handler \in [Handlers -> Requests]
    /\ inbound \in [Records -> Nat]
    /\ failed \subseteq Records
    /\ configured \in BOOLEAN
    /\ trouble \in 0..MaxTrouble

\* A row that was marked SYNCED, and a row that purge_old_sync deleted, says
\* nothing the peer does not hold: whatever was not delivered is still in the
\* outbox, pending, failed or being sent (process_queue, purge_old_sync).
NothingLost ==
    \A r \in With("synced") \union With("purged") : rows[r].body \in Known

\* sync_inbound holds inbound[r] rows for record r: each is a pair <<r, its rank>>.
Copies(p) == UNION {{r} \X (1..inbound[r]) : r \in {s \in Records : rows[s].body = p}}

\* However often a payload is sent again, apply_sync_payload writes it no more
\* often than the peer handles requests side by side.
CopiesAreConcurrent ==
    \A p \in Payloads : Cardinality(Copies(p)) <= Cardinality(Handlers)

\* On a server that stays configured every pending row is decided in the end:
\* rows that keep failing do not stand in front of it for ever, because
\* process_queue takes them out of the queue.
PendingIsDecided ==
    <>[]configured =>
        \A r \in Records : rows[r].status = "pending" ~> rows[r].status # "pending"

\* The outbox implements Delivery: a row counts as settled from the first time
\* its synced_at is committed.
Abs == INSTANCE Delivery WITH
         announced <- {<<r, rows[r].body>> : r \in Records \ With("none")},
         known <- Known,
         settled <- {<<r, rows[r].body>> : r \in {s \in Records : rows[s].stamped}}

\* process_queue and apply_sync_payload keep the promise of Delivery: settled
\* announcements stay settled, and the peer knew their payloads before.
ImplementsDelivery == Abs!DeliverySpec
=============================================================================
