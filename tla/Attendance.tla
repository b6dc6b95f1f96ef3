----------------------------- MODULE Attendance -----------------------------
(***************************************************************************)
(* A teacher marks a class: the mobile app submits the marks at once or,   *)
(* when that fails, keeps them in a queue on the phone that is drained     *)
(* later (mobile-app/src/services/queue.ts, screens/TeacherPortal.tsx);    *)
(* the school server answers POST /attendance/bulk                         *)
(* (endpoints/attendance.py) and tells the parents of absent students.     *)
(*                                                                         *)
(* On the phone only one callback runs at a time, and the steps are the    *)
(* stretches between two awaits.  On the server the steps are the          *)
(* stretches between two commits, in several requests at once.  A request  *)
(* the phone has given up is still being handled.                          *)
(***************************************************************************)
EXTENDS Integers, FiniteSets

CONSTANTS
    Students,   \* the section's roster
    Rolls,      \* the marks a teacher may save
    MaxOps,     \* bound: how often the teacher saves
    Saves,      \* calls of save at once: each view that is mounted admits one
    Drains,     \* drains at once: each portal that is mounted admits one
    Requests,   \* requests the server handles at once
    MaxOutages, \* bound: deaths, failed reads, refusals, scans, corrections, turns of the window
    Nobody      \* the sender of a request nobody waits for

ASSUME OpsAreNatural == MaxOps \in Nat
ASSUME OutagesAreNatural == MaxOutages \in Nat
ASSUME CallsDiffer == Saves \intersect Drains = {} /\ Nobody \notin Saves \union Drains

\* Operations are numbered in the order in which they were saved.
Ops == 1..MaxOps
Mark == {"present", "absent"}
ASSUME RollsMark == Rolls \subseteq [Students -> Mark]
Senders == Saves \union Drains

VARIABLES
    saved,      \* the marks of each save
    store,      \* SecureStore: the operations of the queue
    save,       \* what each save() is doing
    drain,      \* what each drainAttendanceQueue is doing
    request,    \* the requests at the server
    open,       \* is the attendance window open?
    marks,      \* table attendance: the section's marks of the day
    keys,       \* table attendance_batches: operations whose response is stored
    told,       \* the absences parents were told of
    settled,    \* history: operations a drain was answered for, and how
    queued,     \* history: operations written to the queue
    exposed,    \* history: those the phone may lose, see Enqueue and ReadFails
    outages     \* how often any of those happened

phone == <<store, save, drain>>
server == <<marks, keys, told>>
vars == <<saved, phone, request, open, server, settled, queued, exposed, outages>>

Unmarked == [s \in Students |-> "none"]
Idle == [at |-> "idle"]
Free == [at |-> "free"]

\* FIFO: the next operation of the drain.
Due(d, op) == drain[d].at = "drain" /\ op \in drain[d].todo /\ \A p \in drain[d].todo : op <= p

Waits(who) == \E q \in Requests : request[q].at # "free" /\ request[q].from = who
\* The requests after who has stopped waiting.
Orphaned(who) == [q \in Requests |-> IF request[q].at # "free" /\ request[q].from = who
                                       THEN [request[q] EXCEPT !.from = Nobody]
                                       ELSE request[q]]

Outage == outages < MaxOutages /\ outages' = outages + 1

\* Records without a status are "present".
Absent(op) == {s \in Students : saved[op][s] = "absent"}

-----------------------------------------------------------------------------
(* The phone *)

\* Faulty: the sender is noted under a name of its own.
PostUnsigned(q, who, op, key) ==
    /\ request[q] = Free
    /\ request' = [request EXCEPT ![q] =
                     [at |-> "received", op |-> op, key |-> key, from |-> "app", left |-> {}]]

\* submitAttendance: the POST reaches the server.
Post(q, who, op, key) ==
    /\ request[q] = Free
    /\ ~Waits(who)
    /\ request' = [request EXCEPT ![q] =
                     [at |-> "received", op |-> op, key |-> key, from |-> who, left |-> {}]]

\* save: the teacher has marked the whole roster.  The flag busy belongs to the
\* view: one that is mounted anew admits another save beside the first.
Save(v, m) ==
    /\ save[v] = Idle
    /\ \E op \in Ops :
         /\ saved[op] = Unmarked
         /\ \A p \in Ops : p < op => saved[p] # Unmarked
         /\ saved' = [saved EXCEPT ![op] = m]
         /\ save' = [save EXCEPT ![v] = [at |-> "submit", op |-> op]]
    /\ UNCHANGED <<store, drain, request, open, server, settled, queued, exposed, outages>>

\* Its submission has a key of its own, which is never sent again.
SaveSends(v, q) ==
    /\ save[v].at = "submit"
    /\ Post(q, v, save[v].op, FALSE)
    /\ UNCHANGED <<saved, phone, open, server, settled, queued, exposed, outages>>

\* The session has expired, or SecureStore does not write: nothing is queued.
SaveEnds(v) ==
    /\ save[v] # Idle
    /\ ~Waits(v)
    /\ save' = [save EXCEPT ![v] = Idle]
    /\ UNCHANGED <<saved, store, drain, request, open, server, settled, queued, exposed, outages>>

\* enqueueAttendance after any failure but a refusal by the window: the queue is read ...
Reads(v, read) ==
    /\ save[v].at = "submit"
    /\ save' = [save EXCEPT ![v] = [at |-> "queue", op |-> save[v].op, read |-> read]]
    /\ request' = Orphaned(v)
    /\ UNCHANGED <<saved, store, drain, open, server, settled, queued>>

SaveFails(v) == Reads(v, store) /\ UNCHANGED <<exposed, outages>>

\* getPendingAttendance answers [] when SecureStore does not read or the text does not parse.
ReadFails(v) == Reads(v, {}) /\ exposed' = exposed \union store /\ Outage

\* Has anybody else read the queue to write it back later?
Held(v) == (\E d \in Drains : drain[d] # Idle) \/ \E w \in Saves \ {v} : save[w].at = "queue"

\* ... and written back with the operation, under a new key.
Enqueue(v) ==
    /\ save[v].at = "queue"
    /\ store' = save[v].read \union {save[v].op}
    /\ queued' = queued \union {save[v].op}
    /\ exposed' = IF Held(v) THEN exposed \union {save[v].op} ELSE exposed
    /\ save' = [save EXCEPT ![v] = Idle]
    /\ UNCHANGED <<saved, drain, request, open, server, settled, outages>>

\* syncNow: drainAttendanceQueue reads the queue.  syncingRef belongs to the
\* portal: one that is mounted anew starts a drain beside the first.
DrainStarts(d) ==
    /\ drain[d] = Idle
    /\ store # {}
    /\ drain' = [drain EXCEPT ![d] = [at |-> "drain", todo |-> store, kept |-> {}]]
    /\ UNCHANGED <<saved, store, save, request, open, server, settled, queued, exposed, outages>>

DrainSends(d, q) ==
    /\ \E op \in Ops : Due(d, op) /\ Post(q, d, op, TRUE)
    /\ UNCHANGED <<saved, phone, open, server, settled, queued, exposed, outages>>

\* No connection, no answer, or an answer of 500: the operation is kept.
DrainKeeps(d) ==
    /\ \E op \in Ops :
         /\ Due(d, op)
         /\ drain' = [drain EXCEPT ![d].todo = @ \ {op}, ![d].kept = @ \union {op}]
    /\ request' = Orphaned(d)
    /\ UNCHANGED <<saved, store, save, open, server, settled, queued, exposed, outages>>

\* SessionExpiredError leaves the loop before the queue is saved; so does a
\* SecureStore that does not write.
DrainAborts(d) ==
    /\ drain[d].at = "drain"
    /\ ~Waits(d)
    /\ drain' = [drain EXCEPT ![d] = Idle]
    /\ UNCHANGED <<saved, store, save, request, open, server, settled, queued, exposed, outages>>

\* Faulty: what failed is dropped with what was answered.
DrainEndsEmpty(d) ==
    /\ drain[d].at = "drain"
    /\ drain[d].todo = {}
    /\ store' = {}
    /\ drain' = [drain EXCEPT ![d] = Idle]
    /\ UNCHANGED <<saved, save, request, open, server, settled, queued, exposed, outages>>

\* saveQueue: what the drain has kept of the queue it read.
DrainEnds(d) ==
    /\ drain[d].at = "drain"
    /\ drain[d].todo = {}
    /\ store' = drain[d].kept
    /\ drain' = [drain EXCEPT ![d] = Idle]
    /\ UNCHANGED <<saved, save, request, open, server, settled, queued, exposed, outages>>

\* The app is killed: the queue stays, what ran is gone.
Killed ==
    /\ (\E v \in Saves : save[v] # Idle) \/ \E d \in Drains : drain[d] # Idle
    /\ save' = [v \in Saves |-> Idle]
    /\ drain' = [d \in Drains |-> Idle]
    /\ request' = [q \in Requests |-> IF request[q].at # "free"
                                        THEN [request[q] EXCEPT !.from = Nobody]
                                        ELSE request[q]]
    /\ Outage
    /\ UNCHANGED <<saved, store, open, server, settled, queued, exposed>>

-----------------------------------------------------------------------------
(* The server *)

\* The answer of request q reaches whoever waits for it.  A refusal (403) is
\* shown to the teacher by save and drops the operation from the drain.
Answered(q, how) ==
    /\ request' = [request EXCEPT ![q] = Free]
    /\ save' = [v \in Saves |-> IF request[q].from = v THEN Idle ELSE save[v]]
    /\ drain' = [d \in Drains |-> IF request[q].from = d
                                    THEN [drain[d] EXCEPT !.todo = @ \ {request[q].op}]
                                    ELSE drain[d]]
    /\ settled' = IF request[q].from \in Drains
                    THEN settled \union {<<request[q].op, how>>}
                    ELSE settled
    /\ UNCHANGED <<saved, store, open, queued, exposed>>

\* CSRFMiddleware, the permission check: a 4xx before the handler is reached.
TurnAway(q) ==
    /\ request[q].at = "received"
    /\ Answered(q, "refused")
    /\ Outage
    /\ UNCHANGED server

\* The key is known: the stored response is returned.
Replay(q) ==
    /\ request[q].at = "received"
    /\ request[q].key /\ request[q].op \in keys
    /\ Answered(q, "done")
    /\ UNCHANGED <<server, outages>>

Fresh(q) == request[q].at = "received" /\ ~(request[q].key /\ request[q].op \in keys)

\* Outside the attendance window a new key is refused.
Refuse(q) ==
    /\ Fresh(q)
    /\ ~open
    /\ Answered(q, "refused")
    /\ UNCHANGED <<server, outages>>

\* The records that are not marked yet are left to insert.
Check(q) ==
    /\ Fresh(q)
    /\ open
    /\ request' = [request EXCEPT ![q].at = "checked",
                                  ![q].left = {s \in Students : marks[s] = "none"}]
    /\ UNCHANGED <<saved, phone, open, server, settled, queued, exposed, outages>>

\* Faulty: a student marked meanwhile is skipped without an error, and the others with it.
CommitMarksQuietly(q) ==
    /\ request[q].at = "checked"
    /\ marks' = IF \E s \in request[q].left : marks[s] # "none"
                  THEN marks
                  ELSE [s \in Students |-> IF s \in request[q].left
                                             THEN saved[request[q].op][s]
                                             ELSE marks[s]]
    /\ request' = [request EXCEPT ![q].at = "marked", ![q].left = Absent(request[q].op)]
    /\ UNCHANGED <<saved, phone, open, keys, told, settled, queued, exposed, outages>>

\* Faulty: only the parents of students marked by this request are told.
CommitMarksTellNew(q) ==
    /\ request[q].at = "checked"
    /\ IF \E s \in request[q].left : marks[s] # "none"
         THEN request' = [request EXCEPT ![q].at = "failed"] /\ marks' = marks
         ELSE /\ marks' = [s \in Students |-> IF s \in request[q].left
                                                THEN saved[request[q].op][s]
                                                ELSE marks[s]]
              /\ request' = [request EXCEPT ![q].at = "marked", ![q].left = @ \intersect Absent(request[q].op)]
    /\ UNCHANGED <<saved, phone, open, keys, told, settled, queued, exposed, outages>>

\* db.commit(): all new records, unless another request has marked one of the
\* students meanwhile; uq_attendance_student_date then makes it an error 500,
\* which whoever waits takes for a failure (SaveFails, DrainKeeps).  Left to do
\* are the absences to tell: all of the request's, new or not.
CommitMarks(q) ==
    /\ request[q].at = "checked"
    /\ IF \E s \in request[q].left : marks[s] # "none"
         THEN request' = [request EXCEPT ![q].at = "failed"] /\ marks' = marks
         ELSE /\ marks' = [s \in Students |-> IF s \in request[q].left
                                                THEN saved[request[q].op][s]
                                                ELSE marks[s]]
              /\ request' = [request EXCEPT ![q].at = "marked", ![q].left = Absent(request[q].op)]
    /\ UNCHANGED <<saved, phone, open, keys, told, settled, queued, exposed, outages>>

\* _notify_absence
Notify(q, s) ==
    /\ request[q].at = "marked"
    /\ s \in request[q].left
    /\ told' = told \union {s}
    /\ request' = [request EXCEPT ![q].left = @ \ {s}]
    /\ UNCHANGED <<saved, phone, open, marks, keys, settled, queued, exposed, outages>>

\* The response is stored under the key; uq_attendance_batch_key makes a second
\* one an error 500.
StoreResponse(q) ==
    /\ request[q].at = "marked"
    /\ request[q].left = {}
    /\ IF request[q].key /\ request[q].op \in keys
         THEN /\ request' = [request EXCEPT ![q].at = "failed"]
              /\ UNCHANGED <<saved, phone, open, keys, settled, queued, exposed>>
         ELSE /\ keys' = IF request[q].key THEN keys \union {request[q].op} ELSE keys
              /\ Answered(q, "done")
    /\ UNCHANGED <<marks, told, outages>>

\* An error 500, or a request that died, when nobody waits for it any more.
Gone(q) ==
    /\ request[q].at # "free"
    /\ request[q].from = Nobody
    /\ \/ request[q].at = "failed" /\ UNCHANGED outages
       \/ request[q].at # "failed" /\ Outage
    /\ request' = [request EXCEPT ![q] = Free]
    /\ UNCHANGED <<saved, phone, open, server, settled, queued, exposed>>

\* The scanner, a student's card in front of it: no window, nobody is told.
Scan(s) ==
    /\ marks[s] = "none"
    /\ marks' = [marks EXCEPT ![s] = "present"]
    /\ Outage
    /\ UNCHANGED <<saved, phone, request, open, keys, told, settled, queued, exposed>>

\* patch_attendance; the request may die after its commit, before it tells anyone.
Patch(s, m) ==
    /\ open
    /\ marks[s] # "none"
    /\ marks' = [marks EXCEPT ![s] = m]
    /\ told' \in {told} \union (IF m = "absent" THEN {told \union {s}} ELSE {})
    /\ Outage
    /\ UNCHANGED <<saved, phone, request, open, keys, settled, queued, exposed>>

\* 08:00 to 10:00, every day.
WindowTurns ==
    /\ open' = ~open
    /\ Outage
    /\ UNCHANGED <<saved, phone, request, server, settled, queued, exposed>>

-----------------------------------------------------------------------------
Init ==
    /\ saved = [o \in Ops |-> Unmarked]
    /\ store = {}
    /\ save = [v \in Saves |-> Idle]
    /\ drain = [d \in Drains |-> Idle]
    /\ request = [q \in Requests |-> Free]
    /\ open \in BOOLEAN
    /\ marks = Unmarked
    /\ keys = {}
    /\ told = {}
    /\ settled = {}
    /\ queued = {}
    /\ exposed = {}
    /\ outages = 0

Phone ==
    \/ \E v \in Saves :
         \/ \E m \in Rolls : Save(v, m)
         \/ SaveEnds(v) \/ SaveFails(v) \/ ReadFails(v) \/ Enqueue(v)
         \/ \E q \in Requests : SaveSends(v, q)
    \/ \E d \in Drains :
         \/ DrainStarts(d) \/ DrainKeeps(d) \/ DrainAborts(d) \/ DrainEnds(d)
         \/ \E q \in Requests : DrainSends(d, q)
    \/ Killed

Server(q) ==
    \/ TurnAway(q) \/ Replay(q) \/ Refuse(q) \/ Check(q) \/ CommitMarks(q)
    \/ StoreResponse(q) \/ Gone(q)
    \/ \E s \in Students : Notify(q, s)

Next ==
    \/ Phone
    \/ \E q \in Requests : Server(q)
    \/ \E s \in Students : Scan(s) \/ \E m \in Mark : Patch(s, m)
    \/ WindowTurns

Spec == Init /\ [][Next]_vars

-----------------------------------------------------------------------------
(* Properties *)

RequestType ==
    {Free} \union [at : {"received", "checked", "marked", "failed"}, op : Ops,
                   key : BOOLEAN, from : Senders \union {Nobody}, left : SUBSET Students]

\* Every variable has its type.
TypeOK ==
    /\ saved \in [Ops -> [Students -> Mark \union {"none"}]]
    /\ store \in SUBSET Ops
    /\ save \in [Saves -> {Idle} \union [at : {"submit"}, op : Ops]
                                 \union [at : {"queue"}, op : Ops, read : SUBSET Ops]]
    /\ drain \in [Drains -> {Idle} \union [at : {"drain"}, todo : SUBSET Ops, kept : SUBSET Ops]]
    /\ request \in [Requests -> RequestType]
    /\ open \in BOOLEAN
    /\ marks \in [Students -> Mark \union {"none"}]
    /\ keys \in SUBSET Ops
    /\ told \in SUBSET Students
    /\ settled \in SUBSET (Ops \X {"done", "refused"})
    /\ queued \in SUBSET Ops
    /\ exposed \in SUBSET Ops
    /\ outages \in 0..MaxOutages

Done == {op \in Ops : <<op, "done">> \in settled}

\* When the drain drops an operation as done, every student of the class has a
\* mark: no crash, replay or race with another marker answers 201 for marks
\* that are not in the table (mark_attendance_bulk).
DoneIsMarked == \A op \in Done, s \in Students : marks[s] # "none"

\* ... and the parents of every student it calls absent have been told, though
\* the request that inserted the mark may have died before it told them.
DoneIsTold ==
    \A op \in Done, s \in Students : s \in Absent(op) => s \in told

\* An operation written to the queue stays there until the server has answered
\* a drain for it, through failures, an expired session, overlapping drains and
\* the death of the app.  What this excludes is what the code does not keep: an
\* operation that was written while another call had read the queue and was to
\* write it back - a drain, or a save of another view - and whatever is in the
\* store when a save fails to read it (enqueueAttendance, drainAttendanceQueue,
\* getPendingAttendance).
KeptUntilAnswered ==
    \A op \in queued \ exposed : op \in store \/ \E how \in {"done", "refused"} : <<op, how>> \in settled
=============================================================================
