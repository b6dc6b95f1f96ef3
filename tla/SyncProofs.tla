----------------------------- MODULE SyncProofs -----------------------------
(***************************************************************************)
(* What the outbox promises for any number of rows, processes, requests    *)
(* and interferences: the inductive invariant of Sync, and that Sync       *)
(* implements Delivery.                                                    *)
(***************************************************************************)
EXTENDS Sync, FiniteSetTheorems, TLAPS

\* The rows of the outbox, those that were purged included.
Written == {r \in Records : rows[r].status # "none"}

\* Only rows of the outbox are sent, retried and recorded.
OnlyWritten ==
    /\ \A w \in Workers : worker[w].todo \union worker[w].good \union worker[w].bad \subseteq Written
    /\ \A h \in Handlers : handler[h].at # "free" => handler[h].row \in Written
    /\ failed \subseteq Written
    /\ \A r \in Records : inbound[r] > 0 => r \in Written

\* A worker regards a row as sent only if the peer holds its payload.
GoodIsKnown == \A w \in Workers : \A r \in worker[w].good : rows[r].body \in Known

\* So does the table, where synced_at outlives the status.
StampedIsKnown ==
    \A r \in Records : rows[r].stamped => r \in Written /\ rows[r].body \in Known
SettledIsStamped == \A r \in With("synced") \union With("purged") : rows[r].stamped

IInv == TypeOK /\ OnlyWritten /\ GoodIsKnown /\ StampedIsKnown /\ SettledIsStamped

\* IInv gives what a reader of the outbox relies on (process_queue).
LEMMA InvariantSuffices == IInv => NothingLost
  BY DEF IInv, SettledIsStamped, StampedIsKnown, NothingLost, With

\* The initial states satisfy the invariant.
LEMMA InitInv == Init => IInv
  <1> SUFFICES ASSUME Init PROVE IInv
    OBVIOUS
  <1>1. NoRow \in Rows
    <2>1. (CHOOSE p \in Payloads : TRUE) \in Payloads
      BY SomethingToSay
    <2> QED BY <2>1 DEF NoRow, Rows, Status
  <1>2. TypeOK
    BY <1>1, TroubleIsNatural DEF Init, TypeOK, Idle, Free, Requests
  <1> QED BY <1>2 DEF Init, IInv, OnlyWritten, GoodIsKnown, StampedIsKnown, SettledIsStamped,
                     Written, With, NoRow, Idle, Free

\* A step keeps written rows written and their payloads as they are, and the
\* peer keeps what it has recorded.
Keeps ==
    /\ \A r \in Written : rows'[r].status # "none" /\ rows'[r].body = rows[r].body
    /\ \A r \in Records : inbound[r] > 0 => inbound'[r] > 0

\* Whoever keeps the rows and the peer's records keeps what the peer knows.
LEMMA KnownGrows ==
  ASSUME OnlyWritten, TypeOK, Keeps
  PROVE  Known \subseteq Known' /\ Written \subseteq Written'
  <1>1. \A r \in Records : inbound[r] > 0 => inbound'[r] > 0 /\ rows'[r].body = rows[r].body
    <2> TAKE r \in Records
    <2> HAVE inbound[r] > 0
    <2>1. r \in Written
      BY DEF OnlyWritten
    <2> QED BY <2>1 DEF Keeps
  <1> QED BY <1>1 DEF Known, Written, Keeps

\* Every step keeps what is written and recorded.
LEMMA StepKeeps ==
  ASSUME IInv, [Next]_vars
  PROVE  Keeps
  <1> USE DEF IInv, TypeOK
  <1>1. CASE UNCHANGED vars
    BY <1>1 DEF vars, Keeps, Written
  <1>2. CASE \E r \in Records, p \in Payloads : Enqueue(r, p)
    BY <1>2 DEF Enqueue, Keeps, Written
  <1>3. CASE \E w \in Workers : Collect(w) \/ SendFails(w) \/ Dies(w) \/ \E h \in Handlers : Send(w, h)
    BY <1>3 DEF Collect, SendFails, Dies, Send, Keeps, Written
  <1>4. CASE \E w \in Workers : CommitBatch(w)
    <2> PICK w \in Workers : CommitBatch(w)
      BY <1>4
    <2>1. \A r \in Records : Marked(w, r).status # "none" \/ rows[r].status = "none"
      BY DEF Marked, Rows, Status
    <2>2. \A r \in Records : Marked(w, r).body = rows[r].body
      BY DEF Marked, Rows
    <2> QED BY <2>1, <2>2 DEF CommitBatch, Keeps, Written, Marked, Rows
  <1>5. CASE \E h \in Handlers : Duplicate(h) \/ LookUp(h) \/ Lost(h)
    BY <1>5 DEF Duplicate, LookUp, Lost, Keeps, Written
  <1>6. CASE \E h \in Handlers : Record(h)
    BY <1>6 DEF Record, Keeps, Written
  <1>7. CASE ReadFailed \/ RetryFailed \/ Configure \/ IdentityLost
    BY <1>7 DEF ReadFailed, RetryFailed, Configure, IdentityLost, Keeps, Written, Rows
  <1>8. CASE \E old \in SUBSET Records : Purge(old)
    BY <1>8 DEF Purge, Keeps, Written, Rows
  <1> QED BY <1>1, <1>2, <1>3, <1>4, <1>5, <1>6, <1>7, <1>8 DEF Next, Run, Peer

\* What becomes of the parts of the invariant when a step leaves the rows, the
\* good rows of every worker and the peer's records alone.
LEMMA QuietStep ==
  ASSUME IInv, UNCHANGED <<rows, inbound>>,
         \A w \in Workers : worker'[w].good \subseteq worker[w].good
  PROVE  GoodIsKnown' /\ StampedIsKnown' /\ SettledIsStamped'
  <1>1. Known' = Known /\ Written' = Written
    BY DEF Known, Written
  <1>2. \A s : With(s)' = With(s)
    BY DEF With
  <1> QED BY <1>1, <1>2 DEF IInv, GoodIsKnown, StampedIsKnown, SettledIsStamped

\* Every step keeps the types.
LEMMA TypeStep ==
  ASSUME IInv, [Next]_vars
  PROVE  TypeOK'
  <1> USE DEF IInv, TypeOK, Idle
  <1>1. CASE UNCHANGED vars
    BY <1>1 DEF vars
  <1>2. ASSUME NEW r \in Records, NEW p \in Payloads, Enqueue(r, p)
        PROVE  TypeOK'
    <2>1. Cardinality(Records \ With("none")) + 1 \in Nat
      <3>1. IsFiniteSet(Records \ With("none"))
        BY RecordsAreFinite, FS_Subset
      <3> QED BY <3>1, FS_CardinalityType
    <2> QED BY <1>2, <2>1 DEF Enqueue, Rows, Status
  <1>3. ASSUME NEW w \in Workers, Collect(w)
        PROVE  TypeOK'
    BY <1>3 DEF Collect, With
  <1>4. ASSUME NEW w \in Workers, NEW h \in Handlers, Send(w, h)
        PROVE  TypeOK'
    BY <1>4 DEF Send, Requests
  <1>5. ASSUME NEW w \in Workers, SendFails(w) \/ Dies(w)
        PROVE  TypeOK'
    <2>1. handler' \in [Handlers -> Requests]
      <3>1. ASSUME NEW h \in WaitsFor(w)
            PROVE  [handler[h] EXCEPT !.from = NoWorker] \in Requests
        BY DEF WaitsFor, Requests, Free
      <3> QED BY <1>5, <3>1 DEF SendFails, Dies
    <2>2. worker' \in [Workers -> [todo : SUBSET Records, good : SUBSET Records, bad : SUBSET Records]]
      <3>1. CASE SendFails(w)
        <4> PICK r \in worker[w].todo :
              worker' = [worker EXCEPT ![w].todo = @ \ {r}, ![w].bad = @ \union {r}]
          BY <3>1 DEF SendFails
        <4>1. worker[w].todo \subseteq Records /\ worker[w].bad \subseteq Records
          OBVIOUS
        <4> QED BY <4>1
      <3>2. CASE Dies(w)
        BY <3>2 DEF Dies
      <3> QED BY <1>5, <3>1, <3>2
    <2> QED BY <1>5, <2>1, <2>2, TroubleIsNatural DEF SendFails, Dies, Interferes
  <1>6. ASSUME NEW w \in Workers, CommitBatch(w)
        PROVE  TypeOK'
    <2>1. \A r \in Records : Marked(w, r) \in Rows
      BY DEF Marked, Rows, Status
    <2> QED BY <1>6, <2>1 DEF CommitBatch
  <1>7. ASSUME NEW h \in Handlers, Duplicate(h) \/ Record(h)
        PROVE  TypeOK'
    <2>1. handler[h].row \in Records /\ handler[h].from \in Workers \union {NoWorker}
      BY <1>7 DEF Duplicate, Record, Requests, Free
    <2>2. handler' \in [Handlers -> Requests]
      BY <1>7 DEF Duplicate, Record, Answer, Requests
    <2>3. worker' \in [Workers -> [todo : SUBSET Records, good : SUBSET Records, bad : SUBSET Records]]
      <3>1. CASE handler[h].from = NoWorker
        BY <1>7, <3>1 DEF Duplicate, Record, Answer
      <3>2. CASE handler[h].from # NoWorker
        <4> DEFINE w == handler[h].from
                   b == [worker[w] EXCEPT !.todo = @ \ {handler[h].row},
                                          !.good = @ \union {handler[h].row}]
        <4>1. w \in Workers
          BY <2>1, <3>2
        <4>2. b \in [todo : SUBSET Records, good : SUBSET Records, bad : SUBSET Records]
          BY <2>1, <4>1
        <4>3. worker' = [worker EXCEPT ![w] = b]
          BY <1>7, <3>2, <4>1 DEF Duplicate, Record, Answer
        <4> HIDE DEF w, b
        <4> QED BY <4>1, <4>2, <4>3
      <3> QED BY <3>1, <3>2
    <2> QED BY <1>7, <2>1, <2>2, <2>3 DEF Duplicate, Record
  <1>8. ASSUME NEW h \in Handlers, LookUp(h) \/ Lost(h)
        PROVE  TypeOK'
    BY <1>8 DEF LookUp, Lost, Requests, Free
  <1>9. CASE ReadFailed \/ RetryFailed
    BY <1>9, TroubleIsNatural DEF ReadFailed, RetryFailed, Interferes, With, Rows, Status
  <1>11. CASE Configure
    BY <1>11 DEF Configure
  <1>12. CASE IdentityLost
    <2>1. trouble' \in 0..MaxTrouble
      BY <1>12, TroubleIsNatural DEF IdentityLost, Interferes
    <2> QED BY <1>12, <2>1 DEF IdentityLost
  <1>10. ASSUME NEW old \in SUBSET Records, Purge(old)
         PROVE  TypeOK'
    BY <1>10, TroubleIsNatural DEF Purge, Interferes, Rows, Status
  <1> QED BY <1>1, <1>2, <1>3, <1>4, <1>5, <1>6, <1>7, <1>8, <1>9, <1>10, <1>11, <1>12 DEF Next, Run, Peer

\* Every step sends, retries and records only rows of the outbox.
LEMMA WrittenStep ==
  ASSUME IInv, [Next]_vars
  PROVE  OnlyWritten'
  <1> USE DEF IInv, TypeOK, OnlyWritten, Idle
  <1>0. Written \subseteq Written' /\ With("pending") \subseteq Written /\ With("failed") \subseteq Written
    BY StepKeeps, KnownGrows DEF With, Written
  <1>1. CASE UNCHANGED vars
    BY <1>1 DEF vars, Written
  <1>2. ASSUME NEW r \in Records, NEW p \in Payloads, Enqueue(r, p)
        PROVE  OnlyWritten'
    BY <1>0, <1>2 DEF Enqueue
  <1>3. ASSUME NEW w \in Workers, Collect(w) \/ (\E h \in Handlers : Send(w, h))
        PROVE  OnlyWritten'
    BY <1>0, <1>3 DEF Collect, Send
  <1>4. ASSUME NEW w \in Workers, SendFails(w) \/ Dies(w)
        PROVE  OnlyWritten'
    <2>1. \A h \in Handlers : handler'[h].at # "free"
                                => handler[h].at # "free" /\ handler'[h].row = handler[h].row
      <3> TAKE h \in Handlers
      <3>1. handler[h] \in Requests
        OBVIOUS
      <3> QED BY <1>4, <3>1 DEF SendFails, Dies, Requests, Free
    <2>2. \A v \in Workers : worker'[v].todo \union worker'[v].good \union worker'[v].bad \subseteq Written
      <3>1. CASE SendFails(w)
        <4> PICK r \in worker[w].todo :
              worker' = [worker EXCEPT ![w].todo = @ \ {r}, ![w].bad = @ \union {r}]
          BY <3>1 DEF SendFails
        <4>1. r \in Written
          OBVIOUS
        <4> QED BY <4>1
      <3>2. CASE Dies(w)
        BY <3>2 DEF Dies
      <3> QED BY <1>4, <3>1, <3>2
    <2> QED BY <1>0, <1>4, <2>1, <2>2 DEF SendFails, Dies
  <1>5. ASSUME NEW w \in Workers, CommitBatch(w)
        PROVE  OnlyWritten'
    BY <1>0, <1>5 DEF CommitBatch
  <1>6. ASSUME NEW h \in Handlers, Duplicate(h) \/ Record(h)
        PROVE  OnlyWritten'
    <2>1. handler[h].row \in Written /\ handler[h].from \in Workers \union {NoWorker}
      BY <1>6 DEF Duplicate, Record, Requests, Free
    <2>2. \A v \in Workers : worker'[v].todo \union worker'[v].good \union worker'[v].bad \subseteq Written
      BY <1>6, <2>1 DEF Duplicate, Record, Answer
    <2>3. \A g \in Handlers : handler'[g].at # "free" => handler'[g].row \in Written
      BY <1>6 DEF Duplicate, Record, Answer, Free
    <2>4. \A r \in Records : inbound'[r] > 0 => r \in Written
      BY <1>6, <2>1 DEF Duplicate, Record
    <2> QED BY <1>0, <1>6, <2>2, <2>3, <2>4 DEF Duplicate, Record
  <1>7. ASSUME NEW h \in Handlers, LookUp(h) \/ Lost(h)
        PROVE  OnlyWritten'
    <2>1. \A g \in Handlers : handler'[g].at # "free"
                                => handler[g].at # "free" /\ handler'[g].row = handler[g].row
      <3> TAKE g \in Handlers
      <3>1. handler[g] \in Requests
        OBVIOUS
      <3> QED BY <1>7, <3>1 DEF LookUp, Lost, Requests, Free
    <2> QED BY <1>0, <1>7, <2>1 DEF LookUp, Lost
  <1>8. CASE ReadFailed \/ RetryFailed \/ Configure \/ IdentityLost
    BY <1>0, <1>8 DEF ReadFailed, RetryFailed, Configure, IdentityLost
  <1>9. ASSUME NEW old \in SUBSET Records, Purge(old)
        PROVE  OnlyWritten'
    BY <1>0, <1>9 DEF Purge
  <1> QED BY <1>1, <1>2, <1>3, <1>4, <1>5, <1>6, <1>7, <1>8, <1>9 DEF Next, Run, Peer

\* A worker holds as sent, and the table stamps and settles, only what the
\* peer knows.
LEMMA KnowledgeStep ==
  ASSUME IInv, [Next]_vars
  PROVE  GoodIsKnown' /\ StampedIsKnown' /\ SettledIsStamped'
  <1> USE DEF IInv, TypeOK, OnlyWritten, Idle
  <1>0. Known \subseteq Known' /\ Written \subseteq Written' /\ Keeps
    BY StepKeeps, KnownGrows
  <1>1. CASE UNCHANGED vars
    BY <1>1, QuietStep DEF vars
  <1>2. ASSUME NEW r \in Records, NEW p \in Payloads, Enqueue(r, p)
        PROVE  GoodIsKnown' /\ StampedIsKnown' /\ SettledIsStamped'
    <2>1. rows' = [rows EXCEPT ![r] = [status |-> "pending", stamped |-> FALSE, body |-> p,
                                       no |-> Cardinality(Records \ With("none")) + 1]]
      BY <1>2 DEF Enqueue
    <2>2. GoodIsKnown'
      <3>1. \A w \in Workers : worker'[w].good \subseteq Written
        BY <1>2 DEF Enqueue
      <3> QED BY <1>0, <1>2, <3>1 DEF Enqueue, GoodIsKnown, Keeps
    <2>3. StampedIsKnown'
      BY <1>0, <2>1 DEF StampedIsKnown, Keeps
    <2>4. SettledIsStamped'
      BY <2>1 DEF SettledIsStamped, With
    <2> QED BY <2>2, <2>3, <2>4
  <1>3. ASSUME NEW w \in Workers, Collect(w) \/ SendFails(w) \/ Dies(w)
        PROVE  GoodIsKnown' /\ StampedIsKnown' /\ SettledIsStamped'
    <2>1. UNCHANGED <<rows, inbound>>
      BY <1>3 DEF Collect, SendFails, Dies
    <2>2. \A v \in Workers : worker'[v].good \subseteq worker[v].good
      <3>1. CASE Collect(w)
        BY <3>1 DEF Collect
      <3>2. CASE SendFails(w)
        <4> PICK r \in worker[w].todo :
              worker' = [worker EXCEPT ![w].todo = @ \ {r}, ![w].bad = @ \union {r}]
          BY <3>2 DEF SendFails
        <4> QED OBVIOUS
      <3>3. CASE Dies(w)
        BY <3>3 DEF Dies
      <3> QED BY <1>3, <3>1, <3>2, <3>3
    <2> QED BY <2>1, <2>2, QuietStep
  <1>4. ASSUME NEW w \in Workers, NEW h \in Handlers, Send(w, h)
        PROVE  GoodIsKnown' /\ StampedIsKnown' /\ SettledIsStamped'
    BY <1>4, QuietStep DEF Send
  <1>5. ASSUME NEW w \in Workers, CommitBatch(w)
        PROVE  GoodIsKnown' /\ StampedIsKnown' /\ SettledIsStamped'
    <2>1. \A r \in Records : \/ rows'[r] = rows[r]
                             \/ rows'[r] = Marked(w, r) /\ r \in Written /\ r \notin With("purged")
      BY <1>5 DEF CommitBatch, Batch
    <2>2. \A r \in Records :
            /\ Marked(w, r).stamped => rows[r].stamped \/ r \in worker[w].good
            /\ Marked(w, r).status \in {"synced", "failed"}
            /\ Marked(w, r).status = "synced" => Marked(w, r).stamped
      BY DEF Marked, Rows, Status
    <2>3. GoodIsKnown'
      <3>1. \A v \in Workers : worker'[v].good \subseteq worker[v].good
        BY <1>5 DEF CommitBatch
      <3> QED BY <1>0, <3>1 DEF GoodIsKnown, Keeps
    <2>4. StampedIsKnown'
      <3> SUFFICES ASSUME NEW r \in Records, rows'[r].stamped
                   PROVE  r \in Written' /\ rows'[r].body \in Known'
        BY DEF StampedIsKnown
      <3>1. r \in Written /\ rows[r].body \in Known
        BY <2>1, <2>2 DEF StampedIsKnown, GoodIsKnown
      <3> QED BY <1>0, <3>1 DEF Keeps
    <2>5. SettledIsStamped'
      BY <2>1, <2>2 DEF SettledIsStamped, With
    <2> QED BY <2>3, <2>4, <2>5
  <1>6. ASSUME NEW h \in Handlers, Duplicate(h) \/ Record(h)
        PROVE  GoodIsKnown' /\ StampedIsKnown' /\ SettledIsStamped'
    <2>1. handler[h].row \in Written /\ handler[h].from \in Workers \union {NoWorker}
      BY <1>6 DEF Duplicate, Record, Requests, Free
    <2>2. rows' = rows
      BY <1>6 DEF Duplicate, Record
    <2>3. rows[handler[h].row].body \in Known'
      <3>1. CASE Duplicate(h)
        BY <1>0, <3>1 DEF Duplicate
      <3>2. CASE Record(h)
        <4>1. inbound'[handler[h].row] > 0
          BY <2>1, <3>2 DEF Record, Written
        <4> QED BY <2>1, <2>2, <4>1 DEF Known, Written
      <3> QED BY <1>6, <3>1, <3>2
    <2>4. \A v \in Workers : worker'[v].good \subseteq worker[v].good \union {handler[h].row}
      <3>1. Answer(h)
        BY <1>6 DEF Duplicate, Record
      <3>2. CASE handler[h].from = NoWorker
        BY <3>1, <3>2 DEF Answer
      <3>3. CASE handler[h].from # NoWorker
        BY <2>1, <3>1, <3>3 DEF Answer
      <3> QED BY <3>2, <3>3
    <2>5. GoodIsKnown'
      BY <1>0, <2>2, <2>3, <2>4 DEF GoodIsKnown
    <2>6. Written' = Written /\ \A s : With(s)' = With(s)
      BY <2>2 DEF Written, With
    <2> QED BY <1>0, <2>2, <2>5, <2>6 DEF StampedIsKnown, SettledIsStamped
  <1>7. ASSUME NEW h \in Handlers, LookUp(h) \/ Lost(h)
        PROVE  GoodIsKnown' /\ StampedIsKnown' /\ SettledIsStamped'
    BY <1>7, QuietStep DEF LookUp, Lost
  <1>8. CASE ReadFailed \/ Configure \/ IdentityLost
    BY <1>8, QuietStep DEF ReadFailed, Configure, IdentityLost
  <1>9. ASSUME RetryFailed \/ \E old \in SUBSET Records : Purge(old)
        PROVE  GoodIsKnown' /\ StampedIsKnown' /\ SettledIsStamped'
    <2>1. \A r \in Records : rows'[r].stamped = rows[r].stamped
      BY <1>9 DEF RetryFailed, Purge, Rows
    <2>2. \A r \in Records : rows'[r].status \in {"synced", "purged"}
                               => rows[r].status \in {"synced", "purged"} \/ rows[r].stamped
      BY <1>9 DEF RetryFailed, Purge, Rows
    <2>3. GoodIsKnown'
      BY <1>0, <1>9 DEF RetryFailed, Purge, GoodIsKnown, Keeps
    <2>4. StampedIsKnown'
      BY <1>0, <2>1 DEF StampedIsKnown, Keeps
    <2>5. SettledIsStamped'
      BY <2>1, <2>2 DEF SettledIsStamped, With
    <2> QED BY <2>3, <2>4, <2>5
  <1> QED BY <1>1, <1>2, <1>3, <1>4, <1>5, <1>6, <1>7, <1>8, <1>9 DEF Next, Run, Peer

\* The invariant holds in every state that Sync reaches.
THEOREM InvariantHolds == Spec => []IInv
  <1>1. IInv /\ [Next]_vars => IInv'
    BY TypeStep, WrittenStep, KnowledgeStep DEF IInv
  <1> QED BY <1>1, InitInv, PTL DEF Spec

\* Every variable of Sync keeps its type.
THEOREM TypeCorrect == Spec => []TypeOK
  <1>1. IInv => TypeOK
    BY DEF IInv
  <1> QED BY <1>1, InvariantHolds, PTL

\* No row that process_queue marked SYNCED or purge_old_sync deleted says
\* anything the peer does not hold.
THEOREM NothingIsLost == Spec => []NothingLost
  BY InvariantHolds, InvariantSuffices, PTL

-----------------------------------------------------------------------------
(* Sync implements Delivery *)

Announced == {<<r, rows[r].body>> : r \in Records \ With("none")}
Settled == {<<r, rows[r].body>> : r \in {s \in Records : rows[s].stamped}}

\* A step that writes no new row announces nothing, and can only add to what
\* is settled.
LEMMA AnnouncedStays ==
  ASSUME IInv, Keeps, Written' = Written,
         \A r \in Records : rows[r].stamped => rows'[r].stamped
  PROVE  Announced' = Announced /\ Settled \subseteq Settled'
  <1>1. Records \ With("none") = Written /\ (Records \ With("none"))' = Written'
    BY DEF With, Written
  <1>2. \A r \in Written : rows'[r].body = rows[r].body
    BY DEF Keeps
  <1>3. \A r \in Records : rows[r].stamped => r \in Written
    BY DEF IInv, StampedIsKnown
  <1> QED BY <1>1, <1>2, <1>3 DEF Announced, Settled

\* The step that leaves rows and the peer's records alone is a stutter.
LEMMA QuietStutters ==
  ASSUME UNCHANGED <<rows, inbound>>
  PROVE  UNCHANGED <<Announced, Known, Settled>>
  BY DEF Announced, Known, Settled, With

\* Every step of Sync is a step of Delivery or a stutter.
LEMMA StepSimulates ==
  ASSUME IInv, IInv', [Next]_vars
  PROVE  [Abs!DeliveryNext]_<<Announced, Known, Settled>>
  <1> USE DEF IInv, TypeOK
  <1>0. Known \subseteq Known' /\ Written \subseteq Written' /\ Keeps
    BY StepKeeps, KnownGrows
  <1>1. CASE UNCHANGED vars
    BY <1>1, QuietStutters DEF vars
  <1>2. ASSUME NEW r \in Records, NEW p \in Payloads, Enqueue(r, p)
        PROVE  Abs!DeliveryNext
    <2>1. rows' = [rows EXCEPT ![r] = [status |-> "pending", stamped |-> FALSE, body |-> p,
                                       no |-> Cardinality(Records \ With("none")) + 1]]
      BY <1>2 DEF Enqueue
    <2>2. r \notin Written /\ ~rows[r].stamped /\ ~(inbound[r] > 0)
      BY <1>2 DEF Enqueue, Written, StampedIsKnown, OnlyWritten
    <2>3. Announced' = Announced \union {<<r, p>>}
      BY <2>1, <2>2 DEF Announced, With, Written
    <2>4. \A q \in Payloads : <<r, q>> \notin Announced
      BY <2>2 DEF Announced, With, Written
    <2>5. Settled' = Settled
      BY <2>1, <2>2 DEF Settled
    <2>6. Known' = Known
      BY <1>2, <2>1, <2>2 DEF Enqueue, Known
    <2>7. Abs!Announce(r, p)
      BY <2>3, <2>4, <2>5, <2>6 DEF Abs!Announce, Announced, Settled
    <2> QED BY <2>7 DEF Abs!DeliveryNext
  <1>3. ASSUME NEW w \in Workers,
               Collect(w) \/ SendFails(w) \/ Dies(w) \/ \E h \in Handlers : Send(w, h)
        PROVE  UNCHANGED <<Announced, Known, Settled>>
    BY <1>3, QuietStutters DEF Collect, SendFails, Dies, Send
  <1>4. ASSUME NEW w \in Workers, CommitBatch(w)
        PROVE  Abs!DeliveryNext
    <2>1. \A r \in Records : /\ rows[r].stamped => rows'[r].stamped
                             /\ rows'[r].status = "none" <=> rows[r].status = "none"
      <3>1. \A r \in Batch(w) : r \in Written
        BY DEF Batch, OnlyWritten
      <3>2. \A r \in Records : /\ rows[r].stamped => Marked(w, r).stamped
                               /\ Marked(w, r).status # "none"
        BY DEF Marked, Rows
      <3>3. \A r \in Records : rows'[r] = rows[r] \/ (r \in Batch(w) /\ rows'[r] = Marked(w, r))
        BY <1>4 DEF CommitBatch
      <3> QED BY <3>1, <3>2, <3>3 DEF Written
    <2>2. Written' = Written
      BY <2>1 DEF Written
    <2>3. Announced' = Announced /\ Settled \subseteq Settled'
      BY <1>0, <2>1, <2>2, AnnouncedStays
    <2>4. Known' = Known
      <3>1. \A r \in Records : inbound[r] > 0 => rows'[r].body = rows[r].body
        BY <1>0 DEF Keeps, OnlyWritten
      <3> QED BY <1>4, <3>1 DEF CommitBatch, Known
    <2>5. Settled' \in SUBSET Announced /\ \A a \in Settled' : a[2] \in Known
      BY <2>3, <2>4 DEF StampedIsKnown, Settled, Announced, With, Written
    <2> PICK batch \in SUBSET Announced : batch = Settled'
      BY <2>5
    <2>6. Abs!Settle(batch)
      BY <2>3, <2>4, <2>5 DEF Abs!Settle, Announced, Settled
    <2> QED BY <2>6 DEF Abs!DeliveryNext, Announced
  <1>5. ASSUME NEW h \in Handlers, Duplicate(h) \/ LookUp(h) \/ Lost(h)
        PROVE  UNCHANGED <<Announced, Known, Settled>>
    BY <1>5, QuietStutters DEF Duplicate, LookUp, Lost
  <1>6. ASSUME NEW h \in Handlers, Record(h)
        PROVE  Abs!DeliveryNext
    <2> DEFINE r == handler[h].row
    <2>1. r \in Written
      BY <1>6 DEF Record, OnlyWritten
    <2>2. rows' = rows /\ inbound' = [inbound EXCEPT ![r] = @ + 1]
      BY <1>6 DEF Record
    <2>3. Known' = Known \union {rows[r].body}
      BY <2>1, <2>2 DEF Known, Written
    <2>4. Announced' = Announced /\ Settled' = Settled
      BY <2>2 DEF Announced, Settled, With
    <2>5. <<r, rows[r].body>> \in Announced /\ r \in Records /\ rows[r].body \in Payloads
      BY <2>1 DEF Announced, With, Written, Rows
    <2>6. Abs!Learn(rows[r].body)
      BY <2>3, <2>4, <2>5 DEF Abs!Learn, Announced, Settled
    <2> QED BY <2>5, <2>6 DEF Abs!DeliveryNext
  <1>7. CASE ReadFailed \/ Configure \/ IdentityLost
    BY <1>7, QuietStutters DEF ReadFailed, Configure, IdentityLost
  <1>8. ASSUME RetryFailed \/ \E old \in SUBSET Records : Purge(old)
        PROVE  UNCHANGED <<Announced, Known, Settled>>
    <2>1. \A r \in Records : /\ rows'[r].stamped = rows[r].stamped
                             /\ rows'[r].body = rows[r].body
      BY <1>8 DEF RetryFailed, Purge, Rows
    <2>2. \A r \in Records : rows'[r].status = "none" <=> rows[r].status = "none"
      <3>1. \A r \in failed : rows[r].status # "none"
        BY DEF OnlyWritten, Written
      <3>2. \A r \in Records : rows[r].stamped => rows[r].status # "none"
        BY DEF StampedIsKnown, Written
      <3> QED BY <1>8, <3>1, <3>2 DEF RetryFailed, Purge, Rows
    <2>3. inbound' = inbound
      BY <1>8 DEF RetryFailed, Purge
    <2> QED BY <2>1, <2>2, <2>3 DEF Announced, Known, Settled, With
  <1> QED BY <1>1, <1>2, <1>3, <1>4, <1>5, <1>6, <1>7, <1>8 DEF Next, Run, Peer

\* The initial states of Sync are initial states of Delivery.
LEMMA InitSimulates == Init => Abs!DeliveryInit
  BY DEF Init, Abs!DeliveryInit, Known, With, NoRow

\* process_queue, retry_failed, purge_old_sync and apply_sync_payload together
\* keep the promise of Delivery.
THEOREM SyncImplementsDelivery == Spec => ImplementsDelivery
  <1>1. IInv /\ IInv' /\ [Next]_vars => [Abs!DeliveryNext]_<<Announced, Known, Settled>>
    BY StepSimulates
  <1>2. Spec => [][Abs!DeliveryNext]_<<Announced, Known, Settled>>
    BY <1>1, InvariantHolds, PTL DEF Spec
  <1> QED BY <1>2, InitSimulates, PTL DEF Spec, ImplementsDelivery, Abs!DeliverySpec, Announced, Settled

-----------------------------------------------------------------------------
(* Copies at the peer *)

\* The requests that looked payload p up, missed it, and will write it.
Writers(p) == {h \in Handlers : handler[h].at = "new" /\ rows[handler[h].row].body = p}

\* Every copy was written by one of the requests that missed the payload; those
\* were all under way before the first copy was there to be found.
CopiesHaveWriters ==
    \A p \in Payloads :
        /\ IsFiniteSet(Copies(p))
        /\ Cardinality(Copies(p)) + Cardinality(Writers(p)) <= Cardinality(Handlers)

LEMMA WritersAreFinite ==
  ASSUME NEW p
  PROVE  /\ IsFiniteSet(Writers(p))
         /\ Cardinality(Writers(p)) \in Nat
         /\ Cardinality(Handlers) \in Nat
         /\ Cardinality(Writers(p)) <= Cardinality(Handlers)
  <1>1. Writers(p) \subseteq Handlers
    BY DEF Writers
  <1> QED BY <1>1, HandlersAreFinite, FS_Subset, FS_CardinalityType

\* A step that records nothing, and makes no request a writer.
LEMMA CalmStep ==
  ASSUME IInv, Keeps, CopiesHaveWriters, inbound' = inbound,
         \A h \in Handlers : handler'[h].at = "new"
                               => handler[h].at = "new" /\ handler'[h].row = handler[h].row
  PROVE  CopiesHaveWriters'
  <1> SUFFICES ASSUME NEW p \in Payloads
               PROVE  /\ IsFiniteSet(Copies(p))'
                      /\ (Cardinality(Copies(p)) + Cardinality(Writers(p)) <= Cardinality(Handlers))'
    BY DEF CopiesHaveWriters
  <1>1. \A r \in Records : inbound[r] > 0 => rows'[r].body = rows[r].body
    BY DEF IInv, OnlyWritten, Keeps
  <1>2. \A r \in Records : inbound[r] \in Nat
    BY DEF IInv, TypeOK
  <1>3. Copies(p)' = Copies(p)
    <2>1. \A r \in Records, k \in Nat : k \in 1..inbound[r] => inbound[r] > 0
      BY <1>2
    <2> QED BY <1>1, <1>2, <2>1 DEF Copies
  <1>4. Writers(p)' \subseteq Writers(p)
    <2>1. \A h \in Handlers : handler[h].at = "new"
                                => rows'[handler[h].row].body = rows[handler[h].row].body
      BY DEF IInv, OnlyWritten, Keeps
    <2> QED BY <2>1 DEF Writers
  <1>5. Cardinality(Writers(p)') <= Cardinality(Writers(p)) /\ Cardinality(Writers(p)') \in Nat
    BY <1>4, WritersAreFinite, FS_Subset, FS_CardinalityType
  <1>6. Cardinality(Copies(p)) \in Nat
    BY FS_CardinalityType DEF CopiesHaveWriters
  <1> QED BY <1>3, <1>5, <1>6, WritersAreFinite DEF CopiesHaveWriters

\* A request becomes a writer of a payload only while there is no copy of it.
LEMMA LookUpStep ==
  ASSUME IInv, CopiesHaveWriters, NEW h \in Handlers, LookUp(h)
  PROVE  CopiesHaveWriters'
  <1> SUFFICES ASSUME NEW p \in Payloads
               PROVE  /\ IsFiniteSet(Copies(p))'
                      /\ (Cardinality(Copies(p)) + Cardinality(Writers(p)) <= Cardinality(Handlers))'
    BY DEF CopiesHaveWriters
  <1>1. Copies(p)' = Copies(p)
    BY DEF LookUp, Copies
  <1>2. \A g \in Handlers : g # h => handler'[g] = handler[g]
    BY DEF LookUp, IInv, TypeOK
  <1>3. handler'[h].row = handler[h].row /\ rows' = rows
    BY DEF LookUp, IInv, TypeOK, Requests, Free
  <1>4. CASE rows[handler[h].row].body = p
    <2>1. \A r \in Records : rows[r].body = p => ~(inbound[r] > 0)
      BY <1>4 DEF LookUp, Known
    <2>2. Copies(p) = {}
      BY <2>1 DEF Copies, IInv, TypeOK
    <2>3. Writers(p)' \subseteq Handlers
      BY DEF Writers
    <2>4. Cardinality(Writers(p)') <= Cardinality(Handlers) /\ Cardinality(Writers(p)') \in Nat
      BY <2>3, HandlersAreFinite, FS_Subset, FS_CardinalityType
    <2> QED BY <1>1, <2>2, <2>4, FS_EmptySet
  <1>5. CASE rows[handler[h].row].body # p
    <2>1. Writers(p)' = Writers(p)
      BY <1>2, <1>3, <1>5 DEF Writers
    <2> QED BY <1>1, <2>1 DEF CopiesHaveWriters
  <1> QED BY <1>4, <1>5

\* A writer that records its payload turns into a copy of it.
LEMMA RecordStep ==
  ASSUME IInv, CopiesHaveWriters, NEW h \in Handlers, Record(h)
  PROVE  CopiesHaveWriters'
  <1> DEFINE r == handler[h].row
             c == <<r, inbound[r] + 1>>
  <1>1. /\ r \in Records /\ rows' = rows /\ handler[h].at = "new"
        /\ inbound' = [inbound EXCEPT ![r] = @ + 1]
        /\ handler' = [handler EXCEPT ![h] = Free]
    BY DEF Record, Answer, IInv, OnlyWritten, Written
  <1>2. \A s \in Records : inbound[s] \in Nat
                             /\ inbound'[s] = IF s = r THEN inbound[s] + 1 ELSE inbound[s]
    BY <1>1 DEF IInv, TypeOK
  <1>3. ASSUME NEW p \in Payloads
        PROVE  /\ IsFiniteSet(Copies(p))'
               /\ (Cardinality(Copies(p)) + Cardinality(Writers(p)) <= Cardinality(Handlers))'
    <2>1. CASE rows[r].body = p
      <3>1. Copies(p)' = Copies(p) \union {c}
        <4>1. ASSUME NEW s \in Records
              PROVE  {s} \X (1..inbound'[s])
                        = IF s = r THEN ({s} \X (1..inbound[s])) \union {c} ELSE {s} \X (1..inbound[s])
          BY <1>2
        <4> QED BY <1>1, <2>1, <4>1 DEF Copies
      <3>2. c \notin Copies(p)
        BY <1>2 DEF Copies
      <3>3. /\ IsFiniteSet(Copies(p)')
            /\ Cardinality(Copies(p)') = Cardinality(Copies(p)) + 1
        BY <3>1, <3>2, FS_AddElement DEF CopiesHaveWriters
      <3>4. h \in Writers(p) /\ Writers(p)' = Writers(p) \ {h}
        BY <1>1, <2>1 DEF Writers, Free, IInv, TypeOK
      <3>5. Cardinality(Writers(p)') = Cardinality(Writers(p)) - 1
        BY <3>4, WritersAreFinite, FS_RemoveElement
      <3>6. Cardinality(Copies(p)) \in Nat
        BY FS_CardinalityType DEF CopiesHaveWriters
      <3>7. Cardinality(Copies(p)) + Cardinality(Writers(p)) <= Cardinality(Handlers)
        BY DEF CopiesHaveWriters
      <3> QED BY <3>3, <3>5, <3>6, <3>7, WritersAreFinite
    <2>2. CASE rows[r].body # p
      <3>1. Copies(p)' = Copies(p)
        BY <1>1, <1>2, <2>2 DEF Copies
      <3>2. Writers(p)' = Writers(p)
        BY <1>1, <2>2 DEF Writers, Free, IInv, TypeOK
      <3> QED BY <3>1, <3>2 DEF CopiesHaveWriters
    <2> QED BY <2>1, <2>2
  <1> QED BY <1>3 DEF CopiesHaveWriters

LEMMA CopiesStep ==
  ASSUME IInv, CopiesHaveWriters, [Next]_vars
  PROVE  CopiesHaveWriters'
  <1> USE DEF IInv, TypeOK
  <1>0. Keeps
    BY StepKeeps
  <1>1. CASE UNCHANGED vars
    BY <1>0, <1>1, CalmStep DEF vars
  <1>2. ASSUME NEW r \in Records, NEW p \in Payloads, Enqueue(r, p)
        PROVE  CopiesHaveWriters'
    BY <1>0, <1>2, CalmStep DEF Enqueue
  <1>3. ASSUME NEW w \in Workers, Collect(w) \/ CommitBatch(w)
        PROVE  CopiesHaveWriters'
    BY <1>0, <1>3, CalmStep DEF Collect, CommitBatch
  <1>4. ASSUME NEW w \in Workers, NEW h \in Handlers, Send(w, h)
        PROVE  CopiesHaveWriters'
    BY <1>0, <1>4, CalmStep DEF Send
  <1>5. ASSUME NEW w \in Workers, SendFails(w) \/ Dies(w)
        PROVE  CopiesHaveWriters'
    <2>1. \A g \in Handlers : handler'[g].at = "new"
                                => handler[g].at = "new" /\ handler'[g].row = handler[g].row
      <3> TAKE g \in Handlers
      <3>1. handler[g] \in Requests
        OBVIOUS
      <3> QED BY <1>5, <3>1 DEF SendFails, Dies, Requests, Free
    <2> QED BY <1>0, <1>5, <2>1, CalmStep DEF SendFails, Dies
  <1>6. ASSUME NEW h \in Handlers, Duplicate(h) \/ Lost(h)
        PROVE  CopiesHaveWriters'
    BY <1>0, <1>6, CalmStep DEF Duplicate, Answer, Lost, Free
  <1>7. CASE \/ ReadFailed \/ RetryFailed \/ Configure \/ IdentityLost
             \/ \E old \in SUBSET Records : Purge(old)
    BY <1>0, <1>7, CalmStep DEF ReadFailed, RetryFailed, Configure, IdentityLost, Purge
  <1> QED BY <1>1, <1>2, <1>3, <1>4, <1>5, <1>6, <1>7, LookUpStep, RecordStep DEF Next, Run, Peer

\* apply_sync_payload looks a payload up and writes it without a lock: the peer
\* may hold it more than once, but no more often than requests ran side by side.
THEOREM CopiesStayConcurrent == Spec => []CopiesAreConcurrent
  <1>1. Init => CopiesHaveWriters
    <2> SUFFICES ASSUME Init, NEW p \in Payloads
                 PROVE  Copies(p) = {} /\ Writers(p) = {}
      BY FS_EmptySet, WritersAreFinite DEF CopiesHaveWriters
    <2> QED BY DEF Init, Copies, Writers, Free
  <1>2. CopiesHaveWriters => CopiesAreConcurrent
    <2> SUFFICES ASSUME CopiesHaveWriters, NEW p \in Payloads
                 PROVE  Cardinality(Copies(p)) <= Cardinality(Handlers)
      BY DEF CopiesAreConcurrent
    <2>1. Cardinality(Copies(p)) \in Nat
      BY FS_CardinalityType DEF CopiesHaveWriters
    <2> QED BY <2>1, WritersAreFinite DEF CopiesHaveWriters
  <1> QED BY <1>1, <1>2, CopiesStep, InvariantHolds, PTL DEF Spec
=============================================================================
