-------------------------- MODULE AttendanceProofs --------------------------
(***************************************************************************)
(* What the phone and the school server promise a teacher, for any roster, *)
(* any number of saves, requests and interferences.                        *)
(***************************************************************************)
EXTENDS Attendance, TLAPS

\* The operations the teacher has saved.
SavedOps == {op \in Ops : \A s \in Students : saved[op][s] \in Mark}
AllMarked == \A s \in Students : marks[s] # "none"
Answers(op) == \E how \in {"done", "refused"} : <<op, how>> \in settled

\* Only saved operations are submitted, queued, drained and answered.
OnlySaved ==
    /\ \A v \in Saves : /\ save[v].at # "idle" => save[v].op \in SavedOps
                        /\ save[v].at = "queue" => save[v].read \subseteq SavedOps
    /\ \A q \in Requests : request[q].at # "free" => request[q].op \in SavedOps
    /\ store \union queued \union keys \union Done \subseteq SavedOps
    /\ \A d \in Drains : drain[d].at = "drain" => drain[d].todo \union drain[d].kept \subseteq SavedOps

\* Who waits for a request is still there, and waits for that operation.
StillWaiting ==
    \A q \in Requests : request[q].at # "free" =>
        /\ request[q].from \in Saves => save[request[q].from].at = "submit"
        /\ request[q].from \in Drains =>
             drain[request[q].from].at = "drain" /\ request[q].op \in drain[request[q].from].todo
        /\ \A p \in Requests \ {q} :
             request[p].at # "free" /\ request[p].from # Nobody => request[p].from # request[q].from

\* What a request has done when it comes to its next commit.
RequestsDo ==
    \A q \in Requests, op \in Ops : request[q].at # "free" /\ request[q].op = op =>
        /\ request[q].at = "checked" => \A s \in Students \ request[q].left : marks[s] # "none"
        /\ request[q].at = "marked" => AllMarked /\ Absent(op) \ request[q].left \subseteq told

\* A stored response is that of a request that has done everything.
KeysAreDone == \A op \in keys : AllMarked /\ Absent(op) \subseteq told
DoneIsDone == \A op \in Done : AllMarked /\ Absent(op) \subseteq told

\* No copy of the queue in memory misses an operation it would overwrite.
CopiesAreComplete ==
    \A op \in queued \ exposed :
        /\ \A v \in Saves : save[v].at = "queue" => op \in save[v].read \/ Answers(op)
        /\ \A d \in Drains : drain[d].at = "drain" => op \in drain[d].todo \union drain[d].kept \/ Answers(op)

IInv ==
    /\ TypeOK /\ OnlySaved /\ StillWaiting /\ RequestsDo /\ KeysAreDone /\ DoneIsDone
    /\ CopiesAreComplete /\ KeptUntilAnswered

\* The initial states satisfy the invariant.
LEMMA InitInv == Init => IInv
  BY OutagesAreNatural
     DEF Init, IInv, TypeOK, OnlySaved, StillWaiting, RequestsDo, KeysAreDone, DoneIsDone,
         CopiesAreComplete, KeptUntilAnswered, Idle, Free, Unmarked, RequestType, Done

\* A request that changes hands, or comes to its next commit, remains one.
LEMMA RequestChanges ==
  ASSUME NEW r \in RequestType, r.at # "free"
  PROVE  /\ r.op \in Ops /\ r.left \subseteq Students
         /\ [r EXCEPT !.from = Nobody] \in RequestType
         /\ \A at \in {"checked", "marked", "failed"} : [r EXCEPT !.at = at] \in RequestType
         /\ \A at : [r EXCEPT !.at = at].op = r.op /\ [r EXCEPT !.at = at].from = r.from
         /\ \A left \in SUBSET Students :
              /\ [r EXCEPT !.left = left] \in RequestType
              /\ \A at \in {"checked", "marked", "failed"} :
                   [r EXCEPT !.at = at, !.left = left] \in RequestType
  <1>1. r \in [at : {"received", "checked", "marked", "failed"}, op : Ops, key : BOOLEAN,
               from : Senders \union {Nobody}, left : SUBSET Students]
    BY DEF RequestType, Free
  <1> QED BY <1>1 DEF RequestType

\* Every step keeps the types.
LEMMA TypeStep ==
  ASSUME TypeOK, StillWaiting, [Next]_vars
  PROVE  TypeOK'
  <1> USE OutagesAreNatural DEF TypeOK, phone, server, Idle, Free
  <1> DEFINE SaveType == {Idle} \union [at : {"submit"}, op : Ops]
                                \union [at : {"queue"}, op : Ops, read : SUBSET Ops]
             DrainType == {Idle} \union [at : {"drain"}, todo : SUBSET Ops, kept : SUBSET Ops]
  <1>0. save \in [Saves -> SaveType] /\ drain \in [Drains -> DrainType]
    OBVIOUS
  <1>1. CASE UNCHANGED vars
    BY <1>1 DEF vars
  <1>2. ASSUME NEW v \in Saves, NEW m \in Rolls, Save(v, m)
        PROVE  TypeOK'
    <2>1. PICK op \in Ops : saved' = [saved EXCEPT ![op] = m] /\ save' = [save EXCEPT ![v] = [at |-> "submit", op |-> op]]
      BY <1>2 DEF Save
    <2>2. saved' \in [Ops -> [Students -> Mark \union {"none"}]]
      BY <2>1, RollsMark
    <2>3. save' \in [Saves -> SaveType]
      BY <2>1
    <2> QED BY <1>2, <2>2, <2>3 DEF Save
  <1>3. ASSUME NEW q \in Requests,
               (\E v \in Saves : SaveSends(v, q)) \/ (\E d \in Drains : DrainSends(d, q))
        PROVE  TypeOK'
    <2>1. ASSUME NEW v \in Saves, SaveSends(v, q)
          PROVE  TypeOK'
      <3>1. save[v].op \in Ops
        BY <2>1 DEF SaveSends
      <3>2. [at |-> "received", op |-> save[v].op, key |-> FALSE, from |-> v, left |-> {}] \in RequestType
        BY <3>1 DEF RequestType, Senders
      <3> QED BY <2>1, <3>2 DEF SaveSends, Post
    <2>2. ASSUME NEW d \in Drains, DrainSends(d, q)
          PROVE  TypeOK'
      <3> PICK op \in Ops : Post(q, d, op, TRUE)
        BY <2>2 DEF DrainSends
      <3>2. [at |-> "received", op |-> op, key |-> TRUE, from |-> d, left |-> {}] \in RequestType
        BY DEF RequestType, Senders
      <3> QED BY <2>2, <3>2 DEF DrainSends, Post
    <2> QED BY <1>3, <2>1, <2>2
  <1>4. ASSUME NEW who
        PROVE  Orphaned(who) \in [Requests -> RequestType]
    <2>1. ASSUME NEW q \in Requests, request[q].at # "free"
          PROVE  [request[q] EXCEPT !.from = Nobody] \in RequestType
      BY <2>1, RequestChanges
    <2> QED BY <2>1 DEF Orphaned
  <1>5. ASSUME NEW v \in Saves, SaveEnds(v)
        PROVE  TypeOK'
    BY <1>5 DEF SaveEnds
  <1>6. ASSUME NEW v \in Saves, SaveFails(v) \/ ReadFails(v)
        PROVE  TypeOK'
    <2>1. PICK read \in SUBSET Ops : Reads(v, read)
      BY <1>6 DEF SaveFails, ReadFails
    <2>2. save[v].op \in Ops
      BY <2>1 DEF Reads
    <2>3. [at |-> "queue", op |-> save[v].op, read |-> read] \in SaveType
      BY <2>2
    <2>4. save' \in [Saves -> SaveType] /\ request' \in [Requests -> RequestType]
      BY <1>4, <2>1, <2>3 DEF Reads
    <2>5. exposed' \in SUBSET Ops /\ outages' \in 0..MaxOutages
      BY <1>6 DEF SaveFails, ReadFails, Outage
    <2> QED BY <2>1, <2>4, <2>5 DEF Reads
  <1>7. ASSUME NEW v \in Saves, Enqueue(v)
        PROVE  TypeOK'
    <2>1. save[v].op \in Ops /\ save[v].read \subseteq Ops
      BY <1>7 DEF Enqueue
    <2> QED BY <1>7, <2>1 DEF Enqueue
  <1>8. ASSUME NEW d \in Drains, DrainStarts(d) \/ DrainAborts(d) \/ DrainEnds(d)
        PROVE  TypeOK'
    <2>1. CASE DrainStarts(d)
      BY <2>1 DEF DrainStarts
    <2>2. CASE DrainAborts(d)
      BY <2>2 DEF DrainAborts
    <2>3. CASE DrainEnds(d)
      <3>1. drain[d].kept \subseteq Ops
        BY <2>3 DEF DrainEnds
      <3> QED BY <2>3, <3>1 DEF DrainEnds
    <2> QED BY <1>8, <2>1, <2>2, <2>3
  <1>9. ASSUME NEW d \in Drains, DrainKeeps(d)
        PROVE  TypeOK'
    <2> PICK op \in Ops : Due(d, op) /\ drain' = [drain EXCEPT ![d].todo = @ \ {op}, ![d].kept = @ \union {op}]
      BY <1>9 DEF DrainKeeps
    <2>1. drain[d] \in [at : {"drain"}, todo : SUBSET Ops, kept : SUBSET Ops]
      BY DEF Due
    <2>2. [drain[d] EXCEPT !.todo = @ \ {op}, !.kept = @ \union {op}] \in DrainType
      BY <2>1
    <2>3. drain' = [drain EXCEPT ![d] = [drain[d] EXCEPT !.todo = @ \ {op}, !.kept = @ \union {op}]]
      BY <1>0, <2>1
    <2>4. drain' \in [Drains -> DrainType]
      BY <1>0, <2>2, <2>3
    <2> QED BY <1>9, <1>4, <2>4 DEF DrainKeeps
  <1>10. CASE Killed
    <2>1. request' \in [Requests -> RequestType]
      <3>1. ASSUME NEW q \in Requests, request[q].at # "free"
            PROVE  [request[q] EXCEPT !.from = Nobody] \in RequestType
        BY <3>1, RequestChanges
      <3> QED BY <1>10, <3>1 DEF Killed
    <2> QED BY <1>10, <2>1 DEF Killed, Outage
  <1>11. ASSUME NEW q \in Requests, NEW how \in {"done", "refused"},
                request[q].at # "free", Answered(q, how)
         PROVE  /\ request' \in [Requests -> RequestType]
                /\ save' \in [Saves -> SaveType]
                /\ drain' \in [Drains -> DrainType]
                /\ settled' \in SUBSET (Ops \X {"done", "refused"})
    <2>1. request[q].op \in Ops
      BY <1>11 DEF RequestType
    <2>2. request' \in [Requests -> RequestType]
      BY <1>11 DEF Answered, RequestType
    <2>3. ASSUME NEW d \in Drains, request[q].from = d
          PROVE  [drain[d] EXCEPT !.todo = @ \ {request[q].op}] \in DrainType
      <3>1. drain[d] \in [at : {"drain"}, todo : SUBSET Ops, kept : SUBSET Ops]
        BY <1>11, <2>3 DEF StillWaiting
      <3> QED BY <3>1
    <2>4. drain' \in [Drains -> DrainType]
      BY <1>0, <1>11, <2>3 DEF Answered
    <2>5. settled' \in SUBSET (Ops \X {"done", "refused"})
      BY <1>11, <2>1 DEF Answered
    <2> QED BY <1>11, <2>2, <2>4, <2>5 DEF Answered
  <1>12. ASSUME NEW q \in Requests, TurnAway(q) \/ Replay(q) \/ Refuse(q)
         PROVE  TypeOK'
    <2>1. UNCHANGED <<saved, store, open, server, queued, exposed>> /\ outages' \in 0..MaxOutages
      BY <1>12 DEF TurnAway, Replay, Refuse, Answered, Outage
    <2>2. request[q].at # "free"
      BY <1>12 DEF TurnAway, Replay, Refuse, Fresh
    <2>3. Answered(q, "done") \/ Answered(q, "refused")
      BY <1>12 DEF TurnAway, Replay, Refuse
    <2> QED BY <2>1, <2>2, <2>3, <1>11
  <1>13. ASSUME NEW q \in Requests, Check(q)
         PROVE  TypeOK'
    <2>1. request[q].at # "free" /\ {s \in Students : marks[s] = "none"} \in SUBSET Students
      BY <1>13 DEF Check, Fresh
    <2>2. [request[q] EXCEPT !.at = "checked", !.left = {s \in Students : marks[s] = "none"}] \in RequestType
      BY <2>1, RequestChanges
    <2> QED BY <1>13, <2>2 DEF Check
  <1>14. ASSUME NEW q \in Requests, CommitMarks(q)
         PROVE  TypeOK'
    <2>1. request[q].op \in Ops /\ request[q].at = "checked"
      BY <1>14 DEF CommitMarks, RequestType
    <2>2. request' \in [Requests -> RequestType]
      <3>1. /\ [request[q] EXCEPT !.at = "failed"] \in RequestType
            /\ [request[q] EXCEPT !.at = "marked", !.left = Absent(request[q].op)] \in RequestType
        BY <2>1, RequestChanges DEF Absent
      <3> QED BY <1>14, <3>1 DEF CommitMarks
    <2>3. marks' \in [Students -> Mark \union {"none"}]
      BY <1>14, <2>1 DEF CommitMarks
    <2> QED BY <1>14, <2>2, <2>3 DEF CommitMarks
  <1>15. ASSUME NEW q \in Requests, NEW s \in Students, Notify(q, s)
         PROVE  TypeOK'
    <2>1. request[q].at # "free" /\ request[q].left \ {s} \in SUBSET Students
      BY <1>15 DEF Notify, RequestType
    <2>2. [request[q] EXCEPT !.left = request[q].left \ {s}] \in RequestType
      BY <2>1, RequestChanges
    <2>3. request' = [request EXCEPT ![q] = [request[q] EXCEPT !.left = request[q].left \ {s}]]
      BY <1>15 DEF Notify
    <2> QED BY <1>15, <2>2, <2>3 DEF Notify
  <1>16. ASSUME NEW q \in Requests, StoreResponse(q)
         PROVE  TypeOK'
    <2>1. request[q].op \in Ops /\ request[q].at # "free"
      BY <1>16 DEF StoreResponse, RequestType
    <2>2. CASE request[q].key /\ request[q].op \in keys
      <3>1. [request[q] EXCEPT !.at = "failed"] \in RequestType
        BY <2>1, RequestChanges
      <3> QED BY <1>16, <2>2, <3>1 DEF StoreResponse
    <2>3. CASE ~(request[q].key /\ request[q].op \in keys)
      <3>1. Answered(q, "done") /\ keys' \in SUBSET Ops
        BY <1>16, <2>1, <2>3 DEF StoreResponse
      <3> QED BY <1>16, <2>1, <3>1, <1>11 DEF StoreResponse, Answered
    <2> QED BY <2>2, <2>3
  <1>17. ASSUME NEW q \in Requests, Gone(q)
         PROVE  TypeOK'
    <2>1. outages' \in 0..MaxOutages
      BY <1>17 DEF Gone, Outage
    <2> QED BY <1>17, <2>1 DEF Gone, RequestType
  <1>18. ASSUME NEW s \in Students, Scan(s) \/ \E m \in Mark : Patch(s, m)
         PROVE  TypeOK'
    BY <1>18 DEF Scan, Patch, Outage, Mark
  <1>19. CASE WindowTurns
    BY <1>19 DEF WindowTurns, Outage
  <1> QED BY <1>1, <1>2, <1>3, <1>5, <1>6, <1>7, <1>8, <1>9, <1>10, <1>12, <1>13, <1>14, <1>15,
             <1>16, <1>17, <1>18, <1>19 DEF Next, Phone, Server

\* What no step takes back: what was saved, marked, told, answered and stored.
Keeps ==
    /\ SavedOps \subseteq SavedOps' /\ \A op \in SavedOps : Absent(op)' = Absent(op)
    /\ \A s \in Students : marks[s] # "none" => marks'[s] # "none"
    /\ told \subseteq told' /\ keys \subseteq keys' /\ settled \subseteq settled' /\ exposed \subseteq exposed'

LEMMA StepKeeps ==
  ASSUME TypeOK, OnlySaved, [Next]_vars
  PROVE  Keeps
  <1> USE DEF TypeOK, Keeps, SavedOps, Absent, phone, server
  <1>1. CASE UNCHANGED vars
    BY <1>1 DEF vars
  <1>2. ASSUME NEW v \in Saves, NEW m \in Rolls, Save(v, m)
        PROVE  Keeps
    <2>0. m \in [Students -> Mark]
      BY RollsMark
    <2> PICK op \in Ops : saved[op] = Unmarked /\ saved' = [saved EXCEPT ![op] = m]
      BY <1>2 DEF Save
    <2>1. ASSUME NEW p \in SavedOps
          PROVE  p \in SavedOps' /\ Absent(p)' = Absent(p)
      <3>1. CASE p # op
        BY <2>1, <3>1
      <3>2. CASE p = op
        <4>1. Students = {}
          BY <2>1, <3>2 DEF Unmarked, Mark
        <4> QED BY <4>1
      <3> QED BY <3>1, <3>2
    <2> QED BY <1>2, <2>1 DEF Save
  <1>3. CASE \E q \in Requests : (\E v \in Saves : SaveSends(v, q)) \/ (\E d \in Drains : DrainSends(d, q))
    BY <1>3 DEF SaveSends, DrainSends
  <1>4. CASE \/ \E v \in Saves : SaveEnds(v) \/ SaveFails(v) \/ ReadFails(v) \/ Enqueue(v)
             \/ \E d \in Drains : DrainStarts(d) \/ DrainKeeps(d) \/ DrainAborts(d) \/ DrainEnds(d)
             \/ Killed
    BY <1>4 DEF SaveEnds, SaveFails, ReadFails, Reads, Enqueue, DrainStarts, DrainKeeps, DrainAborts, DrainEnds, Killed
  <1>5. CASE \E q \in Requests : TurnAway(q) \/ Replay(q) \/ Refuse(q) \/ Check(q) \/ Gone(q)
    BY <1>5 DEF TurnAway, Replay, Refuse, Check, Gone, Answered
  <1>6. ASSUME NEW q \in Requests, CommitMarks(q)
        PROVE  Keeps
    <2>1. request[q].op \in SavedOps
      BY <1>6 DEF CommitMarks, RequestType, Free, OnlySaved
    <2>2. ASSUME NEW s \in Students, marks[s] # "none"
          PROVE  marks'[s] # "none"
      BY <1>6, <2>1, <2>2 DEF CommitMarks, Mark
    <2> QED BY <1>6, <2>2 DEF CommitMarks
  <1>7. CASE \E q \in Requests : StoreResponse(q) \/ \E s \in Students : Notify(q, s)
    BY <1>7 DEF StoreResponse, Notify, Answered
  <1>8. CASE \E s \in Students : Scan(s) \/ \E m \in Mark : Patch(s, m)
    BY <1>8 DEF Scan, Patch, Mark
  <1>9. CASE WindowTurns
    BY <1>9 DEF WindowTurns
  <1> QED BY <1>1, <1>2, <1>3, <1>4, <1>5, <1>6, <1>7, <1>8, <1>9 DEF Next, Phone, Server

\* What a request becomes when its sender stops waiting is the same request.
LEMMA OrphansAreRequests ==
  ASSUME TypeOK, NEW q \in Requests, NEW who
  PROVE  /\ Orphaned(who)[q].at = request[q].at
         /\ request[q].at # "free" =>
              /\ Orphaned(who)[q].op = request[q].op /\ Orphaned(who)[q].left = request[q].left
              /\ Orphaned(who)[q].from \in {request[q].from, Nobody}
              /\ request[q].from = who => Orphaned(who)[q].from = Nobody
  <1>1. request[q] \in RequestType
    BY DEF TypeOK
  <1>2. CASE request[q].at = "free"
    BY <1>2 DEF Orphaned
  <1>3. CASE request[q].at # "free"
    <2>1. request[q] \in [at : {"received", "checked", "marked", "failed"}, op : Ops, key : BOOLEAN,
                          from : Senders \union {Nobody}, left : SUBSET Students]
      BY <1>1, <1>3 DEF RequestType, Free
    <2> QED BY <2>1 DEF Orphaned
  <1> QED BY <1>2, <1>3

\* A request ends, goes on for the same operation, or has just been posted.
Same(q) ==
    \/ request'[q].at = "free"
    \/ /\ request[q].at # "free" /\ request'[q].op = request[q].op
       /\ request'[q].from \in {request[q].from, Nobody}
Posted(q) ==
    /\ request'[q].at = "received" /\ UNCHANGED phone
    /\ \/ \E v \in Saves : request'[q].from = v /\ save[v].at = "submit" /\ request'[q].op = save[v].op
       \/ \E d \in Drains : request'[q].from = d /\ drain[d].at = "drain" /\ request'[q].op \in drain[d].todo

LEMMA RequestStep ==
  ASSUME TypeOK, [Next]_vars, NEW q \in Requests
  PROVE  Same(q) \/ Posted(q)
  <1> USE DEF Same, Posted, phone
  <1>0. request \in [Requests -> RequestType]
    BY DEF TypeOK
  <1>00. \A p \in Requests : request[p] = Free \/
           request[p] \in [at : {"received", "checked", "marked", "failed"}, op : Ops, key : BOOLEAN,
                          from : Senders \union {Nobody}, left : SUBSET Students]
    BY <1>0 DEF RequestType
  <1>01. UNCHANGED request => Same(q)
    OBVIOUS
  <1>1. CASE UNCHANGED vars
    BY <1>1, <1>01 DEF vars
  <1>2. ASSUME NEW p \in Requests, NEW v \in Saves, SaveSends(v, p)
        PROVE  Same(q) \/ Posted(q)
    BY <1>0, <1>2 DEF SaveSends, Post
  <1>3. ASSUME NEW p \in Requests, NEW d \in Drains, DrainSends(d, p)
        PROVE  Same(q) \/ Posted(q)
    BY <1>0, <1>3 DEF DrainSends, Post, Due
  <1>4. CASE (\E v \in Saves : SaveFails(v) \/ ReadFails(v)) \/ \E d \in Drains : DrainKeeps(d)
    <2> PICK who \in Senders : request' = Orphaned(who)
      BY <1>4 DEF SaveFails, ReadFails, Reads, DrainKeeps, Senders
    <2>1. request'[q] = Orphaned(who)[q]
      OBVIOUS
    <2> HIDE DEF Orphaned
    <2>2. request'[q].at = request[q].at
      BY <2>1, OrphansAreRequests
    <2>3. request[q].at # "free" => request'[q].op = request[q].op /\ request'[q].from \in {request[q].from, Nobody}
      BY <2>1, OrphansAreRequests
    <2> QED BY <2>2, <2>3
  <1>5. CASE Killed
    <2>1. CASE request[q].at = "free"
      BY <1>5, <2>1 DEF Killed
    <2>2. CASE request[q].at # "free"
      BY <1>5, <2>2, <1>00 DEF Killed, Free
    <2> QED BY <2>1, <2>2
  <1>6. CASE \/ \E v \in Saves : (\E m \in Rolls : Save(v, m)) \/ SaveEnds(v) \/ Enqueue(v)
             \/ \E d \in Drains : DrainStarts(d) \/ DrainAborts(d) \/ DrainEnds(d)
    BY <1>6, <1>01 DEF Save, SaveEnds, Enqueue, DrainStarts, DrainAborts, DrainEnds
  <1>7. ASSUME NEW p \in Requests, TurnAway(p) \/ Replay(p) \/ Refuse(p) \/ Gone(p)
        PROVE  Same(q) \/ Posted(q)
    BY <1>0, <1>7 DEF TurnAway, Replay, Refuse, Gone, Answered, Free
  <1>8. ASSUME NEW p \in Requests, Check(p) \/ CommitMarks(p) \/ \E s \in Students : Notify(p, s)
        PROVE  Same(q) \/ Posted(q)
    <2>1. request[p].at # "free"
      BY <1>8 DEF Check, CommitMarks, Notify, Fresh
    <2>2. request'[p].op = request[p].op /\ request'[p].from = request[p].from
      BY <1>0, <1>00, <1>8, <2>1 DEF Check, CommitMarks, Notify, Free
    <2>3. q # p => request'[q] = request[q]
      BY <1>0, <1>8 DEF Check, CommitMarks, Notify
    <2> QED BY <2>1, <2>2, <2>3
  <1>9. ASSUME NEW p \in Requests, StoreResponse(p)
        PROVE  Same(q) \/ Posted(q)
    <2>1. request[p].at # "free" /\ request' \in {[request EXCEPT ![p].at = "failed"], [request EXCEPT ![p] = Free]}
      BY <1>9 DEF StoreResponse, Answered
    <2>2. q # p => request'[q] = request[q]
      BY <1>0, <2>1
    <2>3. \/ request'[p].at = "free"
          \/ request'[p].op = request[p].op /\ request'[p].from = request[p].from
      <3>1. CASE request' = [request EXCEPT ![p].at = "failed"]
        <4>1. request'[p] = [request[p] EXCEPT !.at = "failed"]
          BY <1>0, <3>1
        <4>2. request[p] \in RequestType /\ request[p].at # "free"
          BY <1>0, <2>1
        <4>3. [request[p] EXCEPT !.at = "failed"].op = request[p].op /\ [request[p] EXCEPT !.at = "failed"].from = request[p].from
          BY <4>2, RequestChanges
        <4> QED BY <4>1, <4>3
      <3>2. CASE request' = [request EXCEPT ![p] = Free]
        BY <1>0, <3>2 DEF Free
      <3> QED BY <2>1, <3>1, <3>2
    <2> QED BY <2>1, <2>2, <2>3
  <1>10. CASE WindowTurns \/ \E s \in Students : Scan(s) \/ \E m \in Mark : Patch(s, m)
    BY <1>10, <1>01 DEF WindowTurns, Scan, Patch
  <1> QED BY <1>1, <1>2, <1>3, <1>4, <1>5, <1>6, <1>7, <1>8, <1>9, <1>10 DEF Next, Phone, Server

\* Every step handles saved operations only.
LEMMA SavedStep ==
  ASSUME TypeOK, OnlySaved, StillWaiting, [Next]_vars
  PROVE  OnlySaved'
  <1> USE DEF TypeOK, phone, server
  <1>0. SavedOps \subseteq SavedOps'
    BY StepKeeps DEF Keeps
  <1>1. ASSUME NEW q \in Requests, request'[q].at # "free"
        PROVE  request'[q].op \in SavedOps'
    <2>1. CASE Same(q)
      BY <1>0, <1>1, <2>1 DEF Same, OnlySaved, RequestType, Free
    <2>2. CASE Posted(q)
      BY <1>0, <1>1, <2>2 DEF Posted, OnlySaved
    <2> QED BY <2>1, <2>2, RequestStep
  <1>2. ASSUME NEW q \in Requests, NEW how \in {"done", "refused"}, request[q].at # "free", Answered(q, how)
        PROVE  /\ Done' \subseteq SavedOps
               /\ \A v \in Saves : save'[v] \in {save[v], Idle}
               /\ \A d \in Drains : drain'[d].at = "drain" =>
                    drain[d].at = "drain" /\ drain'[d].todo \subseteq drain[d].todo /\ drain'[d].kept = drain[d].kept
    <2>1. \A op \in Done' : op \in Done \/ op = request[q].op
      BY <1>2 DEF Answered, Done
    <2>2. ASSUME NEW d \in Drains, drain'[d].at = "drain"
          PROVE  drain[d].at = "drain" /\ drain'[d].todo \subseteq drain[d].todo /\ drain'[d].kept = drain[d].kept
      <3>1. CASE request[q].from = d
        <4>1. drain[d].at = "drain"
          BY <1>2, <3>1 DEF StillWaiting
        <4> QED BY <1>2, <3>1, <4>1 DEF Answered, Idle
      <3>2. CASE request[q].from # d
        BY <1>2, <2>2, <3>2 DEF Answered
      <3> QED BY <3>1, <3>2
    <2> QED BY <1>2, <2>1, <2>2 DEF OnlySaved, Answered
  <1>3. ASSUME store' \union queued' \union keys' \union Done' \subseteq SavedOps,
               \A v \in Saves : /\ save'[v].at # "idle" => save'[v].op \in SavedOps'
                                /\ save'[v].at = "queue" => save'[v].read \subseteq SavedOps,
               \A d \in Drains : drain'[d].at = "drain" => drain'[d].todo \union drain'[d].kept \subseteq SavedOps
        PROVE  OnlySaved'
    BY <1>0, <1>1, <1>3 DEF OnlySaved
  <1>4. CASE UNCHANGED vars
    BY <1>0, <1>3, <1>4 DEF vars, OnlySaved, Done
  <1>5. ASSUME NEW v \in Saves, NEW m \in Rolls, Save(v, m)
        PROVE  OnlySaved'
    <2>0. m \in [Students -> Mark]
      BY RollsMark
    <2>1. save'[v].op \in SavedOps' /\ save'[v].at = "submit" /\ \A w \in Saves \ {v} : save'[w] = save[w]
      BY <1>5, <2>0 DEF Save, SavedOps
    <2>2. \A w \in Saves : /\ save'[w].at # "idle" => save'[w].op \in SavedOps'
                           /\ save'[w].at = "queue" => save'[w].read \subseteq SavedOps
      BY <1>0, <2>1 DEF OnlySaved
    <2> QED BY <1>3, <1>5, <2>2 DEF Save, OnlySaved, Done
  <1>6. ASSUME NEW v \in Saves, SaveEnds(v) \/ SaveFails(v) \/ ReadFails(v) \/ Enqueue(v)
        PROVE  OnlySaved'
    <2>0. \A w \in Saves \ {v} : save'[w] = save[w]
      BY <1>6 DEF SaveEnds, SaveFails, ReadFails, Reads, Enqueue
    <2>1. ASSUME save'[v] = Idle \/
                   (save'[v].op = save[v].op /\ save[v].at # "idle" /\ save'[v].read \subseteq SavedOps)
          PROVE  \A w \in Saves : /\ save'[w].at # "idle" => save'[w].op \in SavedOps'
                                  /\ save'[w].at = "queue" => save'[w].read \subseteq SavedOps
      BY <1>0, <2>0, <2>1 DEF OnlySaved, Idle
    <2>2. CASE SaveEnds(v)
      BY <1>0, <1>3, <2>1, <2>2 DEF SaveEnds, OnlySaved, Done, Idle
    <2>3. CASE SaveFails(v) \/ ReadFails(v)
      <3>1. PICK read \in SUBSET store : Reads(v, read)
        BY <2>3 DEF SaveFails, ReadFails
      <3>2. read \subseteq SavedOps
        BY <3>1 DEF OnlySaved
      <3>3. save'[v].op = save[v].op /\ save[v].at # "idle" /\ save'[v].read = read
        BY <3>1 DEF Reads
      <3> QED BY <1>0, <1>3, <2>1, <3>1, <3>2, <3>3 DEF Reads, OnlySaved, Done
    <2>4. CASE Enqueue(v)
      <3>1. save[v].op \in SavedOps /\ save[v].read \subseteq SavedOps
        BY <2>4 DEF Enqueue, OnlySaved
      <3>2. save'[v] = Idle
        BY <2>4 DEF Enqueue
      <3> QED BY <1>0, <1>3, <2>1, <2>4, <3>1, <3>2 DEF Enqueue, OnlySaved, Done
    <2> QED BY <1>6, <2>2, <2>3, <2>4
  <1>7. ASSUME NEW d \in Drains, DrainStarts(d) \/ DrainKeeps(d) \/ DrainAborts(d) \/ DrainEnds(d)
        PROVE  OnlySaved'
    <2>0. \A e \in Drains \ {d} : drain'[e] = drain[e]
      BY <1>7 DEF DrainStarts, DrainKeeps, DrainAborts, DrainEnds
    <2>1. CASE DrainStarts(d)
      <3>1. drain'[d].todo = store /\ drain'[d].kept = {}
        BY <2>1 DEF DrainStarts
      <3> QED BY <1>0, <1>3, <2>0, <2>1, <3>1 DEF DrainStarts, OnlySaved, Done
    <2>2. CASE DrainKeeps(d)
      <3>1. drain'[d].todo \union drain'[d].kept \subseteq drain[d].todo \union drain[d].kept /\ drain[d].at = "drain"
        BY <2>2 DEF DrainKeeps, Due, Idle
      <3> QED BY <1>0, <1>3, <2>0, <2>2, <3>1 DEF DrainKeeps, OnlySaved, Done
    <2>3. CASE DrainAborts(d) \/ DrainEnds(d)
      <3>1. drain'[d] = Idle
        BY <2>3 DEF DrainAborts, DrainEnds
      <3>2. \A e \in Drains : drain'[e].at = "drain" => drain'[e].todo \union drain'[e].kept \subseteq SavedOps
        BY <2>0, <3>1 DEF OnlySaved, Idle
      <3> QED BY <1>0, <1>3, <2>3, <3>2 DEF DrainAborts, DrainEnds, OnlySaved, Done
    <2> QED BY <1>7, <2>1, <2>2, <2>3
  <1>11. CASE Killed
    BY <1>0, <1>3, <1>11 DEF Killed, OnlySaved, Done, Idle
  <1>8. CASE \E q \in Requests : \/ \E v \in Saves : SaveSends(v, q)
                                 \/ \E d \in Drains : DrainSends(d, q)
                                 \/ Check(q) \/ CommitMarks(q) \/ Gone(q) \/ \E s \in Students : Notify(q, s)
    BY <1>0, <1>3, <1>8 DEF SaveSends, DrainSends, Check, CommitMarks, Gone, Notify, OnlySaved, Done
  <1>9. ASSUME NEW q \in Requests, TurnAway(q) \/ Replay(q) \/ Refuse(q) \/ StoreResponse(q)
        PROVE  OnlySaved'
    <2>1. request[q].at # "free" /\ UNCHANGED <<store, queued>>
      BY <1>9 DEF TurnAway, Replay, Refuse, Fresh, StoreResponse, Answered
    <2>2. keys' \subseteq keys \union {request[q].op}
      BY <1>9 DEF TurnAway, Replay, Refuse, StoreResponse
    <2>3. (\E how \in {"done", "refused"} : Answered(q, how)) \/ UNCHANGED <<save, drain, settled>>
      BY <1>9 DEF TurnAway, Replay, Refuse, StoreResponse
    <2>4. CASE \E how \in {"done", "refused"} : Answered(q, how)
      BY <1>0, <1>2, <1>3, <2>1, <2>2, <2>4 DEF OnlySaved, Idle
    <2>5. CASE UNCHANGED <<save, drain, settled>>
      BY <1>0, <1>3, <2>1, <2>2, <2>5 DEF OnlySaved, Done
    <2> QED BY <2>3, <2>4, <2>5
  <1>10. CASE WindowTurns \/ \E s \in Students : Scan(s) \/ \E m \in Mark : Patch(s, m)
    BY <1>0, <1>3, <1>10 DEF WindowTurns, Scan, Patch, OnlySaved, Done
  <1> QED BY <1>4, <1>5, <1>6, <1>7, <1>8, <1>9, <1>10, <1>11 DEF Next, Phone, Server

\* Every step leaves nobody waiting in vain.
LEMMA WaitingStep ==
  ASSUME TypeOK, StillWaiting, [Next]_vars
  PROVE  StillWaiting'
  <1> USE DEF TypeOK, phone, server
  <1>0. ASSUME NEW q \in Requests
        PROVE  Same(q) \/ Posted(q)
    BY <1>0, RequestStep
  <1>1. ASSUME UNCHANGED <<save, drain>>, \A q \in Requests : Same(q)
        PROVE  StillWaiting'
    BY <1>1, CallsDiffer DEF Same, StillWaiting
  <1>2. ASSUME NEW who \in Senders, request' = Orphaned(who),
               \A v \in Saves \ {who} : save'[v] = save[v],
               \A d \in Drains \ {who} : drain'[d] = drain[d]
        PROVE  StillWaiting'
    <2>1. ASSUME NEW q \in Requests, request'[q].at # "free"
          PROVE  /\ request[q].at # "free" /\ request'[q].op = request[q].op
                 /\ request'[q].from \in {request[q].from, Nobody} /\ request'[q].from # who
      <3>1. request'[q] = Orphaned(who)[q]
        BY <1>2
      <3> HIDE DEF Orphaned
      <3> QED BY <2>1, <3>1, OrphansAreRequests, CallsDiffer DEF Senders
    <2> QED BY <1>2, <2>1, CallsDiffer DEF StillWaiting, Senders
  <1>18. ASSUME NEW who \in Senders, UNCHANGED request,
                \A q \in Requests : request[q].at # "free" => request[q].from # who,
                \A v \in Saves \ {who} : save'[v] = save[v],
                \A d \in Drains \ {who} : drain'[d] = drain[d]
        PROVE  StillWaiting'
    BY <1>18 DEF StillWaiting
  <1>3. CASE UNCHANGED vars
    BY <1>3, <1>1 DEF vars, Same
  <1>4. ASSUME NEW v \in Saves, NEW m \in Rolls, Save(v, m)
        PROVE  StillWaiting'
    <2>1. \A q \in Requests : request[q].at # "free" => request[q].from # v
      BY <1>4 DEF Save, StillWaiting, Idle
    <2> QED BY <1>4, <1>18, <2>1 DEF Save, Senders
  <1>5. ASSUME NEW q \in Requests, NEW who, NEW op, NEW key, Post(q, who, op, key), UNCHANGED phone,
               \/ who \in Saves /\ save[who].at = "submit"
               \/ who \in Drains /\ drain[who].at = "drain" /\ op \in drain[who].todo
        PROVE  StillWaiting'
    <2>1. request'[q].from = who /\ request'[q].op = op /\ \A p \in Requests \ {q} : request'[p] = request[p]
      BY <1>5 DEF Post
    <2>2. \A p \in Requests : request[p].at # "free" => request[p].from # who
      BY <1>5 DEF Post, Waits
    <2> QED BY <1>5, <2>1, <2>2, CallsDiffer DEF StillWaiting
  <1>6. ASSUME NEW q \in Requests, (\E v \in Saves : SaveSends(v, q)) \/ (\E d \in Drains : DrainSends(d, q))
        PROVE  StillWaiting'
    BY <1>6, <1>5 DEF SaveSends, DrainSends, Due
  <1>7. ASSUME NEW v \in Saves, SaveEnds(v) \/ Enqueue(v)
        PROVE  StillWaiting'
    <2>1. \A q \in Requests : request[q].at # "free" => request[q].from # v
      BY <1>7 DEF SaveEnds, Waits, Enqueue, StillWaiting
    <2> QED BY <1>7, <1>18, <2>1 DEF SaveEnds, Enqueue, Senders
  <1>8. ASSUME NEW v \in Saves, SaveFails(v) \/ ReadFails(v)
        PROVE  StillWaiting'
    BY <1>8, <1>2 DEF SaveFails, ReadFails, Reads, Senders
  <1>9. ASSUME NEW d \in Drains, DrainStarts(d)
        PROVE  StillWaiting'
    <2>1. \A q \in Requests : request[q].at # "free" => request[q].from # d
      BY <1>9 DEF DrainStarts, StillWaiting, Idle
    <2> QED BY <1>9, <1>18, <2>1 DEF DrainStarts, Senders
  <1>10. ASSUME NEW d \in Drains, DrainKeeps(d)
         PROVE  StillWaiting'
    BY <1>10, <1>2 DEF DrainKeeps, Senders
  <1>11. ASSUME NEW d \in Drains, DrainAborts(d) \/ DrainEnds(d)
         PROVE  StillWaiting'
    <2>1. \A q \in Requests : request[q].at # "free" => request[q].from # d
      BY <1>11 DEF DrainAborts, Waits, DrainEnds, StillWaiting
    <2> QED BY <1>11, <1>18, <2>1 DEF DrainAborts, DrainEnds, Senders
  <1>12. CASE Killed
    <2>1. ASSUME NEW q \in Requests, request'[q].at # "free"
          PROVE  request'[q].from = Nobody
      <3>1. CASE request[q].at = "free"
        BY <1>12, <2>1, <3>1 DEF Killed
      <3>2. CASE request[q].at # "free"
        <4>1. request'[q] = [request[q] EXCEPT !.from = Nobody]
          BY <1>12, <3>2 DEF Killed
        <4> QED BY <3>2, <4>1 DEF RequestType, Free
      <3> QED BY <3>1, <3>2
    <2> QED BY <2>1, CallsDiffer DEF StillWaiting
  <1>13. ASSUME NEW q \in Requests, NEW how, request[q].at # "free", Answered(q, how)
         PROVE  StillWaiting'
    <2>1. request'[q].at = "free" /\ \A p \in Requests \ {q} : request'[p] = request[p]
      BY <1>13 DEF Answered, Free
    <2>2. ASSUME NEW p \in Requests \ {q}, request[p].at # "free", request[p].from \in Saves
          PROVE  save'[request[p].from] = save[request[p].from]
      BY <1>13, <2>2, CallsDiffer DEF Answered, StillWaiting
    <2>3. ASSUME NEW p \in Requests \ {q}, request[p].at # "free", request[p].from \in Drains
          PROVE  drain'[request[p].from] = drain[request[p].from]
      BY <1>13, <2>3, CallsDiffer DEF Answered, StillWaiting
    <2> QED BY <2>1, <2>2, <2>3 DEF StillWaiting
  <1>14. ASSUME NEW q \in Requests, TurnAway(q) \/ Replay(q) \/ Refuse(q)
         PROVE  StillWaiting'
    BY <1>13, <1>14 DEF TurnAway, Replay, Refuse, Fresh
  <1>15. ASSUME NEW q \in Requests, StoreResponse(q)
         PROVE  StillWaiting'
    <2>1. CASE Answered(q, "done")
      BY <1>13, <1>15, <2>1 DEF StoreResponse
    <2>2. CASE request' = [request EXCEPT ![q].at = "failed"] /\ UNCHANGED <<save, drain>>
      <3>1. request'[q].at = "failed"
        BY <2>2
      <3>2. Same(q)
        BY <1>0, <3>1 DEF Posted
      <3>3. \A p \in Requests \ {q} : Same(p)
        BY <2>2 DEF Same
      <3> QED BY <1>1, <2>2, <3>2, <3>3
    <2> QED BY <1>15, <2>1, <2>2 DEF StoreResponse
  <1>16. ASSUME NEW q \in Requests,
                Check(q) \/ CommitMarks(q) \/ Gone(q) \/ \E s \in Students : Notify(q, s)
         PROVE  StillWaiting'
    <2>1. UNCHANGED <<save, drain>> /\ \A p \in Requests \ {q} : request'[p] = request[p]
      BY <1>16 DEF Check, CommitMarks, Gone, Notify
    <2>2. request'[q].at # "received"
      <3>1. request[q] \in [at : {"received", "checked", "marked", "failed"}, op : Ops, key : BOOLEAN,
                            from : Senders \union {Nobody}, left : SUBSET Students]
        BY <1>16 DEF Check, Fresh, CommitMarks, Gone, Notify, Free, RequestType
      <3>2. CASE Check(q)
        BY <3>1, <3>2 DEF Check
      <3>3. CASE CommitMarks(q)
        BY <3>1, <3>3 DEF CommitMarks
      <3>4. CASE Gone(q)
        BY <3>4 DEF Gone, Free
      <3>5. ASSUME NEW s \in Students, Notify(q, s)
            PROVE  request'[q].at # "received"
        BY <3>1, <3>5 DEF Notify
      <3> QED BY <1>16, <3>2, <3>3, <3>4, <3>5
    <2>3. Same(q)
      BY <1>0, <2>2 DEF Posted
    <2>4. \A p \in Requests \ {q} : Same(p)
      BY <2>1 DEF Same
    <2> QED BY <1>1, <2>1, <2>3, <2>4
  <1>17. CASE WindowTurns \/ \E s \in Students : Scan(s) \/ \E m \in Mark : Patch(s, m)
    BY <1>17, <1>1 DEF WindowTurns, Scan, Patch, Same
  <1> QED BY <1>3, <1>4, <1>6, <1>7, <1>8, <1>9, <1>10, <1>11, <1>12, <1>14, <1>15, <1>16, <1>17
          DEF Next, Phone, Server

\* A request that a step does not bring to its next commit.
Unmoved(q) ==
    \/ request'[q].at \in {"free", "received", "failed"}
    \/ /\ request[q].at # "free" /\ request'[q].at = request[q].at
       /\ request'[q].op = request[q].op /\ request'[q].left = request[q].left

\* Every step keeps track of what the requests, and those before them, have done.
LEMMA ServerStep ==
  ASSUME IInv, [Next]_vars
  PROVE  RequestsDo' /\ KeysAreDone' /\ DoneIsDone'
  <1> USE DEF IInv, TypeOK, phone, server
  <1>0. Keeps
    BY StepKeeps
  <1>1. AllMarked => AllMarked'
    BY <1>0 DEF Keeps, AllMarked
  <1>2. ASSUME \A q \in Requests : Unmoved(q)
        PROVE  RequestsDo'
    <2> SUFFICES ASSUME NEW q \in Requests, NEW op \in Ops,
                        request'[q].at \in {"checked", "marked"}, request'[q].op = op
                 PROVE  /\ request'[q].at = "checked" => \A s \in Students \ request'[q].left : marks'[s] # "none"
                        /\ request'[q].at = "marked" => AllMarked' /\ Absent(op)' \ request'[q].left \subseteq told'
      BY DEF RequestsDo
    <2>1. /\ request[q].at # "free" /\ request'[q].at = request[q].at
          /\ request'[q].op = request[q].op /\ request'[q].left = request[q].left
      BY <1>2 DEF Unmoved
    <2>2. op \in SavedOps
      BY <2>1 DEF OnlySaved
    <2> QED BY <1>0, <1>1, <2>1, <2>2 DEF RequestsDo, Keeps
  <1>3. ASSUME keys' = keys, settled' = settled
        PROVE  KeysAreDone' /\ DoneIsDone'
    <2>1. ASSUME NEW op \in keys \union Done, AllMarked, Absent(op) \subseteq told
          PROVE  AllMarked' /\ Absent(op)' \subseteq told'
      BY <1>0, <1>1, <2>1 DEF Keeps, OnlySaved
    <2>2. Done' = Done
      BY <1>3 DEF Done
    <2> QED BY <1>3, <2>1, <2>2 DEF KeysAreDone, DoneIsDone
  <1>4. ASSUME NEW q \in Requests
        PROVE  request[q] = Free \/
                 request[q] \in [at : {"received", "checked", "marked", "failed"}, op : Ops, key : BOOLEAN,
                                from : Senders \union {Nobody}, left : SUBSET Students]
    BY DEF RequestType
  <1>5. ASSUME request' = request
        PROVE  \A q \in Requests : Unmoved(q)
    BY <1>4, <1>5 DEF Unmoved, Free
  <1>6. CASE UNCHANGED vars
    BY <1>2, <1>3, <1>5, <1>6 DEF vars
  <1>7. CASE \/ \E v \in Saves : (\E m \in Rolls : Save(v, m)) \/ SaveEnds(v) \/ Enqueue(v)
             \/ \E d \in Drains : DrainStarts(d) \/ DrainAborts(d) \/ DrainEnds(d)
    BY <1>2, <1>3, <1>5, <1>7 DEF Save, SaveEnds, Enqueue, DrainStarts, DrainAborts, DrainEnds
  <1>8. CASE WindowTurns \/ \E s \in Students : Scan(s) \/ \E m \in Mark : Patch(s, m)
    BY <1>2, <1>3, <1>5, <1>8 DEF WindowTurns, Scan, Patch
  <1>9. ASSUME NEW q \in Requests, (\E v \in Saves : SaveSends(v, q)) \/ (\E d \in Drains : DrainSends(d, q))
        PROVE  RequestsDo' /\ KeysAreDone' /\ DoneIsDone'
    <2>1. request'[q].at = "received" /\ \A p \in Requests \ {q} : request'[p] = request[p]
      BY <1>9 DEF SaveSends, DrainSends, Post
    <2>2. \A p \in Requests : Unmoved(p)
      BY <1>4, <2>1 DEF Unmoved, Free
    <2> QED BY <1>2, <1>3, <1>9, <2>2 DEF SaveSends, DrainSends
  <1>10. CASE (\E v \in Saves : SaveFails(v) \/ ReadFails(v)) \/ \E d \in Drains : DrainKeeps(d)
    <2> PICK who \in Senders : request' = Orphaned(who)
      BY <1>10 DEF SaveFails, ReadFails, Reads, DrainKeeps, Senders
    <2>1. ASSUME NEW q \in Requests
          PROVE  Unmoved(q)
      <3>1. request'[q] = Orphaned(who)[q]
        OBVIOUS
      <3> HIDE DEF Orphaned
      <3> QED BY <3>1, OrphansAreRequests DEF Unmoved
    <2> QED BY <1>2, <1>3, <1>10, <2>1 DEF SaveFails, ReadFails, Reads, DrainKeeps
  <1>11. CASE Killed
    <2>1. ASSUME NEW q \in Requests
          PROVE  Unmoved(q)
      <3>1. CASE request[q].at = "free"
        BY <1>11, <3>1 DEF Killed, Unmoved
      <3>2. CASE request[q].at # "free"
        BY <1>4, <1>11, <3>2 DEF Killed, Unmoved, Free
      <3> QED BY <3>1, <3>2
    <2> QED BY <1>2, <1>3, <1>11, <2>1 DEF Killed
  <1>12. ASSUME NEW q \in Requests, NEW how \in {"done", "refused"}, request[q].at # "free", Answered(q, how),
                how = "done" => AllMarked /\ Absent(request[q].op) \subseteq told,
                \A op \in keys' \ keys : how = "done" /\ op = request[q].op
         PROVE  RequestsDo' /\ KeysAreDone' /\ DoneIsDone'
    <2>1. \A p \in Requests : Unmoved(p)
      <3>1. request'[q].at = "free" /\ \A p \in Requests \ {q} : request'[p] = request[p]
        BY <1>12 DEF Answered, Free
      <3> QED BY <1>4, <3>1 DEF Unmoved, Free
    <2>2. ASSUME NEW op \in SavedOps, AllMarked, Absent(op) \subseteq told
          PROVE  AllMarked' /\ Absent(op)' \subseteq told'
      BY <1>0, <1>1, <2>2 DEF Keeps
    <2>3. \A op \in Done' : op \in Done \/ (how = "done" /\ op = request[q].op)
      BY <1>12 DEF Answered, Done
    <2>4. request[q].op \in SavedOps
      BY <1>12 DEF OnlySaved
    <2>5. \A op \in keys' \union Done' : op \in SavedOps /\ AllMarked /\ Absent(op) \subseteq told
      BY <1>12, <2>3, <2>4 DEF OnlySaved, KeysAreDone, DoneIsDone
    <2> QED BY <1>2, <2>1, <2>2, <2>5 DEF KeysAreDone, DoneIsDone
  <1>13. ASSUME NEW q \in Requests, TurnAway(q) \/ Refuse(q)
         PROVE  RequestsDo' /\ KeysAreDone' /\ DoneIsDone'
    BY <1>12, <1>13 DEF TurnAway, Refuse, Fresh
  <1>14. ASSUME NEW q \in Requests, Replay(q)
         PROVE  RequestsDo' /\ KeysAreDone' /\ DoneIsDone'
    BY <1>12, <1>14 DEF Replay, KeysAreDone
  <1>15. ASSUME NEW q \in Requests, StoreResponse(q)
         PROVE  RequestsDo' /\ KeysAreDone' /\ DoneIsDone'
    <2>1. request[q].op \in Ops /\ request[q].at = "marked" /\ request[q].left = {}
      BY <1>4, <1>15 DEF StoreResponse, Free
    <2>2. AllMarked /\ Absent(request[q].op) \subseteq told
      BY <2>1 DEF RequestsDo
    <2>3. CASE request[q].key /\ request[q].op \in keys
      <3>1. request'[q].at = "failed" /\ \A p \in Requests \ {q} : request'[p] = request[p]
        BY <1>4, <1>15, <2>3 DEF StoreResponse, Free
      <3>2. \A p \in Requests : Unmoved(p)
        BY <1>4, <3>1 DEF Unmoved, Free
      <3> QED BY <1>2, <1>3, <1>15, <2>3, <3>2 DEF StoreResponse
    <2>4. CASE ~(request[q].key /\ request[q].op \in keys)
      BY <1>12, <1>15, <2>1, <2>2, <2>4 DEF StoreResponse
    <2> QED BY <2>3, <2>4
  <1>16. ASSUME NEW q \in Requests, Gone(q)
         PROVE  RequestsDo' /\ KeysAreDone' /\ DoneIsDone'
    <2>1. request'[q].at = "free" /\ \A p \in Requests \ {q} : request'[p] = request[p]
      BY <1>16 DEF Gone, Free
    <2>2. \A p \in Requests : Unmoved(p)
      BY <1>4, <2>1 DEF Unmoved, Free
    <2> QED BY <1>2, <1>3, <1>16, <2>2 DEF Gone
  <1>17. ASSUME NEW q \in Requests, \A p \in Requests \ {q} : request'[p] = request[p],
                UNCHANGED <<keys, settled>>,
                \A op \in Ops : request'[q].op = op =>
                   /\ request'[q].at = "checked" => \A s \in Students \ request'[q].left : marks'[s] # "none"
                   /\ request'[q].at = "marked" => AllMarked' /\ Absent(op)' \ request'[q].left \subseteq told'
         PROVE  RequestsDo' /\ KeysAreDone' /\ DoneIsDone'
    <2>1. ASSUME NEW p \in Requests \ {q}, NEW op \in Ops, request'[p].at # "free", request'[p].op = op
          PROVE  /\ request'[p].at = "checked" => \A s \in Students \ request'[p].left : marks'[s] # "none"
                 /\ request'[p].at = "marked" => AllMarked' /\ Absent(op)' \ request'[p].left \subseteq told'
      <3>1. request'[p] = request[p] /\ op \in SavedOps
        BY <1>17, <2>1 DEF OnlySaved
      <3> QED BY <1>0, <1>1, <2>1, <3>1 DEF RequestsDo, Keeps
    <2>2. RequestsDo'
      BY <1>17, <2>1 DEF RequestsDo
    <2> QED BY <1>3, <1>17, <2>2
  <1>18. ASSUME NEW q \in Requests, Check(q)
         PROVE  RequestsDo' /\ KeysAreDone' /\ DoneIsDone'
    <2>1. /\ \A p \in Requests \ {q} : request'[p] = request[p]
          /\ request'[q].at = "checked" /\ request'[q].left = {s \in Students : marks[s] = "none"}
      BY <1>4, <1>18 DEF Check, Fresh, Free
    <2> QED BY <1>17, <1>18, <2>1 DEF Check
  <1>19. ASSUME NEW q \in Requests, CommitMarks(q)
         PROVE  RequestsDo' /\ KeysAreDone' /\ DoneIsDone'
    <2>0. request[q].at = "checked" /\ request[q].op \in SavedOps /\ request[q].left \subseteq Students
          /\ \A p \in Requests \ {q} : request'[p] = request[p]
      BY <1>4, <1>19 DEF CommitMarks, OnlySaved, Free
    <2>1. CASE \E s \in request[q].left : marks[s] # "none"
      <3>1. request'[q].at = "failed"
        BY <1>4, <1>19, <2>1 DEF CommitMarks, Free
      <3> QED BY <1>17, <1>19, <2>0, <3>1 DEF CommitMarks
    <2>2. CASE ~ \E s \in request[q].left : marks[s] # "none"
      <3>1. request'[q].at = "marked" /\ request'[q].op = request[q].op /\ request'[q].left = Absent(request[q].op)
        BY <1>4, <1>19, <2>2 DEF CommitMarks, Free
      <3>2. \A s \in Students \ request[q].left : marks[s] # "none"
        BY <2>0 DEF RequestsDo, SavedOps
      <3>3. AllMarked'
        BY <1>19, <2>0, <2>2, <3>2 DEF CommitMarks, AllMarked, SavedOps, Mark
      <3> QED BY <1>0, <1>17, <1>19, <2>0, <3>1, <3>3 DEF CommitMarks, Keeps
    <2> QED BY <2>1, <2>2
  <1>20. ASSUME NEW q \in Requests, NEW s \in Students, Notify(q, s)
         PROVE  RequestsDo' /\ KeysAreDone' /\ DoneIsDone'
    <2>1. /\ \A p \in Requests \ {q} : request'[p] = request[p]
          /\ request'[q].at = "marked" /\ request[q].at = "marked" /\ request'[q].op = request[q].op
          /\ request[q].op \in SavedOps /\ request'[q].left = request[q].left \ {s}
      BY <1>4, <1>20 DEF Notify, OnlySaved, Free
    <2>2. AllMarked /\ \A op \in Ops : request[q].op = op => Absent(op) \ request[q].left \subseteq told
      BY <2>1 DEF RequestsDo, SavedOps
    <2> QED BY <1>0, <1>1, <1>17, <1>20, <2>1, <2>2 DEF Notify, Keeps
  <1> QED BY <1>6, <1>7, <1>8, <1>9, <1>10, <1>11, <1>13, <1>14, <1>15, <1>16, <1>18, <1>19, <1>20
          DEF Next, Phone, Server

\* Every step leaves the queue, and the copies of it in memory, complete.
LEMMA PhoneStep ==
  ASSUME IInv, [Next]_vars
  PROVE  CopiesAreComplete' /\ KeptUntilAnswered'
  <1> USE DEF IInv, TypeOK, phone, server, Idle
  <1>0. \A op : Answers(op) => Answers(op)'
    BY StepKeeps DEF Keeps, Answers
  <1>1. ASSUME UNCHANGED <<store, queued, exposed>>,
               \A v \in Saves : save'[v].at = "queue" => save'[v] = save[v],
               \A d \in Drains : drain'[d].at = "drain" => drain[d].at = "drain" /\
                 \A op \in drain[d].todo \union drain[d].kept :
                     op \in drain'[d].todo \union drain'[d].kept \/ Answers(op)'
        PROVE  CopiesAreComplete' /\ KeptUntilAnswered'
    <2>1. KeptUntilAnswered'
      BY <1>0, <1>1 DEF KeptUntilAnswered, Answers
    <2>2. ASSUME NEW op \in queued \ exposed
          PROVE  /\ \A v \in Saves : save'[v].at = "queue" => op \in save'[v].read \/ Answers(op)'
                 /\ \A d \in Drains : drain'[d].at = "drain" =>
                      op \in drain'[d].todo \union drain'[d].kept \/ Answers(op)'
      BY <1>0, <1>1 DEF CopiesAreComplete
    <2> QED BY <1>1, <2>1, <2>2 DEF CopiesAreComplete
  <1>2. CASE UNCHANGED vars
    BY <1>1, <1>2 DEF vars
  <1>3. CASE \/ \E v \in Saves : (\E m \in Rolls : Save(v, m)) \/ SaveEnds(v)
             \/ \E d \in Drains : DrainAborts(d)
             \/ Killed
    BY <1>1, <1>3 DEF Save, SaveEnds, DrainAborts, Killed
  <1>4. ASSUME NEW v \in Saves, SaveFails(v) \/ ReadFails(v)
        PROVE  CopiesAreComplete' /\ KeptUntilAnswered'
    <2>1. /\ UNCHANGED <<store, drain, queued, settled>> /\ exposed \subseteq exposed'
          /\ \A w \in Saves \ {v} : save'[w] = save[w]
      BY <1>4 DEF SaveFails, ReadFails, Reads
    <2>2. \A op : Answers(op)' = Answers(op)
      BY <2>1 DEF Answers
    <2>3. \A op \in store \ exposed' : op \in save'[v].read
      BY <1>4 DEF SaveFails, ReadFails, Reads
    <2>4. \A op \in queued' \ exposed' : op \in queued \ exposed /\ (op \in store \/ Answers(op))
      BY <2>1 DEF KeptUntilAnswered, Answers
    <2>5. KeptUntilAnswered'
      BY <2>1, <2>2, <2>4 DEF KeptUntilAnswered, Answers
    <2> QED BY <2>1, <2>2, <2>3, <2>4, <2>5 DEF CopiesAreComplete
  <1>5. ASSUME NEW v \in Saves, Enqueue(v)
        PROVE  CopiesAreComplete' /\ KeptUntilAnswered'
    <2>0. /\ save[v].at = "queue" /\ save'[v] = Idle /\ \A w \in Saves \ {v} : save'[w] = save[w]
          /\ store' = save[v].read \union {save[v].op} /\ queued' = queued \union {save[v].op}
          /\ exposed \subseteq exposed' /\ (Held(v) => save[v].op \in exposed') /\ UNCHANGED <<drain, settled>>
      BY <1>5 DEF Enqueue
    <2>1. ASSUME NEW op \in queued' \ exposed'
          PROVE  op \in store' \/ Answers(op)
      BY <2>0, <2>1 DEF CopiesAreComplete
    <2>2. KeptUntilAnswered'
      BY <1>0, <2>1 DEF KeptUntilAnswered, Answers
    <2>3. ASSUME NEW op \in queued' \ exposed',
                 (\E w \in Saves : save'[w].at = "queue") \/ (\E d \in Drains : drain[d].at = "drain")
          PROVE  op \in queued \ exposed
      <3>1. Held(v)
        BY <2>0, <2>3 DEF Held
      <3> QED BY <2>0, <2>3, <3>1
    <2>4. ASSUME NEW op \in queued' \ exposed'
          PROVE  /\ \A w \in Saves : save'[w].at = "queue" => op \in save'[w].read \/ Answers(op)
                 /\ \A d \in Drains : drain[d].at = "drain" => op \in drain[d].todo \union drain[d].kept \/ Answers(op)
      BY <2>0, <2>3, <2>4 DEF CopiesAreComplete
    <2> QED BY <1>0, <2>0, <2>2, <2>4 DEF CopiesAreComplete
  <1>6. ASSUME NEW d \in Drains, DrainStarts(d)
        PROVE  CopiesAreComplete' /\ KeptUntilAnswered'
    <2>1. /\ drain'[d].todo = store /\ \A e \in Drains \ {d} : drain'[e] = drain[e]
          /\ UNCHANGED <<store, save, queued, exposed, settled>>
      BY <1>6 DEF DrainStarts
    <2> QED BY <1>0, <2>1 DEF CopiesAreComplete, KeptUntilAnswered, Answers
  <1>7. ASSUME NEW d \in Drains, DrainKeeps(d)
        PROVE  CopiesAreComplete' /\ KeptUntilAnswered'
    <2>1. /\ drain[d].at = "drain"
          /\ drain[d].todo \union drain[d].kept \subseteq drain'[d].todo \union drain'[d].kept
          /\ \A e \in Drains \ {d} : drain'[e] = drain[e]
      BY <1>7 DEF DrainKeeps, Due
    <2> QED BY <1>1, <1>7, <2>1 DEF DrainKeeps
  <1>8. ASSUME NEW d \in Drains, DrainEnds(d)
        PROVE  CopiesAreComplete' /\ KeptUntilAnswered'
    <2>0. /\ drain[d].at = "drain" /\ drain[d].todo = {} /\ store' = drain[d].kept
          /\ drain'[d] = Idle /\ \A e \in Drains \ {d} : drain'[e] = drain[e]
          /\ UNCHANGED <<save, queued, exposed, settled>>
      BY <1>8 DEF DrainEnds
    <2>1. \A op \in queued \ exposed : op \in store' \/ Answers(op)
      BY <2>0 DEF CopiesAreComplete
    <2>2. KeptUntilAnswered'
      BY <1>0, <2>0, <2>1 DEF KeptUntilAnswered, Answers
    <2> QED BY <1>0, <2>0, <2>2 DEF CopiesAreComplete
  <1>9. ASSUME NEW q \in Requests, NEW how \in {"done", "refused"}, request[q].at # "free", Answered(q, how)
        PROVE  CopiesAreComplete' /\ KeptUntilAnswered'
    <2>1. ASSUME NEW d \in Drains, drain'[d].at = "drain"
          PROVE  drain[d].at = "drain" /\ \A op \in drain[d].todo \union drain[d].kept :
                     op \in drain'[d].todo \union drain'[d].kept \/ Answers(op)'
      <3>1. CASE request[q].from = d
        <4>1. drain[d].at = "drain" /\ drain'[d] = [drain[d] EXCEPT !.todo = @ \ {request[q].op}]
          BY <1>9, <3>1 DEF Answered, StillWaiting
        <4>2. <<request[q].op, how>> \in settled'
          BY <1>9, <3>1 DEF Answered
        <4>3. drain[d] \in [at : {"drain"}, todo : SUBSET Ops, kept : SUBSET Ops]
          BY <4>1
        <4>4. \A op \in drain[d].todo \union drain[d].kept :
                op \in drain'[d].todo \union drain'[d].kept \/ op = request[q].op
          BY <4>1, <4>3
        <4> QED BY <4>1, <4>2, <4>4 DEF Answers
      <3>2. CASE request[q].from # d
        BY <1>9, <2>1, <3>2 DEF Answered
      <3> QED BY <3>1, <3>2
    <2> QED BY <1>1, <1>9, <2>1 DEF Answered
  <1>10. ASSUME NEW q \in Requests, TurnAway(q) \/ Replay(q) \/ Refuse(q) \/ StoreResponse(q)
         PROVE  CopiesAreComplete' /\ KeptUntilAnswered'
    <2>1. request[q].at # "free"
      BY <1>10 DEF TurnAway, Replay, Refuse, Fresh, StoreResponse
    <2>2. \/ Answered(q, "done") \/ Answered(q, "refused")
          \/ UNCHANGED <<store, save, drain, queued, exposed>>
      BY <1>10 DEF TurnAway, Replay, Refuse, StoreResponse
    <2> QED BY <1>1, <1>9, <2>1, <2>2
  <1>11. CASE \E q \in Requests : \/ \E v \in Saves : SaveSends(v, q)
                                  \/ \E d \in Drains : DrainSends(d, q)
                                  \/ Check(q) \/ CommitMarks(q) \/ Gone(q)
                                  \/ \E s \in Students : Notify(q, s)
    BY <1>1, <1>11 DEF SaveSends, DrainSends, Check, CommitMarks, Gone, Notify
  <1>12. CASE WindowTurns \/ \E s \in Students : Scan(s) \/ \E m \in Mark : Patch(s, m)
    BY <1>1, <1>12 DEF WindowTurns, Scan, Patch
  <1> QED BY <1>2, <1>3, <1>4, <1>5, <1>6, <1>7, <1>8, <1>10, <1>11, <1>12 DEF Next, Phone, Server

-----------------------------------------------------------------------------
\* The invariant holds in every state the phone and the server reach.
THEOREM InvariantHolds == Spec => []IInv
  <1>1. IInv /\ [Next]_vars => IInv'
    <2> SUFFICES ASSUME IInv, [Next]_vars PROVE IInv'
      OBVIOUS
    <2>1. TypeOK' /\ OnlySaved' /\ StillWaiting'
      BY TypeStep, SavedStep, WaitingStep DEF IInv
    <2> QED BY <2>1, ServerStep, PhoneStep DEF IInv
  <1> QED BY InitInv, <1>1, PTL DEF Spec

\* Every variable of the phone and the server keeps its type.
THEOREM TypeCorrect == Spec => []TypeOK
  BY InvariantHolds, PTL DEF IInv

\* Whatever the drain drops as done is marked for the whole class, however
\* many requests, crashes and other markers there are (mark_attendance_bulk).
THEOREM DoneMeansMarked == Spec => []DoneIsMarked
  <1>1. IInv => DoneIsMarked
    BY DEF IInv, DoneIsDone, DoneIsMarked, AllMarked
  <1> QED BY InvariantHolds, <1>1, PTL

\* ... and the parents of its absent students have been told.
THEOREM DoneMeansTold == Spec => []DoneIsTold
  <1>1. IInv => DoneIsTold
    BY DEF IInv, DoneIsDone, DoneIsTold
  <1> QED BY InvariantHolds, <1>1, PTL

\* The queue on the phone keeps what it was given until it is answered, through
\* any number of saves and drains at once, but for what was given to it while
\* another of them had read it and what was in it when a save failed to read it
\* (enqueueAttendance, drainAttendanceQueue, getPendingAttendance).
THEOREM QueueKeeps == Spec => []KeptUntilAnswered
  BY InvariantHolds, PTL DEF IInv

-----------------------------------------------------------------------------
(* What was marked first *)

\* A mark is changed by a correction of that student, and by nothing else.
FirstMarkStands ==
    \A s \in Students : marks[s] # "none" =>
        marks'[s] = marks[s] \/ \E m \in Mark : Patch(s, m)

\* Every step leaves the marks there are.
LEMMA MarksStep ==
  ASSUME IInv, [Next]_vars
  PROVE  FirstMarkStands
  <1>1. marks \in [Students -> Mark \union {"none"}]
    BY DEF IInv, TypeOK
  <1>2. CASE marks' = marks
    BY <1>2 DEF FirstMarkStands
  <1>3. ASSUME NEW q \in Requests, CommitMarks(q)
        PROVE  FirstMarkStands
    BY <1>1, <1>3 DEF CommitMarks, FirstMarkStands
  <1>4. ASSUME NEW s \in Students, Scan(s)
        PROVE  FirstMarkStands
    BY <1>1, <1>4 DEF Scan, FirstMarkStands
  <1>5. ASSUME NEW s \in Students, NEW m \in Mark, Patch(s, m)
        PROVE  FirstMarkStands
    <2>1. \A t \in Students : t # s => marks'[t] = marks[t]
      BY <1>1, <1>5 DEF Patch
    <2> QED BY <1>5, <2>1 DEF FirstMarkStands
  <1>6. CASE Phone \/ WindowTurns \/ UNCHANGED vars
    <2>1. marks' = marks
      BY <1>6 DEF Phone, Save, SaveEnds, SaveFails, ReadFails, Reads, Enqueue, DrainStarts, DrainKeeps, DrainAborts,
                  DrainEnds, Killed, SaveSends, DrainSends, WindowTurns, server, vars
    <2> QED BY <1>2, <2>1
  <1>7. ASSUME NEW q \in Requests,
               \/ TurnAway(q) \/ Replay(q) \/ Refuse(q) \/ Check(q) \/ StoreResponse(q) \/ Gone(q)
               \/ \E s \in Students : Notify(q, s)
        PROVE  FirstMarkStands
    <2>1. marks' = marks
      BY <1>7 DEF TurnAway, Replay, Refuse, Check, StoreResponse, Gone, Notify, server
    <2> QED BY <1>2, <2>1
  <1> QED BY <1>3, <1>4, <1>5, <1>6, <1>7 DEF Next, Server

\* No submission, replay or scan changes a mark that is there, although a request
\* acts on marks it has read some time ago: a teacher's correction (patch_attendance)
\* survives every queued operation that arrives after it (mark_attendance_bulk).
THEOREM CorrectionsSurvive == Spec => [][FirstMarkStands]_vars
  <1>1. IInv /\ [Next]_vars => [FirstMarkStands]_vars
    BY MarksStep
  <1> QED BY <1>1, InvariantHolds, PTL DEF Spec
=============================================================================
