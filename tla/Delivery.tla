------------------------------ MODULE Delivery ------------------------------
(***************************************************************************)
(* What the synchronisation of a school server with its VPS promises, with *)
(* nothing said about how: an event is announced with its payload, the     *)
(* peer comes to know payloads that were announced, and an announcement is *)
(* settled, for good, only when the peer knows its payload.                *)
(***************************************************************************)
CONSTANTS
    Records,    \* the events, one row of sync_queue each
    Payloads    \* what they say

VARIABLES
    announced,  \* the pairs <<record, payload>> handed over for delivery
    known,      \* the payloads the peer holds
    settled     \* the announcements the sender regards as delivered

DeliveryInit == announced = {} /\ known = {} /\ settled = {}

\* A record is announced once.
Announce(r, p) ==
    /\ \A q \in Payloads : <<r, q>> \notin announced
    /\ announced' = announced \union {<<r, p>>}
    /\ UNCHANGED <<known, settled>>

Learn(p) ==
    /\ \E r \in Records : <<r, p>> \in announced
    /\ known' = known \union {p}
    /\ UNCHANGED <<announced, settled>>

\* A batch is settled at once.
Settle(batch) ==
    /\ \A a \in batch : a[2] \in known
    /\ settled' = settled \union batch
    /\ UNCHANGED <<announced, known>>

DeliveryNext ==
    \/ \E r \in Records, p \in Payloads : Announce(r, p)
    \/ \E p \in Payloads : Learn(p)
    \/ \E batch \in SUBSET announced : Settle(batch)

DeliverySpec == DeliveryInit /\ [][DeliveryNext]_<<announced, known, settled>>
=============================================================================
