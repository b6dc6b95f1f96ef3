------------------------------- MODULE MCSync -------------------------------
(* Sync on small instances. *)
EXTENDS Sync, TLC

\* Every record of one table, so the age decides, or the first of a more urgent table.
FirstIsUrgent == [r \in Records |-> IF r = CHOOSE s \in Records : TRUE THEN 1 ELSE 3]

\* Every record has a payload of its own.
OwnPayload == 
    LET f == CHOOSE g \in [Records -> Payloads] : \A r, s \in Records : g[r] = g[s] => r = s
    IN  [r \in Records |-> {f[r]}]

\* One process takes rows one by one, the others take all there are.
OneIsSmall == [w \in Workers |-> IF w = CHOOSE v \in Workers : TRUE THEN 1 ELSE Cardinality(Records)]
=============================================================================
