---------------------------- MODULE MCSyncEngine ----------------------------
EXTENDS SyncEngine

CONSTANTS c1, c2, puller

\* 2 and 3 - 4 on genesis come from peers, 5 on genesis from the mining worker.
MCBlock == 1..5
MCParent == [b \in 2..5 |-> IF b = 4 THEN 3 ELSE 1]

M(k, i) == [kind |-> k, id |-> i]

MCMessage == {M("block", 2), M("candidate", 4), M("tx", 1)}

=============================================================================
