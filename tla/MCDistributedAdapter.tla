------------------------ MODULE MCDistributedAdapter ------------------------
(***************************************************************************)
(* A small instance of DistributedAdapter: two callers, one worker and, in *)
(* MCDistributedAdapter.cfg, a task submitted through an endpoint.         *)
(***************************************************************************)
EXTENDS DistributedAdapter

CONSTANTS t1, t2, t3, w1

CapableAll == [t \in Tasks |-> Workers]
\* No worker is capable of the task submitted through the endpoint: it stays in
\* the deque until it is cancelled.
CapableOwn == [t \in Tasks |-> IF t \in Callers THEN Workers ELSE {}]
RankOne == [w \in Workers |-> 1]
=============================================================================
