---------------------- MODULE MCDistributedCoordinator ----------------------
(***************************************************************************)
(* A small instance of DistributedCoordinator for TLC: two tasks, two      *)
(* workers, two attempts.                                                  *)
(***************************************************************************)
EXTENDS DistributedCoordinator

CONSTANTS t1, t2, w1, w2

\* w1 can run both tasks, w2 only t1: t2 may find no eligible worker while
\* t1, queued behind it, does.
CapableTwo == [t \in Tasks |-> IF t = t2 THEN {w1} ELSE {w1, w2}]

RankTwo == [w \in Workers |-> IF w = w1 THEN 1 ELSE 2]

\* Keep is SelectSeq.
ShortSequences == UNION {[1..n -> Tasks] : n \in 0..4}

ASSUME KeepIsSelectSeq ==
  \A s \in ShortSequences, S \in SUBSET Tasks :
    Keep(s, S) = SelectSeq(s, LAMBDA t : t \in S)
=============================================================================
