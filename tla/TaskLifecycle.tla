---------------------------- MODULE TaskLifecycle ----------------------------
(***************************************************************************)
(* What the distributed layer promises about its tasks: each is accepted   *)
(* once, tried at most MaxRetries times, one try at a time, and ends in    *)
(* one final phase that it never leaves.  Tasks do not depend on one       *)
(* another and several may move in one step (a drain or a sweep decides    *)
(* several).  DistributedCoordinator is shown to implement this.           *)
(***************************************************************************)
EXTENDS Naturals

CONSTANTS Tasks, MaxRetries

VARIABLES phase, tries

taskVars == <<phase, tries>>

Phases ==
  {"unknown", "queued", "assigned", "completed", "failed", "cancelled"}

Init ==
  /\ phase = [t \in Tasks |-> "unknown"]
  /\ tries = [t \in Tasks |-> 0]

\* Task t goes from phase p to phase q and uses n more tries.
Moves(t, p, q, n) ==
  /\ phase[t] = p
  /\ phase'[t] = q
  /\ tries'[t] = tries[t] + n

Accept(t) == Moves(t, "unknown", "queued", 0)

\* A try starts; there is never one beyond the limit.
Try(t) == tries[t] < MaxRetries /\ Moves(t, "queued", "assigned", 1)

\* The try is given up: it failed, timed out or did not reach its worker.
GiveBack(t) == Moves(t, "assigned", "queued", 0)

\* Only a try under way can complete a task.
Complete(t) == Moves(t, "assigned", "completed", 0)

\* A task fails while queued (refused, or no try left) or with its last try.
Fail(t) ==
  \/ Moves(t, "queued", "failed", 0)
  \/ tries[t] >= MaxRetries /\ Moves(t, "assigned", "failed", 0)

Cancel(t) ==
  \/ Moves(t, "queued", "cancelled", 0)
  \/ Moves(t, "assigned", "cancelled", 0)

Stay(t) == phase'[t] = phase[t] /\ tries'[t] = tries[t]

Next ==
  /\ phase' \in [Tasks -> Phases]
  /\ tries' \in [Tasks -> 0..MaxRetries]
  /\ \A t \in Tasks :
       Accept(t) \/ Try(t) \/ GiveBack(t) \/ Complete(t) \/ Fail(t)
         \/ Cancel(t) \/ Stay(t)

Spec == Init /\ [][Next]_taskVars
=============================================================================
