----------------------- MODULE DistributedCoordinator -----------------------
(***************************************************************************)
(* The master of the distributed layer: DistributedCoordinator with its    *)
(* DistributedTaskQueue, WorkerRegistry and DistributedScheduler, and the  *)
(* workers as the master sees them through its transport.                  *)
(*                                                                         *)
(* Every method of the coordinator is synchronous, so each is one action;  *)
(* the only await is the transport call of dispatch_async, which is open   *)
(* from the step that creates the assignment to Reply or Unreachable.      *)
(* Results wait in `replies' and may be handed to accept_result late,      *)
(* reordered and repeatedly.  Time is abstracted: a sweep is given, by its *)
(* `now', how many of the oldest assignments are overdue and which workers *)
(* have missed their heartbeats.                                           *)
(***************************************************************************)
EXTENDS SequenceFilter

CONSTANTS
  Tasks,       \* task ids
  Workers,     \* worker ids
  NoWorker,    \* the None of last_assigned_worker_id
  Capable,     \* Capable[t]: the workers whose capabilities cover t's
  Rank,        \* the order of worker ids
  Loads,       \* the values a worker reports as current_load
  MaxRetries   \* config.max_retries: the attempts a task may use

ASSUME CoordinatorAssumption ==
  /\ NoWorker \notin Workers
  /\ Capable \in [Tasks -> SUBSET Workers]
  /\ Rank \in [Workers -> Nat]
  /\ Loads \subseteq Nat
  /\ MaxRetries \in Nat

VARIABLES
  status,       \* status of each task; "unknown" when not in _tasks
  attempts,     \* retry_count of each task
  lockedBy,     \* last_assigned_worker_id of each task
  queue,        \* the deque, cancelled tasks included until the next drain
  assignments,  \* _assignments in insertion order, which is oldest first
  results,      \* _results
  registry,     \* status of each worker; "absent" when not registered
  load,         \* resources.current_load of each worker
  calls,        \* assignments whose transport call has not returned
  replies       \* results dispatch_async has returned to its callers

taskState == <<status, attempts, lockedBy, queue, assignments, results>>
workerState == <<registry, load>>
vars == <<taskState, workerState, calls, replies>>

Assignment == [task : Tasks, attempt : 1..MaxRetries, worker : Workers]
Reply == [task : Tasks, attempt : 1..MaxRetries, ok : BOOLEAN]

NoResult == [ok |-> FALSE, attempt |-> 0, stored |-> FALSE]
Success(n) == [ok |-> TRUE, attempt |-> n, stored |-> TRUE]
Failure(n) == [ok |-> FALSE, attempt |-> n, stored |-> TRUE]

TaskStatus ==
  {"unknown", "queued", "assigned", "completed", "failed", "cancelled"}
Terminal == {"completed", "failed", "cancelled"}
Reported == {"available", "busy", "unavailable"}

TypeOK ==
  /\ status \in [Tasks -> TaskStatus]
  /\ attempts \in [Tasks -> 0..MaxRetries]
  /\ lockedBy \in [Tasks -> Workers \cup {NoWorker}]
  /\ queue \in Seq(Tasks)
  /\ assignments \in Seq(Assignment)
  /\ results \in [Tasks -> [ok : BOOLEAN, attempt : 0..MaxRetries,
                            stored : BOOLEAN]]
  /\ registry \in [Workers -> Reported \cup {"absent", "stale"}]
  /\ load \in [Workers -> Loads]
  /\ calls \subseteq Assignment
  /\ replies \subseteq Reply

Init ==
  /\ status = [t \in Tasks |-> "unknown"]
  /\ attempts = [t \in Tasks |-> 0]
  /\ lockedBy = [t \in Tasks |-> NoWorker]
  /\ queue = <<>>
  /\ assignments = <<>>
  /\ results = [t \in Tasks |-> NoResult]
  /\ registry = [w \in Workers |-> "absent"]
  /\ load \in [Workers -> Loads]
  /\ calls = {}
  /\ replies = {}

-----------------------------------------------------------------------------
(* The queue, the scheduler and the assignment table.                      *)

\* requeue: append, unless the id is still in the deque.
Requeue(q, t) == IF t \in Elems(q) THEN q ELSE Append(q, t)

\* The tasks take_all returns: it drops the cancelled ones.
Live(q) == {t \in Elems(q) : status[t] # "cancelled"}

\* The workers the scheduler may choose for t; Stale stands for the
\* optional is_stale callback.
Eligible(t, Stale) ==
  {w \in Capable[t] : registry[w] = "available" /\ w \notin Stale}

\* The first of them in the scheduler's order: lowest load, then lowest id.
Preferred(t, Stale) ==
  {w \in Eligible(t, Stale) : \A v \in Eligible(t, Stale) :
     \/ load[w] < load[v]
     \/ load[w] = load[v] /\ Rank[w] <= Rank[v]}

\* The index of the assignment _find_assignment returns for t.
ActiveIndex(t) ==
  {i \in 1..Len(assignments) :
     /\ assignments[i].task = t
     /\ \A j \in 1..(i - 1) : assignments[j].task # t}

Without(tab, A) == Keep(tab, Elems(tab) \ A)

-----------------------------------------------------------------------------
(* Intake.                                                                 *)

\* A duplicate id returns the existing task and changes nothing.
Submit(t) ==
  /\ status[t] = "unknown"
  /\ status' = [status EXCEPT ![t] = "queued"]
  /\ queue' = Append(queue, t)
  /\ UNCHANGED <<attempts, lockedBy, assignments, results, workerState,
                 calls, replies>>

\* Mutant: cancel does not look at the status.
CancelAnytime(t) ==
  /\ status[t] # "unknown"
  /\ status' = [status EXCEPT ![t] = "cancelled"]
  /\ UNCHANGED <<attempts, lockedBy, queue, assignments, results,
                 workerState, calls, replies>>

\* A queued task keeps its place in the deque; the next drain drops it.
CancelQueued(t) ==
  /\ status[t] = "queued"
  /\ t \in Elems(queue)
  /\ status' = [status EXCEPT ![t] = "cancelled"]
  /\ UNCHANGED <<attempts, lockedBy, queue, assignments, results,
                 workerState, calls, replies>>

\* The worker is not told: its transport call stays open.
CancelAssigned(t) ==
  /\ status[t] = "assigned"
  /\ status' = [status EXCEPT ![t] = "cancelled"]
  /\ lockedBy' = [lockedBy EXCEPT ![t] = NoWorker]
  /\ assignments' = Without(assignments,
                            {assignments[i] : i \in ActiveIndex(t)})
  /\ UNCHANGED <<attempts, queue, results, workerState, calls, replies>>

Cancel(t) == CancelQueued(t) \/ CancelAssigned(t)

-----------------------------------------------------------------------------
(* Dispatch.  One call drains the deque, goes through the live tasks       *)
(* oldest first, and stops at the first it can assign.  Allowed is the set *)
(* of tasks the security manager would allow at this moment (all of them   *)
(* when none is configured).                                               *)

Exhausted(t) == attempts[t] >= MaxRetries

\* Mutant: only the first assignment bumps the attempt.
FirstAttemptOnly(t) == IF attempts[t] = 0 THEN 1 ELSE attempts[t]

\* bump_attempt
NextAttempt(t) == attempts[t] + 1

Assignable(t, Allowed, Stale) ==
  /\ status[t] # "cancelled"
  /\ ~ Exhausted(t)
  /\ Eligible(t, Stale) # {}
  /\ t \in Allowed

\* The tasks at positions I of the deque that this call fails: no attempt
\* left, or the dispatch is refused.  The others are requeued.
Refused(I, Allowed, Stale) ==
  {t \in Live(queue) :
     /\ \E i \in I : queue[i] = t
     /\ \/ Exhausted(t)
        \/ Eligible(t, Stale) # {} /\ t \notin Allowed}

\* Mutants: the tasks behind the assigned one are not put back, or are put
\* back with appendleft.
RemainingLost(S) == <<>>
RemainingReversed(S) ==
  LET q == Keep(queue, S)
  IN  [n \in 1..Len(q) |-> q[Len(q) + 1 - n]]

\* What the requeue calls of a drain leave in the deque.
Remaining(S) == Keep(queue, S)

\* The state of the tasks after a call that fails R, assigns the tasks of
\* G (none or one) to w, and requeues the rest of the deque in its order.
AfterDrain(R, G, w) ==
  /\ queue' = Remaining(Live(queue) \ (R \cup G))
  /\ status' = [t \in Tasks |->
                  CASE t \in R -> "failed"
                    [] t \in G -> "assigned"
                    [] t \in Live(queue) \ (R \cup G) -> "queued"
                    [] OTHER -> status[t]]
  /\ lockedBy' = [t \in Tasks |-> CASE t \in R -> NoWorker
                                    [] t \in G -> w
                                    [] OTHER -> lockedBy[t]]
  /\ results' = [t \in Tasks |-> IF t \in R THEN Failure(0) ELSE results[t]]

\* Position i holds the first assignable task.
DispatchOne(i, Allowed, Stale) ==
  /\ Assignable(queue[i], Allowed, Stale)
  /\ \A j \in 1..(i - 1) : ~ Assignable(queue[j], Allowed, Stale)
  /\ \E w \in Preferred(queue[i], Stale) :
       LET t == queue[i]
           a == [task |-> t, attempt |-> NextAttempt(t), worker |-> w]
       IN  /\ AfterDrain(Refused(1..(i - 1), Allowed, Stale), {t}, w)
           /\ attempts' = [attempts EXCEPT ![t] = NextAttempt(t)]
           /\ assignments' = Append(assignments, a)
           /\ calls' = calls \cup {a}
  /\ UNCHANGED <<workerState, replies>>

DispatchNone(Allowed, Stale) ==
  /\ \A i \in 1..Len(queue) : ~ Assignable(queue[i], Allowed, Stale)
  /\ AfterDrain(Refused(1..Len(queue), Allowed, Stale), {}, NoWorker)
  /\ UNCHANGED <<attempts, assignments, workerState, calls, replies>>

DispatchNext(Allowed, Stale) ==
  \/ \E i \in 1..Len(queue) : DispatchOne(i, Allowed, Stale)
  \/ DispatchNone(Allowed, Stale)

-----------------------------------------------------------------------------
(* The transport call of dispatch_async returns.                           *)

ReplyOf(c, ok) == [task |-> c.task, attempt |-> c.attempt, ok |-> ok]

\* The worker validated, authorised and executed the task, or refused it,
\* and its result echoes the assignment.
WorkerReplies(c, ok) ==
  /\ c \in calls
  /\ calls' = calls \ {c}
  /\ replies' = replies \cup {ReplyOf(c, ok)}
  /\ UNCHANGED <<taskState, workerState>>

\* Mutant: the status is restored but the task is not requeued.
ReleaseForgetsQueue(c, t) ==
  IF c \in Elems(assignments)
  THEN /\ assignments' = Without(assignments, {c})
       /\ lockedBy' = [lockedBy EXCEPT ![t] = NoWorker]
       /\ status' = [status EXCEPT ![t] = "queued"]
       /\ UNCHANGED <<attempts, results, queue>>
  ELSE UNCHANGED taskState

\* _release_unreachable for assignment c and the task object t the caller
\* passed to dispatch_async.
Release(c, t) ==
  IF c \in Elems(assignments)
  THEN /\ assignments' = Without(assignments, {c})
       /\ lockedBy' = [lockedBy EXCEPT ![t] = NoWorker]
       /\ status' = [status EXCEPT ![t] = "queued"]
       /\ queue' = Requeue(queue, t)
       /\ UNCHANGED <<attempts, results>>
  ELSE UNCHANGED taskState

\* The master's own loop passes the assignment's task; the caller is given
\* a synthetic failure that carries the released assignment.
Unreachable(c) ==
  /\ c \in calls
  /\ calls' = calls \ {c}
  /\ replies' = replies \cup {ReplyOf(c, FALSE)}
  /\ Release(c, c.task)
  /\ UNCHANGED workerState

-----------------------------------------------------------------------------
(* accept_result.  The results it ignores (a stored success, an unknown    *)
(* task, no active assignment, another assignment's id) are stuttering.    *)

\* Mutant: the id of the assignment is not compared.
AnswersAnyAttempt(m, a) ==
  /\ ~ results[m.task].ok
  /\ status[m.task] # "unknown"
  /\ \E i \in ActiveIndex(m.task) : a = assignments[i]

\* The active assignment that result m answers.
Answers(m, a) ==
  /\ ~ results[m.task].ok
  /\ status[m.task] # "unknown"
  /\ \E i \in ActiveIndex(m.task) : a = assignments[i]
  /\ a.attempt = m.attempt

\* Mutant: release_worker is forgotten.
FinishKeepsLock(a) ==
  /\ assignments' = Without(assignments, {a})
  /\ UNCHANGED <<lockedBy, attempts, workerState, calls, replies>>

Finish(a) ==
  /\ assignments' = Without(assignments, {a})
  /\ lockedBy' = [lockedBy EXCEPT ![a.task] = NoWorker]
  /\ UNCHANGED <<attempts, workerState, calls, replies>>

CompleteTask(m, a) ==
  /\ m.ok
  /\ Answers(m, a)
  /\ status' = [status EXCEPT ![a.task] = "completed"]
  /\ results' = [results EXCEPT ![a.task] = Success(m.attempt)]
  /\ Finish(a)
  /\ UNCHANGED queue

RetryTask(m, a) ==
  /\ ~ m.ok
  /\ Answers(m, a)
  /\ ~ Exhausted(a.task)
  /\ status' = [status EXCEPT ![a.task] = "queued"]
  /\ queue' = Requeue(queue, a.task)
  /\ Finish(a)
  /\ UNCHANGED results

FailTask(m, a) ==
  /\ ~ m.ok
  /\ Answers(m, a)
  /\ Exhausted(a.task)
  /\ status' = [status EXCEPT ![a.task] = "failed"]
  /\ results' = [results EXCEPT ![a.task] = Failure(a.attempt)]
  /\ Finish(a)
  /\ UNCHANGED queue

AcceptResult(m) ==
  \E a \in Elems(assignments) :
    CompleteTask(m, a) \/ RetryTask(m, a) \/ FailTask(m, a)

-----------------------------------------------------------------------------
(* check_in_flight.  The k oldest assignments are overdue; Late are the    *)
(* workers found heartbeat-stale (none when no now_fn is given).           *)

CheckInFlight(k, Late) ==
  LET retired == SubSeq(assignments, 1, k)
      tasks == [i \in 1..k |-> assignments[i].task]
      timedOut == {t \in Elems(tasks) : status[t] # "cancelled"}
      failed == {t \in timedOut : Exhausted(t)}
      retried == timedOut \ failed
      unheard == {assignments[i].worker : i \in 1..k} \cap Late
  IN  /\ assignments' = Without(assignments, Elems(retired))
      /\ registry' = [w \in Workers |->
                        IF w \in unheard /\ registry[w] # "absent"
                        THEN "stale" ELSE registry[w]]
      /\ status' = [t \in Tasks |-> IF t \in failed THEN "failed"
                                    ELSE IF t \in retried THEN "queued"
                                    ELSE status[t]]
      /\ lockedBy' = [t \in Tasks |-> IF t \in timedOut THEN NoWorker
                                      ELSE lockedBy[t]]
      /\ results' = [t \in Tasks |-> IF t \in failed THEN Failure(0)
                                     ELSE results[t]]
      /\ queue' = queue \o Keep(tasks, retried \ Elems(queue))
      /\ UNCHANGED <<attempts, load, calls, replies>>

-----------------------------------------------------------------------------
(* The registry, driven by the worker endpoints.                           *)

\* A duplicate registration is rejected.
Register(w, s, l) ==
  /\ registry[w] = "absent"
  /\ registry' = [registry EXCEPT ![w] = s]
  /\ load' = [load EXCEPT ![w] = l]
  /\ UNCHANGED <<taskState, calls, replies>>

\* Any heartbeat of a registered worker overwrites its status, STALE too.
Heartbeat(w, s, l) ==
  /\ registry[w] # "absent"
  /\ registry' = [registry EXCEPT ![w] = s]
  /\ load' = [load EXCEPT ![w] = l]
  /\ UNCHANGED <<taskState, calls, replies>>

\* Nothing is done about the assignments of the worker.
Unregister(w) ==
  /\ registry[w] # "absent"
  /\ registry' = [registry EXCEPT ![w] = "absent"]
  /\ UNCHANGED <<taskState, load, calls, replies>>

-----------------------------------------------------------------------------
Dispatching ==
  \E Allowed \in SUBSET Tasks, Stale \in SUBSET Workers :
    DispatchNext(Allowed, Stale)

CallEnds ==
  \E c \in calls : Unreachable(c) \/ \E ok \in BOOLEAN : WorkerReplies(c, ok)

Sweeping ==
  \E k \in 1..Len(assignments), Late \in SUBSET Workers :
    CheckInFlight(k, Late)

WorkerTraffic ==
  \E w \in Workers :
    \/ Unregister(w)
    \/ \E s \in Reported, l \in Loads : Register(w, s, l) \/ Heartbeat(w, s, l)

Next ==
  \/ \E t \in Tasks : Submit(t) \/ Cancel(t)
  \/ Dispatching
  \/ CallEnds
  \/ \E m \in replies : AcceptResult(m)
  \/ Sweeping
  \/ WorkerTraffic

Spec == Init /\ [][Next]_vars

\* The event loop keeps running the master's loop: it dispatches with no
\* staleness callback and nothing refused, each transport call returns (it
\* has a timeout) and each result is handed over.
Fairness ==
  /\ WF_vars(DispatchNext(Tasks, {}))
  /\ \A c \in Assignment :
       WF_vars(Unreachable(c) \/ \E ok \in BOOLEAN : WorkerReplies(c, ok))
  /\ \A m \in Reply : WF_vars(m \in replies /\ AcceptResult(m))

FairSpec == Spec /\ Fairness

-----------------------------------------------------------------------------
(* Properties.                                                             *)

\* No two entries of the assignment table are for the same task.
OneEach(tab) ==
  \A i, j \in 1..Len(tab) : tab[i].task = tab[j].task => i = j

\* No task is lost or held twice: a queued task is in the deque, an assigned
\* one has exactly one entry in _assignments, a finished one is in neither
\* (a cancelled one may await its drain), and nothing occurs twice.
TaskInOnePlace ==
  /\ Distinct(queue)
  /\ OneEach(assignments)
  /\ \A t \in Tasks :
       /\ status[t] = "queued" => t \in Elems(queue)
       /\ t \in Elems(queue) => status[t] \in {"queued", "cancelled"}
       /\ status[t] = "assigned" <=>
            \E a \in Elems(assignments) : a.task = t

\* An entry of _assignments is its task's latest attempt and names the worker
\* the task is locked by; no other task is locked.
AssignmentIsCurrent ==
  /\ \A a \in Elems(assignments) :
       a.attempt = attempts[a.task] /\ a.worker = lockedBy[a.task]
  /\ \A t \in Tasks : status[t] # "assigned" => lockedBy[t] = NoWorker

\* A worker is asked at most once per attempt and answers at most once, so
\* with MaxRetries attempts a task is executed at most MaxRetries times.
OneOutcomePerAttempt ==
  /\ \A c, d \in calls : c.task = d.task /\ c.attempt = d.attempt => c = d
  /\ \A m, n \in replies : m.task = n.task /\ m.attempt = n.attempt => m = n
  /\ \A c \in calls, m \in replies :
       c.task = m.task => c.attempt # m.attempt

\* No call and no result is of an attempt yet to be made.
CallsArePast ==
  \A c \in calls \cup replies : c.attempt <= attempts[c.task]

\* accept_result applies a result exactly once: a task is completed when it
\* has a stored success, that success is of its latest attempt (a late answer
\* to an earlier one is not credited to the retry), and it is failed when it
\* has a stored failure.
ResultMatchesStatus ==
  \A t \in Tasks :
    /\ status[t] = "completed" <=> results[t].ok
    /\ status[t] = "failed" <=> results[t].stored /\ ~ results[t].ok
    /\ results[t].ok => results[t].attempt = attempts[t]

\* A completed, failed or cancelled task stays so with the same result,
\* whatever late replies, sweeps and dispatches follow.
TerminalIsFinal ==
  [][\A t \in Tasks : status[t] \in Terminal =>
       status'[t] = status[t] /\ results'[t] = results[t]]_vars

\* The deque is FIFO across drains: two tasks that stay queued keep their
\* order, whether or not an eligible worker was found for either.
QueueOrderStable ==
  [][\A t, u \in Elems(queue) \cap Elems(queue') :
       Precedes(queue, t, u) => Precedes(queue', t, u)]_vars

\* The promise of TaskLifecycle, read off the coordinator's own fields.
Lifecycle == INSTANCE TaskLifecycle WITH phase <- status, tries <- attempts

\* Whatever the interleaving, every task is accepted once, tried at most
\* MaxRetries times and ends once.
ImplementsLifecycle == Lifecycle!Spec

AllAvailable == \A w \in Workers : registry[w] = "available"

\* With capable workers available for good, every submitted task is
\* eventually completed, failed or cancelled: no call, queue position or
\* retry keeps it for ever.
EventuallyDecided ==
  <>[]AllAvailable =>
    \A t \in Tasks : status[t] = "queued" ~> status[t] \in Terminal
=============================================================================
