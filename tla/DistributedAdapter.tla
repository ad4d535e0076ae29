------------------------- MODULE DistributedAdapter -------------------------
(***************************************************************************)
(* DistributedAdapter.submit_and_await_async: callers that share one       *)
(* DistributedCoordinator, each looping over dispatch_next, dispatch_async *)
(* and accept_result until its own task is decided.  dispatch_next returns *)
(* the oldest assignable task, which need not be the caller's; the loop    *)
(* sends and releases that assignment with the caller's own task.          *)
(*                                                                         *)
(* The event loop runs a caller without interruption between two awaits:   *)
(* `turn' is the caller that is between two, if any.                       *)
(***************************************************************************)
EXTENDS DistributedCoordinator

CONSTANTS
  Callers,    \* tasks submitted through the adapter, one caller for each
              \* (a task's id is made with it: nobody submits it before)
  NoCaller,
  Budget      \* max_polls

ASSUME AdapterAssumption ==
  /\ Callers \subseteq Tasks
  /\ NoCaller \notin Tasks
  /\ Budget \in Nat

VARIABLES
  turn,      \* the caller running between two awaits
  pc,        \* where each caller is in its loop
  polls,     \* its count of fruitless polls
  held,      \* the assignment it is dispatching
  answer,    \* what dispatch_async returned to it
  outcome,   \* what submit_and_await_async returned
  runs       \* executions on workers: the task run, for which assignment

adapterVars == <<turn, pc, polls, held, answer, outcome, runs>>
allVars == <<vars, adapterVars>>

Places ==
  {"idle", "check", "dispatch", "sleeping", "waiting", "accept", "returned"}
Outcomes == {"none", "ok", "failed", "budget"}

NoAssignment == [attempt |-> 0]
NoAnswer == [ok |-> FALSE, task |-> NoCaller, for |-> NoAssignment]

AdapterInit ==
  /\ Init
  /\ turn = NoCaller
  /\ pc = [t \in Callers |-> "idle"]
  /\ polls = [t \in Callers |-> 0]
  /\ held = [t \in Callers |-> NoAssignment]
  /\ answer = [t \in Callers |-> NoAnswer]
  /\ outcome = [t \in Callers |-> "none"]
  /\ runs = {}

Goto(t, place) == pc' = [pc EXCEPT ![t] = place]

-----------------------------------------------------------------------------
(* One caller.                                                             *)

\* submit, then the loop.  What submit returns is not looked at: as the task's
\* id is new, the object the coordinator registers is the caller's own.
Start(t) ==
  /\ turn = NoCaller
  /\ pc[t] = "idle"
  /\ Submit(t)
  /\ turn' = t
  /\ Goto(t, "check")
  /\ UNCHANGED <<polls, held, answer, outcome, runs>>

Wake(t) ==
  /\ turn = NoCaller
  /\ pc[t] = "sleeping"
  /\ turn' = t
  /\ Goto(t, "check")
  /\ UNCHANGED <<vars, polls, held, answer, outcome, runs>>

Return(t, o) ==
  /\ outcome' = [outcome EXCEPT ![t] = o]
  /\ turn' = NoCaller
  /\ Goto(t, "returned")
  /\ UNCHANGED <<vars, polls, held, answer, runs>>

HasBudget(t) == polls[t] < Budget

\* Mutant: what has not failed is reported as done.
DecisionUnlessFailed(t) == IF status[t] = "failed" THEN "failed" ELSE "ok"

\* _make_result, from the status of the caller's own object.
Decision(t) == IF status[t] = "completed" THEN "ok" ELSE "failed"

\* The loop condition and the status test.
Check(t) ==
  /\ turn = t
  /\ pc[t] = "check"
  /\ \/ ~ HasBudget(t) /\ Return(t, "budget")
     \/ /\ HasBudget(t)
        /\ status[t] \in Terminal
        /\ Return(t, Decision(t))
     \/ /\ HasBudget(t)
        /\ status[t] \notin Terminal
        /\ Goto(t, "dispatch")
        /\ UNCHANGED <<vars, turn, polls, held, answer, outcome, runs>>

\* Mutant: a fruitless poll is not counted.
NotPolled(t) == polls[t]

Polled(t) == polls[t] + 1

\* dispatch_next without a staleness callback: nothing to assign, so sleep.
PollAgain(t) ==
  /\ turn = t
  /\ pc[t] = "dispatch"
  /\ DispatchNone(Tasks, {})
  /\ polls' = [polls EXCEPT ![t] = Polled(t)]
  /\ turn' = NoCaller
  /\ Goto(t, "sleeping")
  /\ UNCHANGED <<held, answer, outcome, runs>>

\* dispatch_next returned an assignment, of t or of another task.
Dispatch(t) ==
  /\ turn = t
  /\ pc[t] = "dispatch"
  /\ \E i \in 1..Len(queue) : DispatchOne(i, Tasks, {})
  /\ held' = [held EXCEPT ![t] = assignments'[Len(assignments')]]
  /\ turn' = NoCaller
  /\ Goto(t, "waiting")
  /\ UNCHANGED <<polls, answer, outcome, runs>>

\* The worker ran the task in the request, which is t, and echoed the
\* assignment's id.
WorkerRan(t, ok) ==
  /\ answer' = [answer EXCEPT ![t] = [ok |-> ok, task |-> t, for |-> held[t]]]
  /\ runs' = runs \cup {[ok |-> ok, task |-> t, for |-> held[t]]}
  /\ UNCHANGED taskState

\* The assignment is released with t as its task; the synthetic failure
\* names the task of the assignment.
WorkerUnreachable(t) ==
  /\ Release(held[t], t)
  /\ answer' = [answer EXCEPT ![t] =
                  [ok |-> FALSE, task |-> held[t].task, for |-> held[t]]]
  /\ UNCHANGED runs

Resume(t) ==
  /\ turn = NoCaller
  /\ pc[t] = "waiting"
  /\ WorkerUnreachable(t) \/ \E ok \in BOOLEAN : WorkerRan(t, ok)
  /\ calls' = calls \ {held[t]}
  /\ turn' = t
  /\ Goto(t, "accept")
  /\ UNCHANGED <<workerState, replies, polls, held, outcome>>

\* Mutant: the assignment id is compared as if it were the attempt number.
AsReplyOfAnyTask(m) ==
  [task |-> m.task, ok |-> m.ok, attempt |-> m.for.attempt]

\* The answer as accept_result reads it; the id of another task's assignment
\* is the id of no active assignment of the answer's task.
AsReply(m) ==
  [task |-> m.task, ok |-> m.ok,
   attempt |-> IF m.for.task = m.task THEN m.for.attempt ELSE 0]

Accept(t) ==
  /\ turn = t
  /\ pc[t] = "accept"
  /\ LET m == AsReply(answer[t])
     IN  \/ AcceptResult(m)
         \/ ~ (\E a \in Elems(assignments) : Answers(m, a)) /\ UNCHANGED vars
  /\ held' = [held EXCEPT ![t] = NoAssignment]
  /\ answer' = [answer EXCEPT ![t] = NoAnswer]
  /\ Goto(t, "check")
  /\ UNCHANGED <<turn, polls, outcome, runs>>

Caller(t) ==
  Start(t) \/ Wake(t) \/ Check(t) \/ PollAgain(t) \/ Dispatch(t)
    \/ Resume(t) \/ Accept(t)

-----------------------------------------------------------------------------
(* The master's HTTP endpoints, between two turns.  They submit tasks of   *)
(* their own and cancel any.                                               *)

Endpoint ==
  /\ turn = NoCaller
  /\ \/ \E t \in Tasks \ Callers : Submit(t)
     \/ \E t \in Tasks : Cancel(t)
     \/ WorkerTraffic
  /\ UNCHANGED adapterVars

AdapterNext == Endpoint \/ \E t \in Callers : Caller(t)

AdapterSpec == AdapterInit /\ [][AdapterNext]_allVars

\* A sleep ends, a transport call returns, and a coroutine that can run does.
FairAdapterSpec == AdapterSpec /\ \A t \in Callers : WF_allVars(Caller(t))

-----------------------------------------------------------------------------
(* Properties.                                                             *)

RunsOf(t) == {r \in runs : r.task = t}

\* No other task was ever submitted, by a caller or through an endpoint.
Alone(t) == \A u \in Tasks \ {t} : status[u] = "unknown"

\* A task runs at most MaxRetries times on workers, also when callers share
\* the coordinator.
RunsBounded == \A t \in Callers : Cardinality(RunsOf(t)) <= MaxRetries

\* A caller is told "ok" only if a worker ran its own task, for an assignment
\* of that task, with success: no result of another caller's dispatch is
\* credited to it.
SuccessIsReal ==
  \A t \in Callers : outcome[t] = "ok" =>
    \E r \in RunsOf(t) : r.ok /\ r.for.task = t

\* The caller of a task submitted alone is told its final status, unless the
\* poll budget is used up.
ReturnsTheDecision ==
  \A t \in Callers : Alone(t) =>
    /\ outcome[t] = "ok" => status[t] = "completed"
    /\ outcome[t] = "failed" => status[t] \in {"failed", "cancelled"}
    /\ outcome[t] = "budget" => polls[t] >= Budget

\* Every call of submit_and_await_async returns, whatever the other callers,
\* the workers and the endpoints do: an iteration that does not use up the
\* poll budget uses up an attempt.
CallerReturns == \A t \in Callers : pc[t] = "check" ~> pc[t] = "returned"
=============================================================================
