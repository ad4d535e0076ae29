---------------------------- MODULE Orchestrator ----------------------------
(***************************************************************************)
(* Orchestrator.execute with the four ways it can carry out a task: the    *)
(* problem-solving engine, a plan whose steps go to agents, the loop of    *)
(* model turns and tool calls, and the placeholder.                        *)
(*                                                                         *)
(* An execution is one call of execute with a task of its own, and `at' is *)
(* the call it awaits.  An action goes from the return of that call to the *)
(* next await.  Executions share the two fields the orchestrator keeps of  *)
(* the last plan.  Providers, agents and tools are external: each call may *)
(* return whatever the code tells apart.                                   *)
(***************************************************************************)
EXTENDS AgentRouting

CONSTANTS
  Executions,    \* calls of execute
  Setups,        \* how the orchestrator may have been built
  Tools,         \* names of the tools a model may call
  Policies,      \* what may be true of the tools
  MaxToolCalls,  \* MAX_TOOL_CALLS: the turns of the model
  MaxCalls,      \* bound on the tool calls of one turn
  MaxSteps,      \* bound on the steps of a plan
  Requirements   \* sets of capabilities that steps may require

Setup == [engine : BOOLEAN, planner : BOOLEAN, model : BOOLEAN, security : BOOLEAN]

(* A tool is not registered, declares no permission, or the policy decides *)
(* on its permission.                                                      *)
Verdicts == {"unregistered", "undeclared", "allow", "confirm", "deny"}

ASSUME OrchestratorAssumption ==
  /\ Setups \subseteq Setup
  /\ Policies \subseteq [Tools -> Verdicts]
  /\ MaxToolCalls \in Nat \ {0}
  /\ MaxCalls \in Nat \ {0}
  /\ MaxSteps \in Nat \ {0}

VARIABLES
  setup,      \* which parts the orchestrator has
  policy,     \* what is known of each tool, and what the policy says of it
  status,     \* task.status of the task of each execution
  exec,       \* the local state of each execution
  lastPlan,   \* _last_plan: the execution it was made for, and its steps
  lastSteps   \* _last_step_results

orchVars == <<setup, policy, status, exec, lastPlan, lastSteps>>

Statuses == {"PENDING", "RUNNING", "COMPLETED", "FAILED", "CANCELLED"}
Awaits == {"engine", "planner", "agent", "chat", "tool", "sleep"}

BoundedSeqs(S, n) == UNION {[1..k -> S] : k \in 1..n}

Plans == BoundedSeqs(Requirements, MaxSteps)
CallLists == BoundedSeqs(Tools, MaxCalls)
StepResult == [of : Executions, number : 1..MaxSteps, ok : BOOLEAN]
NoPlan == [of |-> "none", steps |-> <<>>]

(* turn: model turns that asked for tools.  asked, told: tool calls of the *)
(* model and tool messages given back to it.                               *)
Fresh == [at |-> "none", turn |-> 0, calls |-> <<>>, asked |-> 0, told |-> 0,
          plan |-> <<>>, steps |-> <<>>, answer |-> "none"]

OrchTypeOK ==
  /\ status \in [Executions -> Statuses]
  /\ lastSteps \in Seq(StepResult)
  /\ \A e \in Executions :
       /\ exec[e].at \in Awaits \cup {"none", "returned"}
       /\ exec[e].steps \in Seq(StepResult)
       /\ exec[e].told <= exec[e].asked

OrchInit ==
  /\ setup \in Setups
  /\ policy \in Policies
  /\ status = [e \in Executions |-> "PENDING"]
  /\ exec = [e \in Executions |-> Fresh]
  /\ lastPlan = NoPlan
  /\ lastSteps = <<>>

-----------------------------------------------------------------------------
(* The dispatch of _orchestrate.                                           *)
Plannable == setup.planner /\ Registered # {}
Path ==
  CASE setup.engine                                 -> "engine"
    [] ~setup.engine /\ Plannable                   -> "planner"
    [] ~setup.engine /\ ~Plannable /\ setup.model   -> "chat"
    [] ~setup.engine /\ ~Plannable /\ ~setup.model  -> "sleep"

Became(e, new) == exec' = [exec EXCEPT ![e] = new]

(* execute turns the output or the exception into a status and a result.   *)
Finish(e, new, ok) ==
  /\ status' = [status EXCEPT ![e] = IF ok THEN "COMPLETED" ELSE "FAILED"]
  /\ Became(e, [new EXCEPT !.at = "returned", !.answer = IF ok THEN "ok" ELSE "fail"])

Await(e, new, call) == Became(e, [new EXCEPT !.at = call]) /\ UNCHANGED status

Execute(e) ==
  /\ exec[e].at = "none"
  /\ status' = [status EXCEPT ![e] = "RUNNING"]
  /\ exec' = [exec EXCEPT ![e].at = Path]
  /\ UNCHANGED <<setup, policy, lastPlan, lastSteps>>

(* _orchestrate_problem_solving, and the placeholder, which cannot fail.   *)
EngineReturns(e) ==
  /\ exec[e].at = "engine"
  /\ \E ok \in BOOLEAN : Finish(e, exec[e], ok)
  /\ UNCHANGED <<setup, policy, lastPlan, lastSteps>>

SleepEnds(e) ==
  /\ exec[e].at = "sleep"
  /\ Finish(e, exec[e], TRUE)
  /\ UNCHANGED <<setup, policy, lastPlan, lastSteps>>

-----------------------------------------------------------------------------
(* The planned path: route the next step, or end.                          *)
WithStep(e, x, ok) ==
  [x EXCEPT !.steps = Append(@, [of |-> e, number |-> Len(@) + 1, ok |-> ok])]

Failed(e, x) ==
  LET y == WithStep(e, x, FALSE) IN lastSteps' = y.steps /\ Finish(e, y, FALSE)

NextStep(e, x, kept) ==
  LET i == Len(x.steps) + 1 IN
  \/ i > Len(x.plan) /\ lastSteps' = x.steps /\ Finish(e, x, TRUE)
  \/ i <= Len(x.plan) /\ ~Routable(x.plan[i]) /\ Failed(e, x)
  \/ i <= Len(x.plan) /\ Routable(x.plan[i]) /\ lastSteps' = kept /\ Await(e, x, "agent")

PlannerRaises(e) ==
  /\ exec[e].at = "planner"
  /\ Finish(e, exec[e], FALSE)
  /\ UNCHANGED <<setup, policy, lastPlan, lastSteps>>

PlannerReturns(e) ==
  /\ exec[e].at = "planner"
  /\ \E plan \in Plans :
       /\ lastPlan' = [of |-> e, steps |-> plan]
       /\ NextStep(e, [exec[e] EXCEPT !.plan = plan], <<>>)
  /\ UNCHANGED <<setup, policy>>

AgentReturns(e) ==
  /\ exec[e].at = "agent"
  /\ \/ NextStep(e, WithStep(e, exec[e], TRUE), lastSteps)
     \/ Failed(e, exec[e])
  /\ UNCHANGED <<setup, policy, lastPlan>>

-----------------------------------------------------------------------------
(* The tool-calling path.  A call of an unregistered tool and one that     *)
(* _check_tool_security blocks are answered at once; the first one that    *)
(* may run is awaited.                                                     *)
Runs(tool) ==
  \/ policy[tool] = "allow"
  \/ ~setup.security /\ policy[tool] # "unregistered"

NextRunnable(calls) ==
  CHOOSE i \in 1..(Len(calls) + 1) :
    /\ i <= Len(calls) => Runs(calls[i])
    /\ \A j \in 1..(i - 1) : ~Runs(calls[j])

(* Mutant: a blocked call gets no tool message.                            *)
RunNextSilent(e, x, calls) ==
  LET i == NextRunnable(calls)
      y == [x EXCEPT !.calls = SubSeq(calls, i, Len(calls))]
  IN \/ i <= Len(calls) /\ Await(e, y, "tool")
     \/ i > Len(calls) /\ y.turn < MaxToolCalls /\ Await(e, y, "chat")
     \/ i > Len(calls) /\ y.turn = MaxToolCalls /\ Finish(e, y, FALSE)

RunNext(e, x, calls) ==
  LET i == NextRunnable(calls)
      y == [x EXCEPT !.told = @ + i - 1, !.calls = SubSeq(calls, i, Len(calls))]
  IN \/ i <= Len(calls) /\ Await(e, y, "tool")
     \/ i > Len(calls) /\ y.turn < MaxToolCalls /\ Await(e, y, "chat")
     \/ i > Len(calls) /\ y.turn = MaxToolCalls /\ Finish(e, y, FALSE)

ChatEnds(e) ==
  /\ exec[e].at = "chat"
  /\ \E ok \in BOOLEAN : Finish(e, exec[e], ok)
  /\ UNCHANGED <<setup, policy, lastPlan, lastSteps>>

ChatAsksTools(e) ==
  /\ exec[e].at = "chat"
  /\ \E calls \in CallLists :
       RunNext(e, [exec[e] EXCEPT !.turn = @ + 1, !.asked = @ + Len(calls)], calls)
  /\ UNCHANGED <<setup, policy, lastPlan, lastSteps>>

(* A tool that raises is one that failed: the loop goes on.                *)
ToolReturns(e) ==
  /\ exec[e].at = "tool"
  /\ RunNext(e, [exec[e] EXCEPT !.told = @ + 1], Tail(exec[e].calls))
  /\ UNCHANGED <<setup, policy, lastPlan, lastSteps>>

(* CancelledError at the await: execute catches only Exception.            *)
Abort(e) ==
  /\ exec[e].at \in Awaits
  /\ Became(e, [exec[e] EXCEPT !.at = "returned", !.answer = "aborted"])
  /\ UNCHANGED <<setup, policy, status, lastPlan, lastSteps>>

CallReturns(e) ==
  \/ EngineReturns(e) \/ SleepEnds(e)
  \/ PlannerRaises(e) \/ PlannerReturns(e) \/ AgentReturns(e)
  \/ ChatEnds(e) \/ ChatAsksTools(e) \/ ToolReturns(e)

OrchNext == \E e \in Executions : Execute(e) \/ CallReturns(e) \/ Abort(e)

OrchSpec == OrchInit /\ [][OrchNext]_orchVars

-----------------------------------------------------------------------------
(* The model is asked again, and a task ends, only when every tool call of *)
(* the turns so far has its tool message: also those that were denied, of  *)
(* an unknown tool, or raised.                                             *)
CallsAreAnswered ==
  \A e \in Executions :
    LET x == exec[e] IN
    /\ x.answer # "aborted" => x.told + Len(x.calls) = x.asked
    /\ x.at = "chat" \/ x.answer \in {"ok", "fail"} => x.told = x.asked
=============================================================================
