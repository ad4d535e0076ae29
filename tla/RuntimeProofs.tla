--------------------------- MODULE RuntimeProofs ---------------------------
(***************************************************************************)
(* The runtime, for any number of startups, shutdowns and requests and any *)
(* configurations: its lifecycle, which the requests leave alone, the      *)
(* executions of the orchestrator it shares among them, and what the       *)
(* callers of handle_text are told.                                        *)
(***************************************************************************)
EXTENDS Runtime, WellFoundedInduction, TLAPS

LifecycleTypes ==
  /\ startup = [s \in Startups |-> startup[s]]
  /\ shutdown = [d \in Shutdowns |-> [at |-> shutdown[d].at, target |-> shutdown[d].target]]

\* A shutdown that does anything has set the flag first.
ShutdownsAreNoted ==
  \A d \in Shutdowns : shutdown[d].at \in {"browser", "returned"} => shutdownCalled

\* In an orderly use there is one startup at a time and none after the
\* shutdown, and no browser runs before the startup's own has started.
StartsAlone ==
  orderly =>
    /\ \A s, t \in Starting : s = t
    /\ Starting # {} => ~ shutdownCalled
    /\ \A s \in Startups : startup[s] = "browser" => open = {}

RuntimeInv ==
  LifecycleTypes /\ ShutdownsAreNoted /\ StartsAlone /\ BrowserIsHeld /\ ShutdownSticks

LEMMA RuntimeInitially == Init => RuntimeInv
  BY DEF Init, RuntimeInv, LifecycleTypes, ShutdownsAreNoted, StartsAlone, Starting,
         BrowserIsHeld, ShutdownSticks, None

LEMMA StartupStep ==
  ASSUME RuntimeInv, NEW s \in Startups, Startup(s)
  PROVE  RuntimeInv'
<1> USE DEF RuntimeInv, LifecycleTypes, ShutdownsAreNoted, StartsAlone, Starting,
            BrowserIsHeld, ShutdownSticks, None
<1>1. UNCHANGED <<shutdownCalled, shutdown, browserTools, open>>
  BY DEF Startup
<1>2. CASE /\ startup' = [startup EXCEPT ![s] = "returned"]
           /\ UNCHANGED <<ready, orderly>>
  BY <1>1, <1>2
<1>3. CASE NoteStartup /\ \E at : startup' = [startup EXCEPT ![s] = at]
  BY <1>1, <1>3 DEF NoteStartup
<1>4. \/ /\ startup' = [startup EXCEPT ![s] = "returned"]
         /\ UNCHANGED <<ready, orderly>>
      \/ NoteStartup /\ startup' = [startup EXCEPT ![s] = "browser"]
      \/ NoteStartup /\ FinishStartup(s, browserTools)
  BY DEF Startup
<1>5. FinishStartup(s, browserTools) => \E at : startup' = [startup EXCEPT ![s] = at]
  BY DEF FinishStartup
<1> QED BY <1>2, <1>3, <1>4, <1>5

LEMMA BrowserStep ==
  ASSUME RuntimeInv, NEW s \in Startups, BrowserStarts(s) \/ BrowserFails(s)
  PROVE  RuntimeInv'
<1> USE DEF RuntimeInv, LifecycleTypes, ShutdownsAreNoted, StartsAlone, Starting,
            BrowserIsHeld, ShutdownSticks, None
<1>1. UNCHANGED <<shutdownCalled, shutdown, orderly>> /\ startup[s] = "browser"
  BY DEF BrowserStarts, BrowserFails
<1>2. PICK at \in {"returned", "raised", "cleanup"} : startup' = [startup EXCEPT ![s] = at]
  BY DEF BrowserStarts, BrowserFails, FinishStartup
<1>3. \/ open' = open \cup {s} /\ browserTools' = s
      \/ UNCHANGED <<open, browserTools>>
  BY DEF BrowserStarts, BrowserFails
<1>4. orderly => open = {} /\ ~ shutdownCalled /\ \A t \in Starting : t = s
  BY <1>1
<1>5. orderly => \A t \in Startups : t # s => startup[t] \notin {"browser", "cleanup"}
  BY <1>4
<1>6. LifecycleTypes' /\ ShutdownsAreNoted'
  BY <1>1, <1>2
<1>7. /\ startup'[s] # "browser"
      /\ \A t \in Startups : t # s => startup'[t] = startup[t]
  BY <1>2
<1>8. StartsAlone'
  BY <1>1, <1>4, <1>5, <1>7
<1>9. BrowserIsHeld'
  BY <1>1, <1>3, <1>4
<1>10. ShutdownSticks'
  BY <1>1, <1>4
<1> QED BY <1>6, <1>8, <1>9, <1>10

LEMMA CleanupStep ==
  ASSUME RuntimeInv, NEW s \in Startups, CleanupEnds(s)
  PROVE  RuntimeInv'
<1> USE DEF RuntimeInv, LifecycleTypes, ShutdownsAreNoted, StartsAlone, Starting,
            BrowserIsHeld, ShutdownSticks, None
<1>1. /\ UNCHANGED <<ready, shutdownCalled, shutdown, browserTools, orderly>>
      /\ startup' = [startup EXCEPT ![s] = "raised"]
      /\ open' \subseteq open
  BY DEF CleanupEnds
<1>2. LifecycleTypes' /\ ShutdownsAreNoted' /\ BrowserIsHeld' /\ ShutdownSticks'
  BY <1>1
<1>3. StartsAlone'
  <2>1. /\ startup'[s] = "raised"
        /\ \A t \in Startups : t # s => startup'[t] = startup[t]
    BY <1>1
  <2> QED BY <1>1, <2>1
<1> QED BY <1>2, <1>3

LEMMA ShutdownStep ==
  ASSUME RuntimeInv, NEW d \in Shutdowns, Shutdown(d) \/ ShutdownEnds(d)
  PROVE  RuntimeInv'
<1> USE DEF RuntimeInv, LifecycleTypes, ShutdownsAreNoted, StartsAlone, Starting,
            BrowserIsHeld, ShutdownSticks, None
<1>1. CASE Shutdown(d)
  <2>1. UNCHANGED <<startup, browserTools, open>>
    BY <1>1 DEF Shutdown
  <2>2. CASE shutdownCalled
    <3>1. /\ shutdown' = [shutdown EXCEPT ![d].at = "ignored"]
          /\ UNCHANGED <<ready, shutdownCalled, orderly>>
      BY <1>1, <2>2 DEF Shutdown
    <3>2. \A e \in Shutdowns : shutdown'[e].at = "returned" => shutdown[e].at = "returned"
      BY <3>1
    <3> QED BY <2>1, <2>2, <3>1, <3>2
  <2>3. CASE ~ shutdownCalled
    <3>1. /\ NoteShutdown /\ shutdownCalled' = TRUE
          /\ \/ ready' = FALSE /\ shutdown' = [shutdown EXCEPT ![d].at = "returned"]
             \/ shutdown' = [shutdown EXCEPT ![d] = [at |-> "browser", target |-> browserTools]]
      BY <1>1, <2>3 DEF Shutdown
    <3>2. \A e \in Shutdowns : shutdown[e].at # "returned"
      BY <2>3
    <3>3. ready' = FALSE \/ \A e \in Shutdowns : shutdown'[e].at # "returned"
      BY <3>1, <3>2
    <3>4. LifecycleTypes'
      BY <2>1, <3>1
    <3> QED BY <2>1, <3>1, <3>3, <3>4 DEF NoteShutdown
  <2> QED BY <2>2, <2>3
<1>2. CASE ShutdownEnds(d)
  BY <1>2 DEF ShutdownEnds
<1> QED BY <1>1, <1>2

LEMMA LifecycleUnchanged ==
  ASSUME RuntimeInv, UNCHANGED lifecycle
  PROVE  RuntimeInv'
  BY DEF lifecycle, RuntimeInv, LifecycleTypes, ShutdownsAreNoted, StartsAlone, Starting,
         BrowserIsHeld, ShutdownSticks

LEMMA RuntimeInvariant == Spec => []RuntimeInv
<1>1. RuntimeInv /\ [Next]_vars => RuntimeInv'
  <2>1. SUFFICES ASSUME RuntimeInv, Next
                 PROVE  RuntimeInv'
    BY LifecycleUnchanged DEF vars
  <2>2. CASE \E r \in Requests : HandleText(r) \/ HandleTask(r) \/ HandleVoice(r)
                                 \/ Progress(r) \/ VoiceReturns(r) \/ Timeout(r)
    <3>1. UNCHANGED lifecycle
      BY <2>2 DEF HandleText, HandleTask, HandleVoice, Progress, VoiceReturns, Timeout
    <3> QED BY <2>1, <3>1, LifecycleUnchanged
  <2> QED BY <2>1, <2>2, StartupStep, BrowserStep, CleanupStep, ShutdownStep DEF Next
<1> QED BY <1>1, RuntimeInitially, PTL DEF Spec

\* In an orderly use the only browser that may run is the one the runtime
\* holds and its shutdown stops.
THEOREM BrowserStaysHeld == Spec => []BrowserIsHeld
  BY RuntimeInvariant, PTL DEF RuntimeInv

\* In an orderly use nothing makes the runtime ready after its shutdown has
\* returned, no startup that was still awaiting its browser either.
THEOREM ShutdownIsLast == Spec => []ShutdownSticks
  BY RuntimeInvariant, PTL DEF RuntimeInv
-----------------------------------------------------------------------------
(* The executions of the orchestrator.                                     *)

Execution == [at : Awaits \cup {"none", "returned"}, turn : Nat,
              calls : Seq(Tools), asked : Nat, told : Nat,
              plan : Plans \cup {<<>>}, steps : Seq(StepResult),
              answer : {"none", "ok", "fail", "aborted"}]

\* The tool messages lag the calls asked for by those still to do, which only
\* an execution at a tool has; a step goes to an agent while the plan has one.
CallsInv(x) ==
  /\ x.told + Len(x.calls) = x.asked
  /\ x.at = "tool" => x.calls # <<>>
  /\ x.at \notin {"tool", "returned"} \/ x.answer \in {"ok", "fail"} => x.calls = <<>>
  /\ x.at \in {"none", "planner"} => x.steps = <<>>
  /\ x.at = "agent" => Len(x.steps) < Len(x.plan)

\* What execute does to the status of the task.
StatusOf(x, st) ==
  /\ x.at = "returned" <=> x.answer # "none"
  /\ x.at = "none" => st = "PENDING"
  /\ x.at \in Awaits \/ x.answer = "aborted" => st = "RUNNING"
  /\ x.answer = "ok" => st = "COMPLETED"
  /\ x.answer = "fail" => st = "FAILED"

ExecInv(x, st) == x \in Execution /\ CallsInv(x) /\ StatusOf(x, st)

OrchInv ==
  /\ exec \in [Executions -> Execution]
  /\ status \in [Executions -> Statuses]
  /\ lastSteps \in Seq(StepResult)
  /\ policy \in Policies
  /\ \A e \in Executions : ExecInv(exec[e], status[e])

\* A set of numbers that is not empty has a least one.
LEMMA LeastNumber ==
  ASSUME NEW T \in SUBSET Nat, T # {}
  PROVE  \E m \in T : \A k \in T : ~ (k < m)
<1>1. \E R : /\ \E m \in T : \A k \in T : ~ (<<k, m>> \in R)
             /\ \A k, m \in Nat : k < m => <<k, m>> \in R
  <2>1. \E m \in T : \A k \in T : ~ (<<k, m>> \in OpToRel(<, Nat))
    BY NatLessThanWellFounded, WFMin
  <2>2. \A k, m \in Nat : k < m => <<k, m>> \in OpToRel(<, Nat)
    BY DEF OpToRel
  <2> QED BY <2>1, <2>2, Zenon
<1>2. PICK R : /\ \E m \in T : \A k \in T : ~ (<<k, m>> \in R)
               /\ \A k, m \in Nat : k < m => <<k, m>> \in R
  BY <1>1
<1> QED BY <1>2

\* The first call that may run is found, or the end of the calls is.
LEMMA NextRunnableFound ==
  ASSUME NEW calls \in Seq(Tools)
  PROVE  /\ NextRunnable(calls) \in 1..(Len(calls) + 1)
         /\ NextRunnable(calls) <= Len(calls) => Runs(calls[NextRunnable(calls)])
<1> DEFINE T == {i \in 1..(Len(calls) + 1) : i <= Len(calls) => Runs(calls[i])}
           Found(i) == /\ i <= Len(calls) => Runs(calls[i])
                       /\ \A j \in 1..(i - 1) : ~Runs(calls[j])
<1>1. T \in SUBSET Nat /\ Len(calls) + 1 \in T
  OBVIOUS
<1>2. PICK m \in T : \A k \in T : ~ (k < m)
  BY <1>1, LeastNumber
<1>3. \A j \in 1..(m - 1) : ~Runs(calls[j])
  BY <1>2
<1>4. \E i \in 1..(Len(calls) + 1) : Found(i)
  BY <1>2, <1>3
<1>5. NextRunnable(calls) = CHOOSE i \in 1..(Len(calls) + 1) : Found(i)
  BY DEF NextRunnable
<1> HIDE DEF Found
<1>6. NextRunnable(calls) \in 1..(Len(calls) + 1) /\ Found(NextRunnable(calls))
  BY <1>4, <1>5
<1> QED BY <1>6 DEF Found

\* A step of execution e leaves the others alone and its own record sound.
Keeps(e) ==
  /\ \E x \in Execution : exec' = [exec EXCEPT ![e] = x]
  /\ \E st \in Statuses : status' = [status EXCEPT ![e] = st]
  /\ ExecInv(exec'[e], status'[e])

\* So does the return of an awaited call, and it leads to the next await or to
\* the end.
Goes(e) ==
  Keeps(e) /\ (exec'[e].at \in Awaits \/ exec'[e].answer \in {"ok", "fail"})

LEMMA FinishKeeps ==
  ASSUME OrchInv, NEW e \in Executions, NEW x \in Execution, NEW ok \in BOOLEAN,
         x.calls = <<>>, x.told = x.asked, Finish(e, x, ok)
  PROVE  Goes(e)
<1> DEFINE y == [x EXCEPT !.at = "returned", !.answer = IF ok THEN "ok" ELSE "fail"]
           st == IF ok THEN "COMPLETED" ELSE "FAILED"
<1>1. y \in Execution /\ st \in Statuses
  BY DEF Execution, Statuses
<1>2. /\ y.at = "returned" /\ y.calls = <<>> /\ y.told = x.told /\ y.asked = x.asked
      /\ y.answer = IF ok THEN "ok" ELSE "fail"
  BY DEF Execution
<1>3. exec' = [exec EXCEPT ![e] = y] /\ status' = [status EXCEPT ![e] = st]
  BY DEF Finish, Became
<1>4. x.told \in Nat
  BY DEF Execution
<1>5. CallsInv(y) /\ StatusOf(y, st)
  BY <1>2, <1>4 DEF CallsInv, StatusOf, Awaits
<1>6. y.answer \in {"ok", "fail"}
  BY <1>2
<1> HIDE DEF y, st
<1>7. exec'[e] = y /\ status'[e] = st
  BY <1>3 DEF OrchInv
<1> QED BY <1>1, <1>3, <1>5, <1>6, <1>7 DEF Goes, Keeps, ExecInv

LEMMA AwaitKeeps ==
  ASSUME OrchInv, NEW e \in Executions, NEW x \in Execution, NEW call \in {"agent", "chat", "tool"},
         exec[e].at \in Awaits, x.answer = "none",
         x.told + Len(x.calls) = x.asked,
         IF call = "tool" THEN x.calls # <<>> ELSE x.calls = <<>>,
         call = "agent" => Len(x.steps) < Len(x.plan),
         Await(e, x, call)
  PROVE  Goes(e)
<1> DEFINE y == [x EXCEPT !.at = call]
<1>1. y \in Execution
  BY DEF Execution, Awaits
<1>2. /\ y.at = call /\ y.calls = x.calls /\ y.told = x.told /\ y.asked = x.asked
      /\ y.answer = x.answer /\ y.steps = x.steps /\ y.plan = x.plan
  BY DEF Execution
<1>3. exec' = [exec EXCEPT ![e] = y] /\ status' = status
  BY DEF Await, Became
<1>4. status[e] = "RUNNING"
  BY DEF OrchInv, ExecInv, StatusOf
<1>5. CallsInv(y) /\ StatusOf(y, status[e])
  BY <1>2, <1>4 DEF CallsInv, StatusOf, Awaits
<1> HIDE DEF y
<1>6. exec'[e] = y /\ status' = [status EXCEPT ![e] = status[e]] /\ status[e] \in Statuses
  BY <1>3 DEF OrchInv
<1>7. y.at \in Awaits
  BY <1>2 DEF Awaits
<1> QED BY <1>1, <1>3, <1>5, <1>6, <1>7 DEF Goes, Keeps, ExecInv
\* The calls left over after those that are answered at once are still owed
\* their messages; when none is left every call has its own.
LEMMA RunNextKeeps ==
  ASSUME OrchInv, NEW e \in Executions, NEW x \in Execution, NEW calls \in Seq(Tools),
         exec[e].at \in Awaits, x.answer = "none",
         x.told + Len(calls) = x.asked, RunNext(e, x, calls)
  PROVE  Goes(e)
<1> DEFINE i == NextRunnable(calls)
           y == [x EXCEPT !.told = @ + i - 1, !.calls = SubSeq(calls, i, Len(calls))]
<1>1. i \in 1..(Len(calls) + 1)
  BY NextRunnableFound
<1>2. \/ i <= Len(calls) /\ Await(e, y, "tool")
      \/ i > Len(calls) /\ Await(e, y, "chat")
      \/ i > Len(calls) /\ Finish(e, y, FALSE)
  BY DEF RunNext
<1> HIDE DEF i
<1>3. /\ SubSeq(calls, i, Len(calls)) \in Seq(Tools)
      /\ Len(SubSeq(calls, i, Len(calls))) = Len(calls) - i + 1
  BY <1>1
<1>4. x.told \in Nat /\ x.asked \in Nat /\ Len(calls) \in Nat
  BY DEF Execution
<1>5. PICK t, s : /\ t = x.told + i - 1 /\ s = SubSeq(calls, i, Len(calls))
                  /\ y = [x EXCEPT !.told = t, !.calls = s]
  BY DEF Execution
<1>6. t \in Nat /\ s \in Seq(Tools) /\ Len(s) = Len(calls) - i + 1
  BY <1>1, <1>3, <1>4, <1>5
<1>7. /\ y \in Execution /\ y.told = t /\ y.calls = s
      /\ y.asked = x.asked /\ y.answer = x.answer
  BY <1>5, <1>6 DEF Execution
<1> HIDE DEF y
<1>8. y.told + Len(y.calls) = y.asked
  <2>1. t = x.told + i - 1
    BY <1>5
  <2>2. i \in Nat
    BY <1>1, <1>4
  <2>3. Len(s) = Len(calls) - i + 1
    BY <1>6
  <2>4. t + Len(s) = x.told + Len(calls)
    BY <1>4, <2>1, <2>2, <2>3
  <2> QED BY <1>7, <2>4
<1>9. IF i <= Len(calls) THEN y.calls # <<>> ELSE y.calls = <<>> /\ y.told = y.asked
  BY <1>1, <1>4, <1>6, <1>7, <1>8
<1>10. i <= Len(calls) <=> ~ (i > Len(calls))
  BY <1>1
<1> QED BY <1>2, <1>7, <1>8, <1>9, <1>10, AwaitKeeps, FinishKeeps

LEMMA PlanLength ==
  ASSUME NEW plan \in Plans
  PROVE  Len(plan) \in 1..MaxSteps
  BY DEF Plans, BoundedSeqs

\* The result of one more step of a plan.
LEMMA WithStepTyped ==
  ASSUME NEW e \in Executions, NEW x \in Execution, NEW ok \in BOOLEAN,
         Len(x.steps) < Len(x.plan)
  PROVE  /\ WithStep(e, x, ok) \in Execution
         /\ Len(WithStep(e, x, ok).steps) = Len(x.steps) + 1
         /\ \A f \in {"at", "turn", "calls", "asked", "told", "plan", "answer"} :
              WithStep(e, x, ok)[f] = x[f]
<1> DEFINE r == [of |-> e, number |-> Len(x.steps) + 1, ok |-> ok]
<1>1. x.steps \in Seq(StepResult) /\ x.plan \in Plans \cup {<<>>}
  BY DEF Execution
<1>2. Len(x.steps) \in Nat /\ Len(x.plan) \in 0..MaxSteps
  BY <1>1, PlanLength, OrchestratorAssumption
<1>3. r \in StepResult
  BY <1>2, OrchestratorAssumption DEF StepResult
<1>4. WithStep(e, x, ok) = [x EXCEPT !.steps = Append(x.steps, r)]
  BY DEF WithStep, Execution
<1> HIDE DEF r
<1>5. Append(x.steps, r) \in Seq(StepResult) /\ Len(Append(x.steps, r)) = Len(x.steps) + 1
  BY <1>1, <1>3
<1> QED BY <1>4, <1>5 DEF Execution

\* A failed step ends the task, and the orchestrator keeps its results.
LEMMA FailedKeeps ==
  ASSUME OrchInv, NEW e \in Executions, NEW x \in Execution, x.calls = <<>>,
         x.told = x.asked, Len(x.steps) < Len(x.plan), Failed(e, x)
  PROVE  Goes(e) /\ lastSteps' \in Seq(StepResult)
<1> DEFINE y == WithStep(e, x, FALSE)
<1>1. y \in Execution /\ y.calls = <<>> /\ y.told = y.asked
  BY WithStepTyped
<1>2. Finish(e, y, FALSE) /\ lastSteps' = y.steps
  BY DEF Failed
<1>3. y.steps \in Seq(StepResult)
  BY <1>1 DEF Execution
<1> HIDE DEF y
<1> QED BY <1>1, <1>2, <1>3, FinishKeeps

LEMMA NextStepKeeps ==
  ASSUME OrchInv, NEW e \in Executions, NEW x \in Execution, NEW kept \in Seq(StepResult),
         exec[e].at \in Awaits, x.answer = "none", x.calls = <<>>, x.told = x.asked,
         Len(x.steps) <= Len(x.plan), NextStep(e, x, kept)
  PROVE  Goes(e) /\ lastSteps' \in Seq(StepResult)
<1>1. x.steps \in Seq(StepResult) /\ x.told \in Nat
  BY DEF Execution
<1>2. Len(x.steps) \in Nat /\ Len(x.plan) \in Nat
  <2>1. x.plan \in Plans \cup {<<>>}
    BY DEF Execution
  <2> QED BY <1>1, <2>1, PlanLength
<1>3. CASE lastSteps' = x.steps /\ Finish(e, x, TRUE)
  BY <1>1, <1>3, FinishKeeps
<1>4. CASE Len(x.steps) + 1 <= Len(x.plan) /\ Failed(e, x)
  BY <1>2, <1>4, FailedKeeps
<1>5. CASE /\ Len(x.steps) + 1 <= Len(x.plan)
           /\ lastSteps' = kept /\ Await(e, x, "agent")
  <2>1. x.told + Len(x.calls) = x.asked
    BY <1>1
  <2> QED BY <1>2, <1>5, <2>1, AwaitKeeps
<1> QED BY <1>3, <1>4, <1>5 DEF NextStep

\* What an execution at one of its awaits is like.
LEMMA Awaiting ==
  ASSUME OrchInv, NEW e \in Executions, exec[e].at \in Awaits
  PROVE  /\ exec[e] \in Execution /\ exec[e].answer = "none"
         /\ exec[e].told \in Nat /\ exec[e].asked \in Nat
         /\ exec[e].told + Len(exec[e].calls) = exec[e].asked
         /\ exec[e].at # "tool" => exec[e].calls = <<>> /\ exec[e].told = exec[e].asked
<1>1. ExecInv(exec[e], status[e])
  BY DEF OrchInv
<1>2. exec[e].told \in Nat /\ exec[e].asked \in Nat
  BY <1>1 DEF ExecInv, Execution
<1> QED BY <1>1, <1>2 DEF ExecInv, CallsInv, StatusOf, Awaits

LEMMA ExecuteKeeps ==
  ASSUME OrchInv, NEW e \in Executions, Execute(e)
  PROVE  Goes(e) /\ lastSteps' \in Seq(StepResult)
<1> DEFINE y == [exec[e] EXCEPT !.at = Path]
<1>1. ExecInv(exec[e], status[e]) /\ exec[e].at = "none"
  BY DEF Execute, OrchInv
<1>2. Path \in {"engine", "planner", "chat", "sleep"}
  BY DEF Path
<1>3. y \in Execution
  BY <1>1, <1>2 DEF ExecInv, Execution, Awaits
<1>4. /\ y.at = Path /\ y.calls = exec[e].calls /\ y.told = exec[e].told
      /\ y.asked = exec[e].asked /\ y.answer = exec[e].answer
      /\ y.steps = exec[e].steps
  BY <1>1 DEF ExecInv, Execution
<1>5. exec' = [exec EXCEPT ![e] = y] /\ status' = [status EXCEPT ![e] = "RUNNING"]
  BY DEF Execute, OrchInv
<1>6. CallsInv(y) /\ StatusOf(y, "RUNNING")
  BY <1>1, <1>2, <1>4 DEF ExecInv, CallsInv, StatusOf, Awaits
<1> HIDE DEF y
<1>7. exec'[e] = y /\ status'[e] = "RUNNING" /\ "RUNNING" \in Statuses
  BY <1>5 DEF OrchInv, Statuses
<1>8. lastSteps' = lastSteps
  BY DEF Execute
<1>9. y.at \in Awaits
  BY <1>2, <1>4 DEF Awaits
<1> QED BY <1>3, <1>5, <1>6, <1>7, <1>8, <1>9 DEF Goes, Keeps, ExecInv, OrchInv

LEMMA AbortKeeps ==
  ASSUME OrchInv, NEW e \in Executions, Abort(e)
  PROVE  Keeps(e) /\ lastSteps' \in Seq(StepResult)
<1> DEFINE y == [exec[e] EXCEPT !.at = "returned", !.answer = "aborted"]
<1>1. ExecInv(exec[e], status[e]) /\ exec[e].at \in Awaits
  BY DEF Abort, OrchInv
<1>2. y \in Execution
  BY <1>1 DEF ExecInv, Execution
<1>3. /\ y.at = "returned" /\ y.calls = exec[e].calls /\ y.told = exec[e].told
      /\ y.asked = exec[e].asked /\ y.answer = "aborted"
      /\ y.steps = exec[e].steps
  BY <1>1 DEF ExecInv, Execution
<1>4. exec' = [exec EXCEPT ![e] = y] /\ status' = status
  BY DEF Abort, Became
<1>5. CallsInv(y) /\ StatusOf(y, status[e])
  BY <1>1, <1>3 DEF ExecInv, CallsInv, StatusOf, Awaits
<1> HIDE DEF y
<1>6. exec'[e] = y /\ status' = [status EXCEPT ![e] = status[e]] /\ status[e] \in Statuses
  BY <1>4 DEF OrchInv
<1>7. lastSteps' = lastSteps
  BY DEF Abort
<1> QED BY <1>2, <1>4, <1>5, <1>6, <1>7 DEF Keeps, ExecInv, OrchInv
\* Whatever the awaited call returns, the record stays sound.
LEMMA ReturnKeeps ==
  ASSUME OrchInv, NEW e \in Executions, CallReturns(e)
  PROVE  Goes(e) /\ lastSteps' \in Seq(StepResult)
<1> DEFINE x == exec[e]
<1>0. lastSteps \in Seq(StepResult)
  BY DEF OrchInv
<1>1. CASE EngineReturns(e) \/ SleepEnds(e) \/ PlannerRaises(e) \/ ChatEnds(e)
  <2>1. /\ x.at \in {"engine", "sleep", "planner", "chat"}
        /\ \E ok \in BOOLEAN : Finish(e, x, ok)
        /\ lastSteps' = lastSteps
    BY <1>1 DEF EngineReturns, SleepEnds, PlannerRaises, ChatEnds
  <2>2. x.at \in Awaits /\ x.at # "tool"
    BY <2>1 DEF Awaits
  <2> QED BY <1>0, <2>1, <2>2, Awaiting, FinishKeeps
<1>2. CASE PlannerReturns(e)
  <2>1. PICK plan \in Plans : NextStep(e, [x EXCEPT !.plan = plan], <<>>)
    BY <1>2 DEF PlannerReturns
  <2> DEFINE y == [x EXCEPT !.plan = plan]
  <2>2. x.at = "planner" /\ x.at \in Awaits
    BY <1>2 DEF PlannerReturns, Awaits
  <2>3. /\ x \in Execution /\ x.answer = "none" /\ x.calls = <<>>
        /\ x.told = x.asked /\ x.steps = <<>>
    BY <2>2, Awaiting DEF OrchInv, ExecInv, CallsInv
  <2>4. /\ y \in Execution /\ y.answer = "none" /\ y.calls = <<>>
        /\ y.told = y.asked /\ y.steps = <<>> /\ y.plan = plan
    BY <2>3 DEF Execution
  <2>5. Len(y.steps) <= Len(y.plan) /\ <<>> \in Seq(StepResult)
    BY <2>4, PlanLength, OrchestratorAssumption
  <2>6. NextStep(e, y, <<>>)
    BY <2>1
  <2> HIDE DEF y
  <2> QED BY <2>2, <2>4, <2>5, <2>6, NextStepKeeps
<1>3. CASE AgentReturns(e)
  <2>1. x.at = "agent" /\ x.at \in Awaits
    BY <1>3 DEF AgentReturns, Awaits
  <2>2. /\ x \in Execution /\ x.answer = "none" /\ x.calls = <<>>
        /\ x.told = x.asked /\ Len(x.steps) < Len(x.plan)
    BY <2>1, Awaiting DEF OrchInv, ExecInv, CallsInv
  <2>3. CASE Failed(e, x)
    BY <2>2, <2>3, FailedKeeps
  <2>4. CASE NextStep(e, WithStep(e, x, TRUE), lastSteps)
    <3> DEFINE y == WithStep(e, x, TRUE)
    <3>1. /\ y \in Execution /\ y.answer = "none" /\ y.calls = <<>>
          /\ y.told = y.asked /\ y.plan = x.plan
          /\ Len(y.steps) = Len(x.steps) + 1
      BY <2>2, WithStepTyped
    <3>2. Len(x.steps) \in Nat /\ Len(x.plan) \in Nat
      <4>1. x.plan \in Plans \cup {<<>>} /\ x.steps \in Seq(StepResult)
        BY <2>2 DEF Execution
      <4> QED BY <4>1, PlanLength
    <3>3. NextStep(e, y, lastSteps)
      BY <2>4
    <3> HIDE DEF y
    <3>4. Len(y.steps) <= Len(y.plan)
      BY <2>2, <3>1, <3>2
    <3> QED BY <1>0, <2>1, <3>1, <3>3, <3>4, NextStepKeeps
  <2> QED BY <1>3, <2>3, <2>4 DEF AgentReturns
<1>4. CASE ChatAsksTools(e)
  <2>1. PICK calls \in CallLists :
          RunNext(e, [x EXCEPT !.turn = @ + 1, !.asked = @ + Len(calls)], calls)
    BY <1>4 DEF ChatAsksTools
  <2> DEFINE y == [x EXCEPT !.turn = @ + 1, !.asked = @ + Len(calls)]
  <2>2. x.at = "chat" /\ x.at \in Awaits /\ lastSteps' = lastSteps
    BY <1>4 DEF ChatAsksTools, Awaits
  <2>3. /\ x \in Execution /\ x.answer = "none" /\ x.calls = <<>>
        /\ x.told = x.asked
    BY <2>2, Awaiting
  <2>4. calls \in Seq(Tools) /\ Len(calls) \in Nat
    BY OrchestratorAssumption DEF CallLists, BoundedSeqs
  <2>5. x.asked \in Nat /\ x.turn \in Nat
    BY <2>3 DEF Execution
  <2>6. PICK n, a : /\ n = x.turn + 1 /\ a = x.asked + Len(calls)
                    /\ y = [x EXCEPT !.turn = n, !.asked = a]
    BY <2>3 DEF Execution
  <2>7. n \in Nat /\ a \in Nat
    BY <2>4, <2>5, <2>6
  <2> HIDE DEF y
  <2>8. /\ y \in Execution /\ y.answer = "none" /\ y.told = x.told
        /\ y.asked = a
    BY <2>3, <2>6, <2>7 DEF Execution
  <2>9. y.told + Len(calls) = y.asked
    BY <2>3, <2>6, <2>8
  <2>10. RunNext(e, y, calls)
    BY <2>1 DEF y
  <2> QED BY <1>0, <2>2, <2>4, <2>8, <2>9, <2>10, RunNextKeeps
<1>5. CASE ToolReturns(e)
  <2> DEFINE y == [x EXCEPT !.told = @ + 1]
  <2>1. /\ x.at = "tool" /\ x.at \in Awaits /\ lastSteps' = lastSteps
        /\ RunNext(e, y, Tail(x.calls))
    BY <1>5 DEF ToolReturns, Awaits
  <2>2. /\ x \in Execution /\ x.answer = "none" /\ x.calls # <<>>
        /\ x.told + Len(x.calls) = x.asked
    BY <2>1, Awaiting DEF OrchInv, ExecInv, CallsInv
  <2>3. x.told \in Nat /\ x.calls \in Seq(Tools)
    BY <2>2 DEF Execution
  <2>4. Tail(x.calls) \in Seq(Tools) /\ Len(Tail(x.calls)) = Len(x.calls) - 1
    BY <2>2, <2>3
  <2>5. PICK t : t = x.told + 1 /\ y = [x EXCEPT !.told = t]
    BY <2>2 DEF Execution
  <2>6. /\ t \in Nat /\ y \in Execution /\ y.answer = "none" /\ y.told = t
        /\ y.asked = x.asked
    BY <2>2, <2>3, <2>5 DEF Execution
  <2>7. y.told + Len(Tail(x.calls)) = y.asked
    BY <2>2, <2>3, <2>4, <2>5, <2>6
  <2> HIDE DEF y
  <2> QED BY <1>0, <2>1, <2>4, <2>6, <2>7, RunNextKeeps
<1> QED BY <1>1, <1>2, <1>3, <1>4, <1>5 DEF CallReturns

LEMMA OrchStep ==
  ASSUME OrchInv, [OrchNext]_orchVars
  PROVE  OrchInv'
<1>1. CASE UNCHANGED orchVars
  BY <1>1 DEF orchVars, OrchInv
<1>2. ASSUME NEW e \in Executions, Execute(e) \/ CallReturns(e) \/ Abort(e)
      PROVE  OrchInv'
  <2>1. policy' = policy
    BY <1>2 DEF Execute, Abort, CallReturns, EngineReturns, SleepEnds, PlannerRaises,
                PlannerReturns, AgentReturns, ChatEnds, ChatAsksTools, ToolReturns
  <2>2. Keeps(e) /\ lastSteps' \in Seq(StepResult)
    BY <1>2, ExecuteKeeps, ReturnKeeps, AbortKeeps DEF Goes
  <2>3. /\ exec' \in [Executions -> Execution] /\ status' \in [Executions -> Statuses]
        /\ \A f \in Executions \ {e} : exec'[f] = exec[f] /\ status'[f] = status[f]
    BY <2>2 DEF Keeps, OrchInv
  <2> QED BY <2>1, <2>2, <2>3 DEF OrchInv, Keeps
<1> QED BY <1>1, <1>2 DEF OrchNext

LEMMA OrchInitially == OrchInit => OrchInv
<1> SUFFICES ASSUME OrchInit PROVE OrchInv
  OBVIOUS
<1>1. Fresh \in Execution
  BY DEF Fresh, Execution
<1>2. CallsInv(Fresh) /\ StatusOf(Fresh, "PENDING")
  BY DEF Fresh, CallsInv, StatusOf, Awaits
<1> QED BY <1>1, <1>2 DEF OrchInit, OrchInv, ExecInv, Statuses

LEMMA CallsAnswered == OrchInv => CallsAreAnswered
<1> SUFFICES ASSUME OrchInv, NEW e \in Executions
             PROVE  LET x == exec[e] IN
                    /\ x.answer # "aborted" => x.told + Len(x.calls) = x.asked
                    /\ x.at = "chat" \/ x.answer \in {"ok", "fail"} => x.told = x.asked
  BY DEF CallsAreAnswered
<1>1. exec[e] \in Execution /\ CallsInv(exec[e])
  BY DEF OrchInv, ExecInv
<1>2. exec[e].told \in Nat
  BY <1>1 DEF Execution
<1> QED BY <1>1, <1>2 DEF CallsInv

\* The model is asked again, and a task ends, only when every tool call of the
\* turns so far has its message, for any policy and any number of executions
\* that share the orchestrator.
THEOREM EveryCallIsAnswered == OrchSpec => []CallsAreAnswered
  BY OrchInitially, OrchStep, CallsAnswered, PTL DEF OrchSpec
-----------------------------------------------------------------------------
(* The requests.  Each runs its own execution, and the runtime does nothing *)
(* to the orchestrator that execute does not.                               *)

\* The runtime's steps are steps of the orchestrator or leave it alone.
THEOREM RuntimeRunsOrchestrator == Spec => OrchSpec
<1>1. Init => OrchInit
  BY DEF Init
<1>2. [Next]_vars => [OrchNext]_orchVars
  <2> SUFFICES ASSUME [Next]_vars PROVE [OrchNext]_orchVars
    OBVIOUS
  <2>1. CASE \E s \in Startups : Startup(s) \/ BrowserStarts(s) \/ BrowserFails(s) \/ CleanupEnds(s)
    BY <2>1 DEF Startup, BrowserStarts, BrowserFails, CleanupEnds
  <2>2. CASE \E d \in Shutdowns : Shutdown(d) \/ ShutdownEnds(d)
    BY <2>2 DEF Shutdown, ShutdownEnds
  <2>3. ASSUME NEW r \in Requests, \/ HandleText(r) \/ HandleTask(r) \/ HandleVoice(r)
                                   \/ Progress(r) \/ VoiceReturns(r) \/ Timeout(r)
        PROVE  [OrchNext]_orchVars
    BY <2>3 DEF HandleText, HandleTask, HandleVoice, Progress, VoiceReturns, Timeout,
                Submit, OrchNext, Requests
  <2>4. CASE UNCHANGED vars
    BY <2>4 DEF vars
  <2> QED BY <2>1, <2>2, <2>3, <2>4 DEF Next
<1> QED BY <1>1, <1>2, PTL DEF Spec, OrchSpec

\* Where the execution of a request is, and what the answer to a text says of it.
AnswerInv(q, x) ==
  /\ q.at \in {None, "voice"} => x.at = "none"
  /\ q.at = "exec" => x.at \in Awaits
  /\ q.kind = "text" => q.at # "voice"
  /\ q.kind = "text" /\ q.at = "answered" =>
       \/ q.answer \in {"ok", "fail"} /\ x.answer = q.answer
       \/ q.answer = "timeout" /\ x.answer = "aborted"
       \/ q.answer = "refused" /\ x.at = "none"

Request == [kind : Kinds, at : {None, "exec", "voice", "answered"}, answer : Answers]

RequestInv ==
  /\ request \in [Requests -> Request]
  /\ trail \in [Requests -> Seq(Stages)]
  /\ \A r \in Requests : AnswerInv(request[r], exec[r])

\* A step of request r leaves the others, and their executions, alone.
Serves(r) ==
  /\ request' \in [Requests -> Request]
  /\ trail' \in [Requests -> Seq(Stages)]
  /\ AnswerInv(request'[r], exec'[r])
  /\ \A q \in Requests \ {r} : request'[q] = request[q]

LEMMA NoteTyped ==
  ASSUME RequestInv, NEW r \in Requests, NEW stages \in Seq(Stages), Note(r, stages)
  PROVE  trail' \in [Requests -> Seq(Stages)]
  BY DEF RequestInv, Note

LEMMA AnsweredServes ==
  ASSUME RequestInv, NEW r \in Requests, NEW answer \in Answers, NEW stages \in Seq(Stages),
         Answered(r, answer, stages),
         request[r].kind = "text" =>
           \/ answer \in {"ok", "fail"} /\ exec'[r].answer = answer
           \/ answer = "timeout" /\ exec'[r].answer = "aborted"
           \/ answer = "refused" /\ exec'[r].at = "none"
  PROVE  Serves(r)
<1>1. request' = [request EXCEPT ![r] = [request[r] EXCEPT !.at = "answered", !.answer = answer]]
  BY DEF Answered, RequestInv
<1>2. PICK y : y = [request[r] EXCEPT !.at = "answered", !.answer = answer]
  OBVIOUS
<1>3. y \in Request /\ y.at = "answered" /\ y.answer = answer /\ y.kind = request[r].kind
  BY <1>2 DEF RequestInv, Request
<1>4. /\ request'[r] = y /\ request' \in [Requests -> Request]
      /\ \A q \in Requests \ {r} : request'[q] = request[q]
  BY <1>1, <1>2, <1>3 DEF RequestInv
<1>5. AnswerInv(y, exec'[r])
  BY <1>3 DEF AnswerInv, None
<1> QED BY <1>4, <1>5, NoteTyped DEF Serves, Answered

LEMMA WaitServes ==
  ASSUME RequestInv, NEW r \in Requests, NEW at \in {"exec", "voice"}, NEW stages \in Seq(Stages),
         request' = [request EXCEPT ![r].at = at], Note(r, stages),
         IF at = "exec" THEN exec'[r].at \in Awaits
                        ELSE exec'[r].at = "none" /\ request[r].kind # "text"
  PROVE  Serves(r)
<1>1. request' = [request EXCEPT ![r] = [request[r] EXCEPT !.at = at]]
  BY DEF RequestInv
<1>2. PICK y : y = [request[r] EXCEPT !.at = at]
  OBVIOUS
<1>3. y \in Request /\ y.at = at /\ y.kind = request[r].kind
  BY <1>2 DEF RequestInv, Request
<1>4. /\ request'[r] = y /\ request' \in [Requests -> Request]
      /\ \A q \in Requests \ {r} : request'[q] = request[q]
  BY <1>1, <1>2, <1>3 DEF RequestInv
<1>5. AnswerInv(y, exec'[r])
  BY <1>3 DEF AnswerInv, None
<1> QED BY <1>4, <1>5, NoteTyped DEF Serves

LEMMA StagesTyped ==
  /\ <<>> \in Seq(Stages)
  /\ \A a \in Stages : <<a>> \in Seq(Stages)
  /\ \A a, b \in Stages : <<a, b>> \in Seq(Stages)
  /\ \A a, b, c \in Stages : <<a, b, c>> \in Seq(Stages)
  OBVIOUS

LEMMA HandleServes ==
  ASSUME OrchInv, RequestInv, NEW r \in Requests,
         HandleText(r) \/ HandleTask(r) \/ HandleVoice(r)
  PROVE  Serves(r)
<1>1. request[r].at = None /\ exec[r].at = "none"
  BY DEF HandleText, HandleTask, HandleVoice, RequestInv, AnswerInv
<1>2. ASSUME NEW stages \in Seq(Stages), Submit(r, stages)
      PROVE  Serves(r)
  <2>1. exec'[r].at \in Awaits
    <3>1. exec' = [exec EXCEPT ![r].at = Path] /\ exec[r] \in Execution
      BY <1>2 DEF Submit, Execute, OrchInv, Requests
    <3>2. Path \in {"engine", "planner", "chat", "sleep"}
      BY DEF Path
    <3> QED BY <3>1, <3>2 DEF OrchInv, Execution, Awaits, Requests
  <2> QED BY <1>2, <2>1, WaitServes DEF Submit
<1>3. ASSUME NEW stages \in Seq(Stages), Answered(r, "refused", stages), UNCHANGED orchVars
      PROVE  Serves(r)
  <2>1. exec'[r].at = "none"
    BY <1>1, <1>3 DEF orchVars
  <2> QED BY <1>3, <2>1, AnsweredServes DEF Answers
<1>4. CASE HandleText(r)
  BY <1>2, <1>3, <1>4, StagesTyped DEF HandleText, Stages
<1>5. CASE HandleTask(r)
  BY <1>2, <1>3, <1>5, StagesTyped DEF HandleTask, Stages
<1>6. CASE HandleVoice(r)
  <2>1. exec'[r].at = "none" /\ UNCHANGED orchVars
    BY <1>1, <1>6 DEF HandleVoice, orchVars
  <2> QED BY <1>3, <1>6, <2>1, WaitServes, StagesTyped DEF HandleVoice, Stages
<1> QED BY <1>4, <1>5, <1>6

LEMMA EndServes ==
  ASSUME OrchInv, RequestInv, NEW r \in Requests,
         Progress(r) \/ VoiceReturns(r) \/ Timeout(r)
  PROVE  Serves(r)
<1>1. CASE Progress(r)
  <2>1. Goes(r)
    BY <1>1, ReturnKeeps DEF Progress, Requests
  <2>2. StatusOf(exec'[r], status'[r])
    BY <2>1 DEF Goes, Keeps, ExecInv
  <2>3. CASE exec'[r].at # "returned" /\ UNCHANGED requests
    <3>1. exec'[r].at \in Awaits
      BY <2>1, <2>2, <2>3 DEF Goes, StatusOf
    <3> QED BY <1>1, <2>3, <3>1 DEF Progress, requests, RequestInv, Serves, AnswerInv, None
  <2>4. CASE exec'[r].at = "returned" /\ AfterExecute(r, exec'[r].answer)
    <3>1. exec'[r].answer \in {"ok", "fail"}
      BY <2>1, <2>4 DEF Goes, Awaits
    <3> QED BY <2>4, <3>1, AnsweredServes, StagesTyped DEF AfterExecute, Answers, Stages
  <2> QED BY <1>1, <2>3, <2>4 DEF Progress
<1>2. CASE VoiceReturns(r)
  <2>1. request[r].at = "voice" /\ request[r].kind # "text"
    BY <1>2 DEF VoiceReturns, RequestInv, AnswerInv
  <2> QED BY <1>2, <2>1, AnsweredServes, StagesTyped DEF VoiceReturns, Answers, Stages
<1>3. CASE Timeout(r)
  <2>1. request[r].kind = "text" => exec'[r].answer = "aborted"
    <3>1. request[r].kind = "text" => Abort(r)
      BY <1>3 DEF Timeout, RequestInv, AnswerInv
    <3>2. Abort(r) => exec'[r].answer = "aborted"
      BY DEF Abort, Became, OrchInv, Execution, Requests
    <3> QED BY <3>1, <3>2
  <2> QED BY <1>3, <2>1, AnsweredServes, StagesTyped DEF Timeout, Answers, Stages
<1> QED BY <1>1, <1>2, <1>3

LEMMA RequestStep ==
  ASSUME OrchInv, RequestInv, [Next]_vars
  PROVE  RequestInv'
<1>1. CASE UNCHANGED <<orchVars, requests>>
  BY <1>1 DEF orchVars, requests, RequestInv
<1>2. ASSUME NEW r \in Requests, \/ HandleText(r) \/ HandleTask(r) \/ HandleVoice(r)
                                 \/ Progress(r) \/ VoiceReturns(r) \/ Timeout(r)
      PROVE  RequestInv'
  <2>1. Serves(r)
    BY <1>2, HandleServes, EndServes
  <2>2. \A q \in Requests \ {r} : exec'[q] = exec[q]
    <3>1. UNCHANGED orchVars \/ Execute(r) \/ CallReturns(r) \/ Abort(r)
      BY <1>2 DEF HandleText, HandleTask, HandleVoice, Progress, VoiceReturns, Timeout, Submit
    <3>2. UNCHANGED orchVars \/ Keeps(r)
      BY <3>1, ExecuteKeeps, ReturnKeeps, AbortKeeps DEF Goes, Requests
    <3> QED BY <3>2 DEF orchVars, Keeps, OrchInv, Requests
  <2> QED BY <2>1, <2>2 DEF Serves, RequestInv
<1>3. (\E s \in Startups : Startup(s) \/ BrowserStarts(s) \/ BrowserFails(s) \/ CleanupEnds(s))
        => UNCHANGED <<orchVars, requests>>
  BY DEF Startup, BrowserStarts, BrowserFails, CleanupEnds
<1>4. (\E d \in Shutdowns : Shutdown(d) \/ ShutdownEnds(d))
        => UNCHANGED <<orchVars, requests>>
  BY DEF Shutdown, ShutdownEnds
<1> QED BY <1>1, <1>2, <1>3, <1>4 DEF Next, vars

LEMMA RequestsInitially == Init => OrchInv /\ RequestInv
<1> SUFFICES ASSUME Init PROVE OrchInv /\ RequestInv
  OBVIOUS
<1>1. OrchInv /\ \A r \in Requests : exec[r].at = "none"
  BY OrchInitially DEF Init, OrchInit, Fresh, Requests
<1>2. request \in [Requests -> Request]
  BY DEF Init, Request, None, Answers
<1>3. \A r \in Requests : request[r].at = None
  BY DEF Init
<1>4. trail \in [Requests -> Seq(Stages)]
  BY DEF Init
<1> QED BY <1>1, <1>2, <1>3, <1>4 DEF RequestInv, AnswerInv, None

LEMMA RequestsInvariant == Spec => [](OrchInv /\ RequestInv)
<1>1. OrchInv /\ RequestInv /\ [Next]_vars /\ [OrchNext]_orchVars => (OrchInv /\ RequestInv)'
  BY OrchStep, RequestStep
<1> QED BY <1>1, RequestsInitially, RuntimeRunsOrchestrator, PTL DEF Spec, OrchSpec

\* The caller of handle_text is told what became of the task, whatever the
\* orchestrator was doing when the time was up and whichever other requests,
\* startups and shutdowns came in between.
THEOREM AnswersAreTrue == Spec => []AnswerMatchesStatus
<1>1. OrchInv /\ RequestInv => AnswerMatchesStatus
  <2> SUFFICES ASSUME OrchInv, RequestInv, NEW r \in Requests,
                      request[r].at = "answered", request[r].kind = "text"
               PROVE  status[r] = CASE request[r].answer = "ok"      -> "COMPLETED"
                                    [] request[r].answer = "fail"    -> "FAILED"
                                    [] request[r].answer = "timeout" -> "RUNNING"
                                    [] OTHER                         -> "PENDING"
    BY DEF AnswerMatchesStatus
  <2>1. AnswerInv(request[r], exec[r]) /\ StatusOf(exec[r], status[r])
    BY DEF OrchInv, RequestInv, ExecInv, Requests
  <2>2. \/ request[r].answer = "ok" /\ status[r] = "COMPLETED"
        \/ request[r].answer = "fail" /\ status[r] = "FAILED"
        \/ request[r].answer = "timeout" /\ status[r] = "RUNNING"
        \/ request[r].answer = "refused" /\ status[r] = "PENDING"
    BY <2>1 DEF AnswerInv, StatusOf
  <2> QED BY <2>2
<1> QED BY <1>1, RequestsInvariant, PTL

\* Every part of the state of the runtime and of its orchestrator keeps to its
\* domain.
THEOREM RuntimeTypeCorrect == Spec => []TypeOK
<1> DEFINE LifecycleOK == /\ orchestrator \in Held /\ browserTools \in Held
                          /\ registered \subseteq Startups /\ open \subseteq Startups
<1>1. Init => LifecycleOK
  BY DEF Init, Held
<1>2. LifecycleOK /\ [Next]_vars => LifecycleOK'
  <2> SUFFICES ASSUME LifecycleOK, [Next]_vars PROVE LifecycleOK'
    OBVIOUS
  <2>1. CASE UNCHANGED lifecycle
    BY <2>1 DEF lifecycle
  <2>2. ASSUME NEW s \in Startups,
               Startup(s) \/ BrowserStarts(s) \/ BrowserFails(s) \/ CleanupEnds(s)
        PROVE  LifecycleOK'
    BY <2>2 DEF Startup, BrowserStarts, BrowserFails, CleanupEnds, Held
  <2>3. ASSUME NEW d \in Shutdowns, Shutdown(d) \/ ShutdownEnds(d)
        PROVE  LifecycleOK'
    BY <2>3 DEF Shutdown, ShutdownEnds
  <2>4. (\E r \in Requests : HandleText(r) \/ HandleTask(r) \/ HandleVoice(r)
                             \/ Progress(r) \/ VoiceReturns(r) \/ Timeout(r))
          => UNCHANGED lifecycle
    BY DEF HandleText, HandleTask, HandleVoice, Progress, VoiceReturns, Timeout
  <2> QED BY <2>1, <2>2, <2>3, <2>4 DEF Next, vars
<1>3. OrchInv => OrchTypeOK
  <2> SUFFICES ASSUME OrchInv, NEW e \in Executions
               PROVE  /\ exec[e].at \in Awaits \cup {"none", "returned"}
                      /\ exec[e].steps \in Seq(StepResult)
                      /\ exec[e].told <= exec[e].asked
    BY DEF OrchInv, OrchTypeOK
  <2>1. exec[e] \in Execution /\ exec[e].told + Len(exec[e].calls) = exec[e].asked
    BY DEF OrchInv, ExecInv, CallsInv
  <2>2. exec[e].told \in Nat /\ Len(exec[e].calls) \in Nat
    BY <2>1 DEF Execution
  <2>3. exec[e].told <= exec[e].asked
    BY <2>1, <2>2
  <2> QED BY <2>1, <2>3 DEF Execution
<1>4. OrchInv /\ RequestInv /\ LifecycleOK => TypeOK
  BY <1>3 DEF TypeOK, RequestInv, Request
<1> HIDE DEF LifecycleOK
<1> QED BY <1>1, <1>2, <1>4, RequestsInvariant, PTL DEF Spec
=============================================================================
