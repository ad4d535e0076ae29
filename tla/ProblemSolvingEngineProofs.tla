--------------------- MODULE ProblemSolvingEngineProofs ---------------------
(***************************************************************************)
(* Safety of ProblemSolvingEngine for every iteration limit, plan length,  *)
(* number of questions and number of solve() calls.                        *)
(***************************************************************************)
EXTENDS ProblemSolvingEngine, TLAPS

\* What an append does to a sequence of attempts.
LEMMA AppendLast ==
  ASSUME NEW s \in Seq(Attempt), NEW a \in Attempt
  PROVE  /\ Append(s, a) \in Seq(Attempt)
         /\ Append(s, a) # <<>>
         /\ Len(s) \in Nat
         /\ Len(Append(s, a)) = Len(s) + 1
         /\ Append(s, a)[Len(s) + 1] = a
         /\ \A i \in 1..Len(s) : Append(s, a)[i] = s[i]
  OBVIOUS

-----------------------------------------------------------------------------
(* Type correctness.                                                       *)

\* What the operators that end a step set stays in its domain.
ProgressTyped ==
  /\ pc' \in Places
  /\ status' \in Phases \cup Ended \cup {"pending"}
  /\ iteration' \in 1..MaxIterations
  /\ left' \in 0..(MaxSteps + MaxQuestions)
  /\ saving' \subseteq {"completed", "failed"}

StepTyped == ProgressTyped /\ attempts' \in Seq(Attempt)

\* Going on to a phase of the same iteration keeps the types.
LEMMA ContinueTyped ==
  ASSUME TypeOK, NEW phase \in Phases, NEW n \in 0..(MaxSteps + MaxQuestions),
         Continue(phase, n)
  PROVE  StepTyped
  BY DEF TypeOK, Continue, Await, Places, Running, StepTyped, ProgressTyped

\* A cancelled or timed-out end keeps the types.
LEMMA FinishTyped ==
  ASSUME TypeOK, NEW i \in 1..MaxIterations, NEW st \in Ended, Finish(st, i)
  PROVE  ProgressTyped
  BY EngineAssumption DEF TypeOK, Finish, Places, Over, ProgressTyped

\* A completed or failed end keeps the types.
LEMMA ConcludeTyped ==
  ASSUME TypeOK, NEW st \in {"completed", "failed"}, Conclude(st)
  PROVE  ProgressTyped
  BY EngineAssumption
     DEF TypeOK, Conclude, Places, Running, Over, Ended, ProgressTyped

\* Appending the attempt just made keeps the types.
LEMMA AttemptTyped ==
  ASSUME TypeOK, NEW a \in {"none", "failed", "ok"},
         NEW v \in Verdicts \cup {"none"}, KeepAttempt(a, v)
  PROVE  attempts' \in Seq(Attempt)
  BY AppendLast DEF TypeOK, KeepAttempt, Attempt

\* Ending an attempt without a result keeps the types: the iteration grows
\* only below its limit.
LEMMA RetryTyped ==
  ASSUME TypeOK, NEW a \in {"none", "failed", "ok"},
         NEW v \in Verdicts \cup {"none"}, Retry(a, v)
  PROVE  StepTyped
<1>1. attempts' \in Seq(Attempt)
  BY AttemptTyped DEF Retry
<1>2. CASE OutOfIterations /\ Conclude("failed")
  BY <1>1, <1>2, ConcludeTyped DEF StepTyped
<1>3. CASE ~ OutOfIterations /\ Finish("cancelled", iteration + 1)
  <2>1. iteration + 1 \in 1..MaxIterations
    BY <1>3, EngineAssumption DEF TypeOK, OutOfIterations
  <2>2. QED
    BY <1>1, <1>3, <2>1, FinishTyped DEF Ended, StepTyped
<1>4. CASE ~ OutOfIterations /\ Await("planning", iteration + 1, 0)
  <2>1. iteration + 1 \in 1..MaxIterations
    BY <1>4, EngineAssumption DEF TypeOK, OutOfIterations
  <2>2. QED
    BY <1>1, <1>4, <2>1, EngineAssumption
       DEF TypeOK, Await, Places, Running, Phases, StepTyped, ProgressTyped
<1>5. QED
  BY <1>2, <1>3, <1>4 DEF Retry

\* A cancel check that finds a request keeps the types.
LEMMA StopTyped ==
  ASSUME TypeOK, Finish("cancelled", iteration), UNCHANGED attempts
  PROVE  StepTyped
  BY FinishTyped DEF TypeOK, Ended, StepTyped

\* So do the phases that can follow without an await.
LEMMA ActTyped ==
  ASSUME TypeOK, Act
  PROVE  StepTyped
<1>1. 0 \in 0..(MaxSteps + MaxQuestions)
  BY EngineAssumption
<1>2. QED
  BY <1>1, ContinueTyped, RetryTyped DEF Act, Phases

\* Prediction and critique, done or skipped, keep the types.
LEMMA PredictTyped ==
  ASSUME TypeOK, Predict \/ Critique
  PROVE  StepTyped
<1>1. 0 \in 0..(MaxSteps + MaxQuestions)
  BY EngineAssumption
<1>2. QED
  BY <1>1, ContinueTyped, ActTyped DEF Predict, Critique, Phases

\* Giving a plan step to an agent keeps the types.
LEMMA DelegateTyped ==
  ASSUME TypeOK, NEW n \in 1..(MaxSteps + MaxQuestions), Delegate(n)
  PROVE  StepTyped
<1>1. n \in 0..(MaxSteps + MaxQuestions)
  OBVIOUS
<1>2. QED
  BY <1>1, ContinueTyped, RetryTyped DEF Delegate, Phases

\* Asking a question, or going on to the plan, keeps the types.
LEMMA ResearchTyped ==
  ASSUME TypeOK, NEW q \in 0..MaxQuestions, Research(q)
  PROVE  StepTyped
<1>1. 0 \in 0..(MaxSteps + MaxQuestions) /\ q \in 0..(MaxSteps + MaxQuestions)
  BY EngineAssumption
<1>2. QED
  BY <1>1, ContinueTyped DEF Research, Phases

\* Every return of a provider call keeps the types.
LEMMA ProviderTyped ==
  ASSUME TypeOK, ProviderReturns
  PROVE  StepTyped /\ analysed' \in BOOLEAN
<1>0. /\ 0 \in 0..(MaxSteps + MaxQuestions)
      /\ analysed \in BOOLEAN /\ attempts \in Seq(Attempt)
  BY EngineAssumption DEF TypeOK
<1>1. ASSUME NEW ok \in BOOLEAN, Understood(ok)
      PROVE  StepTyped /\ analysed' \in BOOLEAN
  BY <1>0, <1>1, ConcludeTyped, StopTyped, ResearchTyped
     DEF Understood, SafePoint, StepTyped
<1>2. ASSUME Researched
      PROVE  StepTyped /\ analysed' \in BOOLEAN
  <2>1. left > 1 => left - 1 \in 0..(MaxSteps + MaxQuestions)
    BY EngineAssumption DEF TypeOK
  <2>2. QED
    BY <1>0, <1>2, <2>1, ContinueTyped, StopTyped
       DEF Researched, SafePoint, Phases
<1>3. ASSUME NEW ok \in BOOLEAN, Planned(ok)
      PROVE  StepTyped /\ analysed' \in BOOLEAN
  <2>1. \A n \in 1..MaxSteps : n \in 1..(MaxSteps + MaxQuestions)
    BY EngineAssumption
  <2>2. QED
    BY <1>0, <1>3, <2>1, ConcludeTyped, StopTyped, DelegateTyped
       DEF Planned, SafePoint, StepTyped
<1>4. ASSUME NEW ok \in BOOLEAN, StepDone(ok)
      PROVE  StepTyped /\ analysed' \in BOOLEAN
  <2>1. left > 1 => left - 1 \in 1..(MaxSteps + MaxQuestions)
    BY EngineAssumption DEF TypeOK
  <2>2. QED
    BY <1>0, <1>4, <2>1, RetryTyped, StopTyped, DelegateTyped, PredictTyped
       DEF StepDone, SafePoint
<1>5. ASSUME Predicted
      PROVE  StepTyped /\ analysed' \in BOOLEAN
  BY <1>0, <1>5, StopTyped, PredictTyped DEF Predicted, SafePoint
<1>6. ASSUME NEW block \in BOOLEAN, Critiqued(block)
      PROVE  StepTyped /\ analysed' \in BOOLEAN
  BY <1>0, <1>6, StopTyped, RetryTyped, ActTyped DEF Critiqued, SafePoint
<1>7. ASSUME NEW ok \in BOOLEAN, Acted(ok)
      PROVE  StepTyped /\ analysed' \in BOOLEAN
  BY <1>0, <1>7, StopTyped, RetryTyped, ContinueTyped
     DEF Acted, SafePoint, Phases
<1>8. ASSUME NEW ok \in BOOLEAN, Observed(ok)
      PROVE  StepTyped /\ analysed' \in BOOLEAN
  <2>1. ASSUME Verify
        PROVE  StepTyped
    BY <1>0, <2>1, ContinueTyped, ConcludeTyped, AttemptTyped
       DEF Verify, StepTyped, Phases, Verdicts
  <2>2. QED
    BY <1>0, <1>8, <2>1, RetryTyped DEF Observed
<1>9. ASSUME ObservedBlank
      PROVE  StepTyped /\ analysed' \in BOOLEAN
  BY <1>0, <1>9
     DEF ObservedBlank, TypeOK, StepTyped, ProgressTyped, Places, Over, Phases
<1>10. ASSUME NEW v \in Verdicts, Verified(v)
       PROVE  StepTyped /\ analysed' \in BOOLEAN
  BY <1>0, <1>10, ConcludeTyped, AttemptTyped, RetryTyped
     DEF Verified, StepTyped
<1>11. ASSUME Stored
       PROVE  StepTyped /\ analysed' \in BOOLEAN
  BY <1>0, <1>11 DEF Stored, TypeOK, StepTyped, ProgressTyped, Places, Over
<1>12. QED
  BY <1>1, <1>2, <1>3, <1>4, <1>5, <1>6, <1>7, <1>8, <1>9, <1>10, <1>11
     DEF ProviderReturns

\* Every step keeps the types.
LEMMA NextTyped ==
  ASSUME TypeOK, [Next]_vars
  PROVE  TypeOK'
<1>0. 0 \in 0..(MaxSteps + MaxQuestions)
  BY EngineAssumption
<1>1. CASE Solve
  <2>1. StepTyped
    BY <1>0, <1>1, ContinueTyped, StopTyped DEF Solve, SafePoint, Phases
  <2>2. solves' \in 0..MaxSolves
    BY <1>1, EngineAssumption, SMT DEF Solve, TypeOK
  <2>3. analysed' \in BOOLEAN
    BY <1>1, Zenon DEF Solve
  <2>4. QED
    BY <1>1, <2>1, <2>2, <2>3 DEF Solve, TypeOK, StepTyped, ProgressTyped
<1>2. CASE ProviderReturns
  BY <1>2, ProviderTyped DEF ProviderReturns, TypeOK, StepTyped, ProgressTyped
<1>3. CASE Cancel
  BY <1>3 DEF Cancel, TypeOK, progress
<1>4. CASE TimeOut
  <2>1. ProgressTyped
    BY <1>4, FinishTyped DEF TimeOut, TypeOK, Ended
  <2>2. QED
    BY <1>4, <2>1 DEF TimeOut, TypeOK, ProgressTyped
<1>5. CASE TaskCancelled
  BY <1>0, <1>5 DEF TaskCancelled, TypeOK, Places, Over, Ended
<1>6. CASE WriteEnds
  <2>1. PICK st \in saving : /\ saving' = saving \ {st}
                             /\ saved' \in {saved, Append(saved, st)}
    BY <1>6 DEF WriteEnds
  <2>2. saved' \in Seq({"completed", "failed"})
    BY <2>1 DEF TypeOK
  <2>3. QED
    BY <1>6, <2>1, <2>2 DEF WriteEnds, TypeOK
<1>7. CASE UNCHANGED vars
  BY <1>7 DEF vars, progress, TypeOK
<1>8. QED
  BY <1>1, <1>2, <1>3, <1>4, <1>5, <1>6, <1>7 DEF Next

\* The initial state is typed.
LEMMA InitTyped == Init => TypeOK
<1>1. SUFFICES ASSUME Init PROVE TypeOK
  OBVIOUS
<1>2. analysed \in BOOLEAN
  BY <1>1, Zenon DEF Init
<1>3. /\ iteration \in 1..MaxIterations
      /\ left \in 0..(MaxSteps + MaxQuestions)
      /\ solves \in 0..MaxSolves
  BY <1>1, EngineAssumption, SMT DEF Init
<1>4. attempts \in Seq(Attempt) /\ saved \in Seq({"completed", "failed"})
  BY <1>1 DEF Init
<1>5. /\ setup \in Setup /\ pc \in Places
      /\ status \in Phases \cup Ended \cup {"pending"}
      /\ cancelAt \in Places \cup {"never"}
      /\ saving \subseteq {"completed", "failed"}
  BY <1>1 DEF Init, Places
<1>6. QED
  BY <1>2, <1>3, <1>4, <1>5 DEF TypeOK

\* Every field of a session, and every attempt kept on it, keeps to its
\* domain; current_iteration never exceeds max_iterations.
THEOREM EngineTypeCorrect == Spec => []TypeOK
  BY InitTyped, NextTyped, PTL DEF Spec

-----------------------------------------------------------------------------
(* Verified completion.                                                    *)

\* An end that does not complete the session satisfies the property.
LEMMA NotCompleted ==
  ASSUME status' # "completed"
  PROVE  CompletedIsVerified'
  BY DEF CompletedIsVerified

\* Ending an attempt without a result does not complete the session.
LEMMA RetryNotCompleted ==
  ASSUME NEW a, NEW v, Retry(a, v)
  PROVE  status' # "completed"
  BY DEF Retry, Conclude, Finish, Await

\* The attempt kept as the session completes is the one that completes it.
LEMMA CompletedByAttempt ==
  ASSUME TypeOK, NEW v \in {"verified", "not_run"},
         KeepAttempt("ok", v), Conclude("completed")
  PROVE  CompletedIsVerified'
<1> DEFINE a == [number |-> iteration, action |-> "ok", verdict |-> v]
<1>1. a \in Attempt /\ attempts \in Seq(Attempt) /\ iteration' = iteration
  BY DEF TypeOK, Attempt, Verdicts, Conclude
<1>2. attempts' = Append(attempts, a)
  BY DEF KeepAttempt
<1> HIDE DEF a
<1>3. /\ attempts' # <<>>
      /\ Len(attempts') = Len(attempts) + 1
      /\ attempts'[Len(attempts) + 1] = a
  BY <1>1, <1>2, AppendLast
<1>4. a.number = iteration /\ a.action = "ok" /\ a.verdict = v
  BY DEF a
<1>5. QED
  BY <1>1, <1>3, <1>4 DEF CompletedIsVerified

\* The operators that go on with the loop do not complete the session.
LEMMA LoopNotCompleted ==
  /\ \A phase \in Phases : \A n : Continue(phase, n) => status' # "completed"
  /\ Act => status' # "completed"
  /\ Predict \/ Critique => status' # "completed"
  /\ \A n : Delegate(n) => status' # "completed"
  /\ \A q : Research(q) => status' # "completed"
<1>1. \A phase \in Phases : \A n : Continue(phase, n) => status' # "completed"
  BY DEF Continue, Await, Phases
<1>2. Act => status' # "completed"
  BY <1>1, RetryNotCompleted DEF Act, Phases
<1>3. QED
  BY <1>1, <1>2, RetryNotCompleted
     DEF Predict, Critique, Delegate, Research, Phases

\* A provider call that does not end the verification does not complete the
\* session, except where no verifier was built in.
LEMMA ProviderCompletes ==
  ASSUME TypeOK, ProviderReturns, CompletedIsVerified
  PROVE  CompletedIsVerified'
<1>1. ASSUME NEW ok \in BOOLEAN,
             \/ Understood(ok) \/ Planned(ok) \/ StepDone(ok)
             \/ Critiqued(ok) \/ Acted(ok)
      PROVE  status' # "completed"
  <2>1. CASE Understood(ok)
    BY <2>1, LoopNotCompleted DEF Understood, Conclude, SafePoint, Finish
  <2>2. CASE Planned(ok)
    BY <2>2, LoopNotCompleted DEF Planned, Conclude, SafePoint, Finish
  <2>3. CASE StepDone(ok)
    BY <2>3, LoopNotCompleted, RetryNotCompleted DEF StepDone, SafePoint, Finish
  <2>4. CASE Critiqued(ok)
    BY <2>4, LoopNotCompleted, RetryNotCompleted DEF Critiqued, SafePoint, Finish
  <2>5. CASE Acted(ok)
    BY <2>5, LoopNotCompleted, RetryNotCompleted
       DEF Acted, SafePoint, Finish, Phases
  <2>6. QED
    BY <1>1, <2>1, <2>2, <2>3, <2>4, <2>5
<1>2. ASSUME Researched \/ Predicted \/ ObservedBlank
      PROVE  status' # "completed"
  <2>1. CASE Researched
    BY <2>1, LoopNotCompleted DEF Researched, SafePoint, Finish, Phases
  <2>2. CASE Predicted
    BY <2>2, LoopNotCompleted DEF Predicted, SafePoint, Finish
  <2>3. CASE ObservedBlank
    BY <2>3 DEF ObservedBlank
  <2>4. QED
    BY <1>2, <2>1, <2>2, <2>3
<1>3. ASSUME Stored PROVE CompletedIsVerified'
  BY <1>3 DEF Stored, CompletedIsVerified
<1>4. ASSUME NEW ok \in BOOLEAN, Observed(ok) PROVE CompletedIsVerified'
  <2>1. CASE Retry("ok", "none")
    BY <2>1, RetryNotCompleted, NotCompleted
  <2>2. CASE Continue("verifying", 0)
    BY <2>2, LoopNotCompleted, NotCompleted DEF Phases
  <2>3. CASE KeepAttempt("ok", "not_run") /\ Conclude("completed")
    BY <2>3, CompletedByAttempt
  <2>4. QED
    BY <1>4, <2>1, <2>2, <2>3 DEF Observed, Verify
<1>5. ASSUME NEW v \in Verdicts, Verified(v) PROVE CompletedIsVerified'
  <2>1. CASE Accepted(v) /\ KeepAttempt("ok", v) /\ Conclude("completed")
    BY <2>1, CompletedByAttempt DEF Accepted
  <2>2. CASE Conclude("failed")
    BY <2>2, NotCompleted DEF Conclude
  <2>3. CASE Retry("ok", v)
    BY <2>3, RetryNotCompleted, NotCompleted
  <2>4. QED
    BY <1>5, <2>1, <2>2, <2>3 DEF Verified
<1>6. QED
  BY <1>1, <1>2, <1>3, <1>4, <1>5, NotCompleted DEF ProviderReturns

\* The property is kept by every step.
LEMMA NextCompletes ==
  ASSUME TypeOK, CompletedIsVerified, [Next]_vars
  PROVE  CompletedIsVerified'
<1>1. CASE Solve
  BY <1>1, LoopNotCompleted, NotCompleted DEF Solve, SafePoint, Finish, Phases
<1>2. CASE ProviderReturns
  BY <1>2, ProviderCompletes
<1>3. CASE Cancel
  BY <1>3 DEF Cancel, progress, CompletedIsVerified
<1>4. CASE TimeOut
  BY <1>4, NotCompleted DEF TimeOut, Finish
<1>5. CASE TaskCancelled
  <2>1. CASE setup.timeout
    BY <1>5, <2>1, NotCompleted DEF TaskCancelled
  <2>2. CASE ~ setup.timeout
    BY <1>5, <2>2 DEF TaskCancelled, CompletedIsVerified
  <2>3. QED
    BY <2>1, <2>2
<1>6. CASE WriteEnds
  BY <1>6 DEF WriteEnds, CompletedIsVerified
<1>7. CASE UNCHANGED vars
  BY <1>7 DEF vars, progress, CompletedIsVerified
<1>8. QED
  BY <1>1, <1>2, <1>3, <1>4, <1>5, <1>6, <1>7 DEF Next

\* A session is completed only by an iteration whose action succeeded and
\* whose result was verified, or not run.
THEOREM CompletionIsVerified == Spec => []CompletedIsVerified
<1>1. Init => TypeOK /\ CompletedIsVerified
  BY InitTyped DEF Init, CompletedIsVerified
<1>2. TypeOK /\ CompletedIsVerified /\ [Next]_vars
        => (TypeOK /\ CompletedIsVerified)'
  BY NextTyped, NextCompletes
<1>3. QED
  BY <1>1, <1>2, PTL DEF Spec

-----------------------------------------------------------------------------
(* What a cancel request prevents.                                         *)

\* Where the operators that go on with the loop lead.
LEMMA LoopPlaces ==
  /\ \A phase, n : Continue(phase, n) => pc' = phase /\ status' = phase
  /\ \A i : Finish("cancelled", i) => pc' = "returned" /\ status' = "cancelled"
  /\ \A st : Conclude(st) => pc' \in {"storing", "returned"} /\ status' = st
  /\ \A a, v : Retry(a, v) => pc' \in {"storing", "returned", "planning"}
  /\ Act \/ Critique \/ Predict =>
       pc' \in {"predicting", "critiquing", "acting", "storing", "returned",
               "planning"}
  /\ \A n : Delegate(n) =>
       pc' \in {"delegating", "storing", "returned", "planning"}
  /\ \A q : Research(q) => pc' \in {"researching", "planning"}
<1>1. \A phase, n : Continue(phase, n) => pc' = phase /\ status' = phase
  BY DEF Continue, Await
<1>2. \A i : Finish("cancelled", i) => pc' = "returned" /\ status' = "cancelled"
  BY DEF Finish
<1>3. \A st : Conclude(st) => pc' \in {"storing", "returned"} /\ status' = st
  BY DEF Conclude
<1>4. \A a, v : Retry(a, v) => pc' \in {"storing", "returned", "planning"}
  BY <1>2, <1>3 DEF Retry, Await
<1>5. QED
  BY <1>1, <1>2, <1>3, <1>4 DEF Act, Critique, Predict, Delegate, Research

\* Before the action, a step neither observes, verifies nor completes, and
\* executes the action only if no cancel has been accepted.
BeforeAction ==
  /\ pc' \notin {"observing", "verifying"}
  /\ status' # "completed"
  /\ pc' = "acting" => cancelAt = "never"

\* Each provider call before the action keeps to BeforeAction.
LEMMA BeforeActionSteps ==
  ASSUME \/ \E ok \in BOOLEAN : \/ Understood(ok) \/ Planned(ok)
                                \/ StepDone(ok) \/ Critiqued(ok)
         \/ Researched \/ Predicted
  PROVE  BeforeAction
<1>1. ASSUME NEW ok \in BOOLEAN, Understood(ok) PROVE BeforeAction
  BY <1>1, LoopPlaces, LoopNotCompleted
     DEF Understood, SafePoint, BeforeAction
<1>2. ASSUME NEW ok \in BOOLEAN, Planned(ok) PROVE BeforeAction
  BY <1>2, LoopPlaces, LoopNotCompleted DEF Planned, SafePoint, BeforeAction
<1>3. ASSUME NEW ok \in BOOLEAN, StepDone(ok) PROVE BeforeAction
  BY <1>3, LoopPlaces, LoopNotCompleted, RetryNotCompleted
     DEF StepDone, SafePoint, Cancelled, BeforeAction
<1>4. ASSUME NEW block \in BOOLEAN, Critiqued(block) PROVE BeforeAction
  BY <1>4, LoopPlaces, LoopNotCompleted, RetryNotCompleted
     DEF Critiqued, SafePoint, Cancelled, BeforeAction
<1>5. ASSUME Researched PROVE BeforeAction
  BY <1>5, LoopPlaces, LoopNotCompleted
     DEF Researched, SafePoint, BeforeAction, Phases
<1>6. ASSUME Predicted PROVE BeforeAction
  BY <1>6, LoopPlaces, LoopNotCompleted
     DEF Predicted, SafePoint, Cancelled, BeforeAction
<1>7. QED
  BY <1>1, <1>2, <1>3, <1>4, <1>5, <1>6

\* After the action: the result is observed only if no cancel has been
\* accepted, and is completed only from observing or verifying.
LEMMA AfterActionSteps ==
  ASSUME ProviderReturns, ~ BeforeAction
  PROVE  /\ pc' # "acting"
         /\ pc' = "observing" => cancelAt = "never"
         /\ pc' = "verifying" => pc = "observing"
         /\ status' = "completed" =>
              /\ pc' \in {"storing", "returned"}
              /\ \/ pc \in {"observing", "verifying"}
                 \/ pc = "storing" /\ status = "completed"
<1> DEFINE Goal ==
      /\ pc' # "acting"
      /\ pc' = "observing" => cancelAt = "never"
      /\ pc' = "verifying" => pc = "observing"
      /\ status' = "completed" =>
           /\ pc' \in {"storing", "returned"}
           /\ \/ pc \in {"observing", "verifying"}
              \/ pc = "storing" /\ status = "completed"
<1>1. ASSUME NEW ok \in BOOLEAN, Acted(ok) PROVE Goal
  BY <1>1, LoopPlaces, RetryNotCompleted DEF Acted, SafePoint, Cancelled
<1>2. ASSUME NEW ok \in BOOLEAN, Observed(ok) PROVE Goal
  BY <1>2, LoopPlaces, RetryNotCompleted DEF Observed, Verify
<1>3. ASSUME ObservedBlank PROVE Goal
  BY <1>3 DEF ObservedBlank
<1>4. ASSUME NEW v \in Verdicts, Verified(v) PROVE Goal
  BY <1>4, LoopPlaces, RetryNotCompleted DEF Verified
<1>5. ASSUME Stored PROVE Goal
  BY <1>5 DEF Stored
<1> HIDE DEF Goal
<1>6. Goal
  BY <1>1, <1>2, <1>3, <1>4, <1>5, BeforeActionSteps DEF ProviderReturns
<1>7. QED
  BY <1>6 DEF Goal

\* Once cancel() has been accepted no action is executed any more.
THEOREM CancelPreventsAction == Spec => NoActionAfterCancel
<1>1. ASSUME [Next]_vars
      PROVE  pc' = "acting" /\ pc # "acting" => cancelAt = "never"
  <2>1. CASE Solve
    BY <2>1, LoopPlaces DEF Solve, SafePoint
  <2>2. CASE ProviderReturns
    BY <2>2, AfterActionSteps DEF BeforeAction
  <2>3. CASE Cancel \/ WriteEnds \/ UNCHANGED vars
    BY <2>3 DEF Cancel, WriteEnds, vars, progress
  <2>4. CASE TimeOut \/ TaskCancelled
    BY <2>4 DEF TimeOut, TaskCancelled, Finish
  <2>5. QED
    BY <1>1, <2>1, <2>2, <2>3, <2>4 DEF Next
<1>2. QED
  BY <1>1, PTL DEF Spec, NoActionAfterCancel

\* The places at which an accepted cancel is still looked at.
Early == {"idle", "understanding", "researching", "planning", "delegating",
          "predicting", "critiquing", "acting"}

\* The inductive invariant: the observation begins only without an accepted
\* cancel, and a session that is completed has left the loop.
CancelInv ==
  /\ cancelAt \in Early => status # "completed"
  /\ pc \in {"observing", "verifying"} => cancelAt \notin Early
  /\ status = "completed" => pc \in {"storing"} \cup Over

\* Every step keeps CancelInv.
LEMMA NextCancelInv ==
  ASSUME CancelInv, [Next]_vars
  PROVE  CancelInv'
<1>1. CASE Solve
  BY <1>1, LoopPlaces DEF Solve, SafePoint, CancelInv
<1>2. CASE ProviderReturns
  <2>1. cancelAt' = cancelAt
    BY <1>2 DEF ProviderReturns
  <2>2. CASE BeforeAction
    BY <2>1, <2>2 DEF BeforeAction, CancelInv
  <2>3. CASE ~ BeforeAction
    BY <1>2, <2>1, <2>3, AfterActionSteps DEF CancelInv, Early, Over
  <2>4. QED
    BY <2>2, <2>3
<1>3. CASE Cancel
  BY <1>3 DEF Cancel, progress, CancelInv, Early, Over
<1>4. CASE TimeOut
  BY <1>4 DEF TimeOut, Finish, CancelInv
<1>5. CASE TaskCancelled
  BY <1>5 DEF TaskCancelled, CancelInv, Over
<1>6. CASE WriteEnds
  BY <1>6 DEF WriteEnds, CancelInv
<1>7. CASE UNCHANGED vars
  BY <1>7 DEF vars, progress, CancelInv
<1>8. QED
  BY <1>1, <1>2, <1>3, <1>4, <1>5, <1>6, <1>7 DEF Next

\* A cancel accepted before the observation of the last action began keeps
\* the session from being completed.
THEOREM CancelPreventsCompletion == Spec => []CancelBeforeObserving
<1>1. Init => CancelInv
  BY DEF Init, CancelInv, Early
<1>2. CancelInv => CancelBeforeObserving
  BY DEF CancelInv, CancelBeforeObserving, Early
<1>3. QED
  BY <1>1, <1>2, NextCancelInv, PTL DEF Spec

-----------------------------------------------------------------------------
(* The attempts, of a session that is solved once.                         *)

\* The inductive invariant: a session that is not yet solved has none, and
\* no other call of solve() follows the first.
OrderInv ==
  /\ AttemptsInOrder
  /\ pc = "idle" => attempts = <<>> /\ iteration = 1 /\ solves = 0
  /\ pc # "idle" => solves = 1

\* An attempt kept in the loop is the next in order.
LEMMA KeptInOrder ==
  ASSUME TypeOK, AttemptsInOrder, pc \in Phases,
         NEW a \in {"none", "failed", "ok"}, NEW v \in Verdicts \cup {"none"},
         KeepAttempt(a, v)
  PROVE  /\ \A i \in 1..Len(attempts') : attempts'[i].number = i
         /\ Len(attempts') = iteration
<1> DEFINE t == [number |-> iteration, action |-> a, verdict |-> v]
<1>1. t \in Attempt /\ attempts \in Seq(Attempt) /\ t.number = iteration
  BY DEF TypeOK, Attempt
<1>2. attempts' = Append(attempts, t)
  BY DEF KeepAttempt
<1> HIDE DEF t
<1>3. /\ Len(attempts) \in Nat
      /\ Len(attempts') = Len(attempts) + 1
      /\ attempts'[Len(attempts) + 1] = t
      /\ \A i \in 1..Len(attempts) : attempts'[i] = attempts[i]
  BY <1>1, <1>2, AppendLast
<1>4. Len(attempts) = iteration - 1 /\ iteration \in Int
  BY DEF AttemptsInOrder, TypeOK
<1>5. ASSUME NEW i \in 1..Len(attempts') PROVE attempts'[i].number = i
  <2>1. CASE i \in 1..Len(attempts)
    BY <1>3, <2>1 DEF AttemptsInOrder
  <2>2. CASE i = Len(attempts) + 1
    BY <1>1, <1>3, <1>4, <2>2
  <2>3. QED
    BY <1>3, <1>5, <2>1, <2>2
<1>6. QED
  BY <1>3, <1>4, <1>5

\* What the operators that end a step do to the order of the attempts.
LEMMA OrderSteps ==
  ASSUME TypeOK, AttemptsInOrder, pc \in Phases
  PROVE  /\ \A phase, n : Continue(phase, n) => AttemptsInOrder'
         /\ \A st, i : Finish(st, i) /\ UNCHANGED attempts => AttemptsInOrder'
         /\ \A st : Conclude(st) /\ UNCHANGED attempts => AttemptsInOrder'
         /\ \A a \in {"none", "failed", "ok"}, v \in Verdicts \cup {"none"} :
              Retry(a, v) => AttemptsInOrder'
         /\ \A st : \A a \in {"none", "failed", "ok"}, v \in Verdicts :
              KeepAttempt(a, v) /\ Conclude(st) => AttemptsInOrder'
<1>0. iteration \in 1..MaxIterations /\ MaxIterations \in Nat
  BY EngineAssumption DEF TypeOK
<1>1. \A phase, n : Continue(phase, n) => AttemptsInOrder'
  BY DEF Continue, Await, AttemptsInOrder
<1>2. \A st, i : Finish(st, i) /\ UNCHANGED attempts => AttemptsInOrder'
  BY DEF Finish, AttemptsInOrder, Phases
<1>3. \A st : Conclude(st) /\ UNCHANGED attempts => AttemptsInOrder'
  BY DEF Conclude, AttemptsInOrder, Phases
<1>4. ASSUME NEW a \in {"none", "failed", "ok"},
             NEW v \in Verdicts \cup {"none"}, KeepAttempt(a, v),
             pc' \in Phases => iteration' = iteration + 1
      PROVE  AttemptsInOrder'
  <2>1. /\ \A i \in 1..Len(attempts') : attempts'[i].number = i
        /\ Len(attempts') = iteration
    BY <1>4, KeptInOrder
  <2>2. QED
    BY <1>0, <1>4, <2>1 DEF AttemptsInOrder
<1>5. ASSUME NEW a \in {"none", "failed", "ok"},
             NEW v \in Verdicts \cup {"none"}, Retry(a, v)
      PROVE  AttemptsInOrder'
  <2>1. pc' \in Phases => iteration' = iteration + 1
    BY <1>5 DEF Retry, Conclude, Finish, Await, Phases
  <2>2. QED
    BY <1>4, <1>5, <2>1 DEF Retry
<1>6. ASSUME NEW a \in {"none", "failed", "ok"}, NEW v \in Verdicts, NEW st,
             KeepAttempt(a, v), Conclude(st)
      PROVE  AttemptsInOrder'
  <2>1. pc' \notin Phases
    BY <1>6 DEF Conclude, Phases
  <2>2. QED
    BY <1>4, <1>6, <2>1
<1>7. QED
  BY <1>1, <1>2, <1>3, <1>5, <1>6

\* The phases that follow without an await keep the order.
LEMMA LoopOrder ==
  ASSUME TypeOK, AttemptsInOrder, pc \in Phases
  PROVE  /\ Act \/ Critique \/ Predict \/ Verify => AttemptsInOrder'
         /\ \A n : Delegate(n) => AttemptsInOrder'
         /\ \A q : Research(q) => AttemptsInOrder'
  BY OrderSteps DEF Act, Critique, Predict, Verify, Delegate, Research, Verdicts

\* Every return of a provider call keeps the order.
LEMMA ProviderOrder ==
  ASSUME TypeOK, AttemptsInOrder, ProviderReturns
  PROVE  AttemptsInOrder'
<1>1. ASSUME NEW ok \in BOOLEAN, Understood(ok) PROVE AttemptsInOrder'
  <2>1. pc \in Phases
    BY <1>1 DEF Understood, Phases
  <2>2. QED
    BY <1>1, <2>1, OrderSteps, LoopOrder DEF Understood, SafePoint
<1>2. ASSUME NEW ok \in BOOLEAN, Planned(ok) PROVE AttemptsInOrder'
  <2>1. pc \in Phases
    BY <1>2 DEF Planned, Phases
  <2>2. QED
    BY <1>2, <2>1, OrderSteps, LoopOrder DEF Planned, SafePoint
<1>3. ASSUME NEW ok \in BOOLEAN, StepDone(ok) PROVE AttemptsInOrder'
  <2>1. pc \in Phases
    BY <1>3 DEF StepDone, Phases
  <2>2. QED
    BY <1>3, <2>1, OrderSteps, LoopOrder DEF StepDone, SafePoint
<1>4. ASSUME NEW block \in BOOLEAN, Critiqued(block) PROVE AttemptsInOrder'
  <2>1. pc \in Phases
    BY <1>4 DEF Critiqued, Phases
  <2>2. QED
    BY <1>4, <2>1, OrderSteps, LoopOrder DEF Critiqued, SafePoint
<1>5. ASSUME NEW ok \in BOOLEAN, Acted(ok) PROVE AttemptsInOrder'
  <2>1. pc \in Phases
    BY <1>5 DEF Acted, Phases
  <2>2. QED
    BY <1>5, <2>1, OrderSteps DEF Acted, SafePoint
<1>6. ASSUME NEW ok \in BOOLEAN, Observed(ok) PROVE AttemptsInOrder'
  <2>1. pc \in Phases
    BY <1>6 DEF Observed, Phases
  <2>2. QED
    BY <1>6, <2>1, OrderSteps, LoopOrder DEF Observed
<1>7. ASSUME Researched PROVE AttemptsInOrder'
  <2>1. pc \in Phases
    BY <1>7 DEF Researched, Phases
  <2>2. QED
    BY <1>7, <2>1, OrderSteps DEF Researched, SafePoint
<1>8. ASSUME Predicted PROVE AttemptsInOrder'
  <2>1. pc \in Phases
    BY <1>8 DEF Predicted, Phases
  <2>2. QED
    BY <1>8, <2>1, OrderSteps, LoopOrder DEF Predicted, SafePoint
<1>9. ASSUME NEW v \in Verdicts, Verified(v) PROVE AttemptsInOrder'
  <2>1. pc \in Phases
    BY <1>9 DEF Verified, Phases
  <2>2. QED
    BY <1>9, <2>1, OrderSteps DEF Verified
<1>10. ASSUME ObservedBlank \/ Stored PROVE AttemptsInOrder'
  BY <1>10 DEF ObservedBlank, Stored, AttemptsInOrder, Phases
<1>11. QED
  BY <1>1, <1>2, <1>3, <1>4, <1>5, <1>6, <1>7, <1>8, <1>9, <1>10
     DEF ProviderReturns

\* A provider call does not bring the session back to before solve().
LEMMA ProviderNotIdle ==
  ASSUME ProviderReturns
  PROVE  pc' # "idle"
<1>1. ASSUME NEW ok \in BOOLEAN, \/ Understood(ok) \/ Planned(ok) \/ Acted(ok)
                                \/ Observed(ok)
      PROVE  pc' # "idle"
  BY <1>1, LoopPlaces
     DEF Understood, Planned, Acted, Observed, Verify, SafePoint
<1>2. ASSUME NEW ok \in BOOLEAN, StepDone(ok) \/ Critiqued(ok)
      PROVE  pc' # "idle"
  BY <1>2, LoopPlaces DEF StepDone, Critiqued, SafePoint
<1>3. ASSUME NEW v \in Verdicts, Verified(v) PROVE pc' # "idle"
  BY <1>3, LoopPlaces DEF Verified
<1>4. ASSUME Researched \/ Predicted \/ ObservedBlank \/ Stored
      PROVE  pc' # "idle"
  BY <1>4, LoopPlaces DEF Researched, Predicted, ObservedBlank, Stored, SafePoint
<1>5. QED
  BY <1>1, <1>2, <1>3, <1>4 DEF ProviderReturns

\* Every step keeps OrderInv, if the session is solved once.
LEMMA NextOrder ==
  ASSUME MaxSolves = 1, TypeOK, OrderInv, [Next]_vars
  PROVE  OrderInv'
<1>1. CASE Solve
  <2>1. /\ pc = "idle" /\ solves' = 1
        /\ attempts = <<>> /\ iteration = 1
    BY <1>1 DEF Solve, OrderInv, TypeOK
  <2>2. attempts' = <<>> /\ iteration' = 1 /\ pc' # "idle"
    BY <1>1, <2>1 DEF Solve, SafePoint, Continue, Await, Finish
  <2>3. QED
    BY <2>1, <2>2, EngineAssumption DEF OrderInv, AttemptsInOrder
<1>2. CASE ProviderReturns
  <2>1. solves' = solves /\ AttemptsInOrder'
    BY <1>2, ProviderOrder DEF ProviderReturns, OrderInv
  <2>2. pc # "idle"
    BY <1>2 DEF ProviderReturns, Understood, Planned, StepDone, Critiqued,
                Acted, Observed, Researched, Predicted, ObservedBlank, Stored,
                Verified
  <2>3. pc' # "idle"
    BY <1>2, ProviderNotIdle
  <2>4. QED
    BY <2>1, <2>2, <2>3 DEF OrderInv
<1>3. CASE Cancel \/ WriteEnds \/ UNCHANGED vars
  BY <1>3 DEF Cancel, WriteEnds, vars, progress, OrderInv, AttemptsInOrder
<1>4. CASE TimeOut \/ TaskCancelled
  BY <1>4 DEF TimeOut, TaskCancelled, Finish, OrderInv, AttemptsInOrder,
              Running, Phases
<1>5. QED
  BY <1>1, <1>2, <1>3, <1>4 DEF Next

\* In a session that is solved once, entering iteration n finds the attempts
\* 1 .. n-1, each once and in order, whichever branch of the loop ended them.
THEOREM AttemptsKeptInOrder ==
  ASSUME MaxSolves = 1
  PROVE  Spec => []AttemptsInOrder
<1>1. Init => OrderInv
  BY EngineAssumption DEF Init, OrderInv, AttemptsInOrder, Phases
<1>2. TypeOK /\ OrderInv /\ [Next]_vars => OrderInv'
  BY NextOrder
<1>3. OrderInv => AttemptsInOrder
  BY DEF OrderInv
<1>4. QED
  BY <1>1, <1>2, <1>3, EngineTypeCorrect, PTL DEF Spec

-----------------------------------------------------------------------------
(* The memory record, of a session that is solved once.                    *)

\* The inductive invariant: nothing is written before the loop is left, what
\* is being written or has been is the status the session ended with, and a
\* record is not written twice.
RecordInv ==
  ~ setup.timeout =>
    /\ pc \in Phases \cup {"idle"} => saving = {} /\ saved = <<>>
    /\ saving \subseteq {status}
    /\ saving # {} => saved = <<>>
    /\ \A i \in 1..Len(saved) : saved[i] = status
    /\ Len(saved) <= 1

\* A step that leaves a phase starts at most the write of the status it sets.
StartsWrite ==
  /\ saving' \subseteq {status'}
  /\ pc' \in Phases => saving' = {}
  /\ pc' # "idle"

\* The operators that end a step do so when nothing is being written.
LEMMA StartSteps ==
  ASSUME saving = {}
  PROVE  /\ \A phase \in Phases : \A n : Continue(phase, n) => StartsWrite
         /\ \A st, i : Finish(st, i) => StartsWrite
         /\ \A st : Conclude(st) => StartsWrite
         /\ \A a, v : Retry(a, v) => StartsWrite
         /\ Act \/ Critique \/ Predict \/ Verify => StartsWrite
         /\ \A n : Delegate(n) => StartsWrite
         /\ \A q : Research(q) => StartsWrite
<1>1. \A phase \in Phases : \A n : Continue(phase, n) => StartsWrite
  BY DEF Continue, Await, StartsWrite, Phases
<1>2. \A st, i : Finish(st, i) => StartsWrite
  BY DEF Finish, StartsWrite, Phases
<1>3. \A st : Conclude(st) => StartsWrite
  BY DEF Conclude, StartsWrite, Phases
<1>4. \A a, v : Retry(a, v) => StartsWrite
  BY <1>2, <1>3 DEF Retry, Await, StartsWrite
<1>5. Act => StartsWrite
  BY <1>1, <1>4 DEF Act, Phases
<1>6. QED
  BY <1>1, <1>2, <1>3, <1>4, <1>5
     DEF Critique, Predict, Verify, Delegate, Research, Phases

\* A provider call that is not a memory write returns in a phase.
LEMMA ProviderStarts ==
  ASSUME saving = {}, ProviderReturns, ~ Stored
  PROVE  StartsWrite
<1>1. ASSUME NEW ok \in BOOLEAN, Understood(ok) \/ Planned(ok) PROVE StartsWrite
  BY <1>1, StartSteps DEF Understood, Planned, SafePoint
<1>2. ASSUME NEW ok \in BOOLEAN, StepDone(ok) \/ Critiqued(ok)
      PROVE  StartsWrite
  BY <1>2, StartSteps DEF StepDone, Critiqued, SafePoint
<1>3. ASSUME NEW ok \in BOOLEAN, Acted(ok) \/ Observed(ok) PROVE StartsWrite
  BY <1>3, StartSteps DEF Acted, Observed, SafePoint, Phases
<1>4. ASSUME Researched \/ Predicted PROVE StartsWrite
  BY <1>4, StartSteps DEF Researched, Predicted, SafePoint, Phases
<1>5. ASSUME ObservedBlank PROVE StartsWrite
  BY <1>5 DEF ObservedBlank, StartsWrite, Phases
<1>6. ASSUME NEW v \in Verdicts, Verified(v) PROVE StartsWrite
  BY <1>6, StartSteps DEF Verified
<1>7. QED
  BY <1>1, <1>2, <1>3, <1>4, <1>5, <1>6 DEF ProviderReturns

\* Every step keeps RecordInv, if the session is solved once.
LEMMA NextRecord ==
  ASSUME MaxSolves = 1, TypeOK, OrderInv, RecordInv, [Next]_vars
  PROVE  RecordInv'
<1>0. SUFFICES ASSUME ~ setup.timeout
      PROVE  /\ pc' \in Phases \cup {"idle"} => saving' = {} /\ saved' = <<>>
             /\ saving' \subseteq {status'}
             /\ saving' # {} => saved' = <<>>
             /\ \A i \in 1..Len(saved') : saved'[i] = status'
             /\ Len(saved') <= 1
  <2>1. setup' = setup
    BY DEF Next, Solve, ProviderReturns, Cancel, TimeOut, TaskCancelled,
           WriteEnds, vars
  <2>2. QED
    BY <2>1 DEF RecordInv
<1>1. CASE Solve
  <2>1. pc = "idle" /\ saving = {} /\ saved = <<>> /\ saved' = saved
    BY <1>0, <1>1 DEF Solve, OrderInv, TypeOK, RecordInv
  <2>2. StartsWrite
    BY <1>1, <2>1, StartSteps DEF Solve, SafePoint, Phases
  <2>3. QED
    BY <2>1, <2>2 DEF StartsWrite
<1>2. CASE ProviderReturns /\ ~ Stored
  <2>1. pc \in Phases /\ saved' = saved
    BY <1>2 DEF ProviderReturns, Understood, Planned, StepDone, Critiqued,
                Acted, Observed, Researched, Predicted, ObservedBlank,
                Verified, Phases
  <2>2. saving = {} /\ saved = <<>>
    BY <1>0, <2>1 DEF RecordInv
  <2>3. StartsWrite
    BY <1>2, <2>2, ProviderStarts
  <2>4. QED
    BY <2>1, <2>2, <2>3 DEF StartsWrite
<1>3. CASE ProviderReturns /\ Stored
  BY <1>0, <1>3 DEF ProviderReturns, Stored, RecordInv, Phases
<1>4. CASE Cancel \/ UNCHANGED vars
  BY <1>0, <1>4 DEF Cancel, vars, progress, RecordInv
<1>5. CASE TimeOut
  BY <1>0, <1>5 DEF TimeOut
<1>6. CASE TaskCancelled
  BY <1>0, <1>6 DEF TaskCancelled, RecordInv, Phases
<1>7. CASE WriteEnds
  <2>1. PICK st \in saving : /\ saving' = saving \ {st}
                             /\ saved' \in {saved, Append(saved, st)}
                             /\ UNCHANGED <<pc, status>>
    BY <1>7 DEF WriteEnds
  <2>2. /\ st = status /\ saving' = {} /\ saved = <<>>
        /\ pc \notin Phases \cup {"idle"}
    BY <1>0, <2>1 DEF RecordInv
  <2>3. saved' \in {<<>>, <<status>>}
    BY <2>1, <2>2
  <2>4. (\A i \in 1..Len(saved') : saved'[i] = status) /\ Len(saved') <= 1
    <3>1. CASE saved' = <<>>
      BY <3>1
    <3>2. CASE saved' = <<status>>
      <4>1. <<status>>[1] = status /\ Len(<<status>>) = 1
        OBVIOUS
      <4>2. QED
        BY <3>2, <4>1
    <3>3. QED
      BY <2>3, <3>1, <3>2
  <2>5. QED
    BY <2>1, <2>2, <2>4
<1>8. QED
  BY <1>1, <1>2, <1>3, <1>4, <1>5, <1>6, <1>7 DEF Next

\* What memory says of a session that is solved once is how it ended, and it
\* says it once, if no timeout overtakes the write: whichever cancel request
\* or cancellation of the task comes while the record is written.
THEOREM RecordTellsOutcome ==
  ASSUME MaxSolves = 1
  PROVE  Spec => []RecordIsOutcome
<1>1. Init => OrderInv /\ RecordInv
  BY EngineAssumption DEF Init, OrderInv, AttemptsInOrder, RecordInv, Phases
<1>2. TypeOK /\ OrderInv /\ RecordInv /\ [Next]_vars => (OrderInv /\ RecordInv)'
  BY NextOrder, NextRecord
<1>3. RecordInv => RecordIsOutcome
  BY DEF RecordInv, RecordIsOutcome
<1>4. QED
  BY <1>1, <1>2, <1>3, EngineTypeCorrect, PTL DEF Spec
=============================================================================
