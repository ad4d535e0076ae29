------------------------ MODULE ProblemSolvingEngine ------------------------
(***************************************************************************)
(* One session of ProblemSolvingEngine: the bounded loop of _run_session,  *)
(* with the calls that can happen while it awaits a provider.  Sessions    *)
(* share no state but dictionaries keyed by session id, so one is modelled.*)
(*                                                                         *)
(* Between two awaits the code runs without interruption, so an action is  *)
(* what happens from the return of one provider call to the next await,    *)
(* and `pc' is the call awaited.  cancel(), the expiry of wait_for and a   *)
(* cancellation of the task that runs solve() come between actions.        *)
(***************************************************************************)
EXTENDS Integers, Sequences

CONSTANTS
  MaxIterations,  \* max_iterations
  MaxSteps,       \* bound on the steps of a plan
  MaxQuestions,   \* bound on the questions that are researched
  MaxSolves       \* bound on the calls of solve() for the session

ASSUME EngineAssumption ==
  /\ MaxIterations \in Nat \ {0}
  /\ MaxSteps \in Nat \ {0}
  /\ MaxQuestions \in Nat
  /\ MaxSolves \in Nat \ {0}

VARIABLES
  setup,      \* the optional parts the engine was built with
  pc,         \* the provider call awaited
  status,     \* session.status
  iteration,  \* session.current_iteration
  analysed,   \* the local `analysis' is not None
  left,       \* questions or plan steps still to do in this phase
  attempts,   \* session.attempts
  cancelAt,   \* pc when cancel() was accepted; "never" before
  saving,     \* statuses of memory records being written
  saved,      \* statuses of the memory records of this session, in order
  solves      \* calls of solve() so far

progress == <<pc, status, iteration, left, saving>>
vars == <<setup, progress, analysed, attempts, cancelAt, saved, solves>>

Setup == [research : BOOLEAN, predictor : BOOLEAN, critic : BOOLEAN,
          verifier : BOOLEAN, memory : BOOLEAN, security : BOOLEAN,
          timeout : BOOLEAN, failInconclusive : BOOLEAN]

Phases == {"understanding", "researching", "planning", "delegating",
           "predicting", "critiquing", "acting", "observing", "verifying"}
Ended == {"completed", "failed", "cancelled", "timed_out"}
Running == Phases \cup {"storing"}
Over == {"returned", "raised", "crashed"}
Places == Running \cup Over \cup {"idle"}

Verdicts == {"verified", "failed", "inconclusive", "not_run"}
Attempt == [number : 1..MaxIterations, action : {"none", "failed", "ok"},
            verdict : Verdicts \cup {"none"}]

TypeOK ==
  /\ setup \in Setup
  /\ pc \in Places
  /\ status \in Phases \cup Ended \cup {"pending"}
  /\ iteration \in 1..MaxIterations
  /\ analysed \in BOOLEAN
  /\ left \in 0..(MaxSteps + MaxQuestions)
  /\ attempts \in Seq(Attempt)
  /\ cancelAt \in Places \cup {"never"}
  /\ saving \subseteq {"completed", "failed"}
  /\ saved \in Seq({"completed", "failed"})
  /\ solves \in 0..MaxSolves

Init ==
  /\ setup \in Setup
  /\ pc = "idle"
  /\ status = "pending"
  /\ iteration = 1
  /\ analysed = FALSE
  /\ left = 0
  /\ attempts = <<>>
  /\ cancelAt = "never"
  /\ saving = {}
  /\ saved = <<>>
  /\ solves = 0

-----------------------------------------------------------------------------
(* How a step goes on: each of these sets `progress'; those from Retry on  *)
(* set `attempts' too.                                                     *)

Await(phase, i, n) ==
  /\ pc' = phase
  /\ status' = phase
  /\ iteration' = i
  /\ left' = n
  /\ UNCHANGED saving

\* _finish_cancelled and _finish_timed_out: no memory summary is stored.
Finish(st, i) ==
  /\ pc' = "returned"
  /\ status' = st
  /\ iteration' = i
  /\ left' = 0
  /\ UNCHANGED saving

\* _fail, _complete and _complete_unverified set the status first and then
\* await the memory.
Conclude(st) ==
  /\ pc' = IF setup.memory THEN "storing" ELSE "returned"
  /\ status' = st
  /\ saving' = IF setup.memory THEN saving \cup {st} ELSE saving
  /\ left' = 0
  /\ UNCHANGED iteration

\* _is_cancelled
Cancelled == cancelAt # "never"

OutOfIterations == iteration >= MaxIterations

\* Mutant: the attempt is not kept on the session.
ForgetAttempt(action, verdict) == UNCHANGED attempts

KeepAttempt(action, verdict) ==
  attempts' = Append(attempts, [number |-> iteration, action |-> action,
                                verdict |-> verdict])

\* An attempt ends without a result: _replan_or_fail, and the head of the
\* loop with the analysis at hand.
Retry(action, verdict) ==
  /\ KeepAttempt(action, verdict)
  /\ \/ OutOfIterations /\ Conclude("failed")
     \/ ~ OutOfIterations /\ Cancelled /\ Finish("cancelled", iteration + 1)
     \/ ~ OutOfIterations /\ ~ Cancelled /\ Await("planning", iteration + 1, 0)

Continue(phase, n) == Await(phase, iteration, n) /\ UNCHANGED attempts

\* A check of _is_cancelled before A.
SafePoint(A) ==
  \/ Cancelled /\ Finish("cancelled", iteration) /\ UNCHANGED attempts
  \/ ~ Cancelled /\ A

-----------------------------------------------------------------------------
(* The phases of an iteration, as reached from the one before.             *)

\* The action is executed unless the security policy denies it or wants a
\* confirmation, which the loop cannot give.
Act ==
  \/ Continue("acting", 0)
  \/ setup.security /\ Retry("failed", "none")

Critique ==
  \/ setup.critic /\ Continue("critiquing", 0)
  \/ ~ setup.critic /\ Act

Predict ==
  \/ setup.predictor /\ Continue("predicting", 0)
  \/ ~ setup.predictor /\ Critique

\* The next of n plan steps goes to an agent, unless none can take it.
Delegate(n) == Continue("delegating", n) \/ Retry("none", "none")

Research(q) ==
  IF iteration = 1 /\ setup.research /\ q > 0
  THEN Continue("researching", q)
  ELSE Continue("planning", 0)

Verify ==
  \/ setup.verifier /\ Continue("verifying", 0)
  \/ /\ ~ setup.verifier
     /\ KeepAttempt("ok", "not_run")
     /\ Conclude("completed")

-----------------------------------------------------------------------------
(* A provider call returns; ok is FALSE when it failed or raised.          *)

Understood(ok) ==
  /\ pc = "understanding"
  /\ analysed' = ok
  /\ \/ ~ ok /\ Conclude("failed") /\ UNCHANGED attempts
     \/ ok /\ SafePoint(\E q \in 0..MaxQuestions : Research(q))

\* A question whose research fails is skipped.
Researched ==
  /\ pc = "researching"
  /\ \/ left > 1 /\ Continue("researching", left - 1)
     \/ left = 1 /\ SafePoint(Continue("planning", 0))
  /\ UNCHANGED analysed

Planned(ok) ==
  /\ pc = "planning"
  /\ \/ ~ ok /\ Conclude("failed") /\ UNCHANGED attempts
     \/ ok /\ SafePoint(\E n \in 1..MaxSteps : Delegate(n))
  /\ UNCHANGED analysed

StepDone(ok) ==
  /\ pc = "delegating"
  /\ \/ ~ ok /\ Retry("none", "none")
     \/ ok /\ left > 1 /\ SafePoint(Delegate(left - 1))
     \/ ok /\ left = 1 /\ SafePoint(Predict)
  /\ UNCHANGED analysed

\* Mutant: no cancel check after predicting.
PredictedUnchecked ==
  /\ pc = "predicting"
  /\ Critique
  /\ UNCHANGED analysed

\* A failed prediction is only a notice.
Predicted ==
  /\ pc = "predicting"
  /\ SafePoint(Critique)
  /\ UNCHANGED analysed

\* A failed critique does not block.
Critiqued(block) ==
  /\ pc = "critiquing"
  /\ SafePoint(IF block THEN Retry("none", "none") ELSE Act)
  /\ UNCHANGED analysed

Acted(ok) ==
  /\ pc = "acting"
  /\ \/ ~ ok /\ Retry("failed", "none")
     \/ ok /\ SafePoint(Continue("observing", 0))
  /\ UNCHANGED analysed

\* There is no cancel check between observing and verifying.
Observed(ok) ==
  /\ pc = "observing"
  /\ \/ ~ ok /\ Retry("ok", "none")
     \/ ok /\ Verify
  /\ UNCHANGED analysed

\* An observation with a blank line: the ObservedResult is built outside the
\* try of _phase_verifying, so solve() raises and the session stays as it is.
ObservedBlank ==
  /\ pc = "observing"
  /\ setup.verifier
  /\ pc' = "crashed"
  /\ status' = "verifying"
  /\ left' = 0
  /\ UNCHANGED <<iteration, saving, attempts, analysed>>

\* Mutant: only a failed verification makes the loop replan.
AcceptUnlessFailed(v) == v # "failed"

\* The verdicts that complete the session.
Accepted(v) == v \in {"verified", "not_run"}

Verified(v) ==
  /\ pc = "verifying"
  /\ \/ Accepted(v) /\ KeepAttempt("ok", v) /\ Conclude("completed")
     \/ /\ ~ Accepted(v)
        /\ v = "inconclusive"
        /\ setup.failInconclusive
        /\ KeepAttempt("ok", v)
        /\ Conclude("failed")
     \/ /\ ~ Accepted(v)
        /\ ~ (v = "inconclusive" /\ setup.failInconclusive)
        /\ Retry("ok", v)
  /\ UNCHANGED analysed

\* Mutant: the session is cancelled by a request found after the store.
StoredThenCancelled ==
  /\ pc = "storing"
  /\ status \notin saving
  /\ pc' = "returned"
  /\ status' = IF Cancelled THEN "cancelled" ELSE status
  /\ UNCHANGED <<iteration, left, saving, attempts, analysed>>

\* Memory.store returns or raises, its write having ended.
Stored ==
  /\ pc = "storing"
  /\ status \notin saving
  /\ pc' = "returned"
  /\ UNCHANGED <<status, iteration, left, saving, attempts, analysed>>

ProviderReturns ==
  /\ \/ \E ok \in BOOLEAN :
          \/ Understood(ok) \/ Planned(ok) \/ StepDone(ok)
          \/ Critiqued(ok) \/ Acted(ok) \/ Observed(ok)
     \/ Researched \/ Predicted \/ ObservedBlank \/ Stored
     \/ \E v \in Verdicts : Verified(v)
  /\ UNCHANGED <<setup, cancelAt, saved, solves>>

-----------------------------------------------------------------------------
(* What happens beside the loop.                                           *)

\* solve(), also for a session that has been solved before: its iteration,
\* attempts and cancel request are still there.
Solve ==
  /\ pc \in Over \cup {"idle"}
  /\ solves < MaxSolves
  /\ solves' = solves + 1
  /\ analysed' = FALSE
  /\ SafePoint(Continue("understanding", 0))
  /\ UNCHANGED <<setup, cancelAt, saved>>

\* Accepted once for a known session, running or not.
Cancel ==
  /\ ~ Cancelled
  /\ cancelAt' = pc
  /\ UNCHANGED <<setup, progress, analysed, attempts, saved, solves>>

\* wait_for expires: the awaited call is cancelled, the write of a memory
\* record, which runs in a thread, is not.
TimeOut ==
  /\ setup.timeout
  /\ pc \in Running
  /\ Finish("timed_out", iteration)
  /\ UNCHANGED <<setup, analysed, attempts, cancelAt, saved, solves>>

\* The task that runs solve() is cancelled: only the branch that has a
\* timeout of its own notices.
TaskCancelled ==
  /\ pc \in Running
  /\ pc' = "raised"
  /\ status' = IF setup.timeout THEN "cancelled" ELSE status
  /\ left' = 0
  /\ UNCHANGED <<setup, iteration, saving, analysed, attempts, cancelAt,
                 saved, solves>>

\* The thread that writes a record ends, with or without a record.
WriteEnds ==
  \E st \in saving :
    /\ saving' = saving \ {st}
    /\ saved' \in {saved, Append(saved, st)}
    /\ UNCHANGED <<setup, pc, status, iteration, left, analysed, attempts,
                   cancelAt, solves>>

-----------------------------------------------------------------------------
Next ==
  \/ Solve
  \/ ProviderReturns
  \/ Cancel
  \/ TimeOut
  \/ TaskCancelled
  \/ WriteEnds

Spec == Init /\ [][Next]_vars

-----------------------------------------------------------------------------
(* Properties.                                                             *)

\* The planner is given every earlier attempt: on entry to iteration n the
\* session holds the attempts 1 .. n-1, each once and in order, whichever
\* branch of the loop ended them.  (Of a session solved once.)
AttemptsInOrder ==
  /\ \A i \in 1..Len(attempts) : attempts[i].number = i
  /\ pc \in Phases => Len(attempts) = iteration - 1
  /\ Len(attempts) <= MaxIterations

\* A session is completed only by an iteration whose action succeeded and
\* whose result was verified, or not run because no verifier judged it.
CompletedIsVerified ==
  status = "completed" =>
    /\ attempts # <<>>
    /\ LET last == attempts[Len(attempts)]
       IN  /\ last.number = iteration
           /\ last.action = "ok"
           /\ last.verdict \in {"verified", "not_run"}

\* Once cancel() has been accepted no action is executed any more: every
\* path from an await to the action executor passes a cancel check.
NoActionAfterCancel ==
  [][pc' = "acting" /\ pc # "acting" => cancelAt = "never"]_vars

\* A cancel accepted before the observation of the last action began keeps
\* the session from being completed.
CancelBeforeObserving ==
  cancelAt \in {"idle", "understanding", "researching", "planning",
                "delegating", "predicting", "critiquing", "acting"}
    => status # "completed"

\* What memory says of the session is how the session ended, if no timeout
\* overtakes the write.  (Of a session solved once.)
RecordIsOutcome ==
  ~ setup.timeout =>
    /\ \A i \in 1..Len(saved) : saved[i] = status
    /\ Len(saved) <= 1
=============================================================================
