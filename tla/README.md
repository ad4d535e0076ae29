# MISS-MINUTES: a verification project

MISS-MINUTES is a Python assistant: an orchestrator that plans and runs tasks through agents and tools, a bounded
problem-solving loop, a master/worker layer that runs tasks on other machines, voice sessions, an avatar, a
permission layer, a memory and a runtime that starts and stops them. Almost everything is `asyncio` on one event loop,
so its concurrency is that of coroutines: a method runs without interruption from one `await` to the next, and whatever
it read before an `await` may be stale after it. That is the view all modules here take: **one action is one stretch of
code between two awaits**. Where the code has more than that (the memory's threads, a child process, a worker on
another machine), the threads, processes and messages are actors of their own.

Paths below are relative to `src/backend/app/` unless they start with `src/`.

## 1. The system

| component | state it keeps | operations that change it | modelled in |
|---|---|---|---|
| Distributed master (`distributed/coordinator.py`, `queue.py`, `registry.py`, `scheduler.py`) | tasks and their status, deque, assignment table, results, workers | submit, cancel, dispatch_next/batch, dispatch_async, accept_result, check_in_flight, register, heartbeat, unregister, mark_stale | `DistributedCoordinator` |
| Distributed adapter (`distributed/adapter.py`) | a poll counter per call | submit_and_await_async | `DistributedAdapter` |
| Distributed worker and transports (`distributed/service.py`, `httptransports.py`, `httpapi.py`) | the worker's registration, the loop's stage, requests on the way | register_with_master, heartbeat_loop, handle_task, the HTTP endpoints | `DistributedWorker` |
| Problem-solving engine (`solver/`) | sessions, cancel requests | create_session, solve, cancel, the phases of the loop | `ProblemSolvingEngine` |
| Security manager (`security/`) | confirmations, audit ring | check, approve, deny, expire | `PermissionGate`; as allowed or not also in the other modules |
| Orchestrator, routing (`core/orchestrator.py`, `routing.py`, `planner.py`) | task status, last plan and results | execute on its four paths | `AgentRouting`, `Orchestrator` |
| Runtime (`runtime/`) | ready and shutdown flags, the browser bundle, capabilities, audit trail | startup, shutdown, handle_text/voice/task | `Runtime` |
| Voice assistant (`voice/assistant.py`, `session.py`, `turns.py`) | session state, interrupt event, turns | run, interrupt, cancel, the turn pipeline | `VoiceAssistant` |
| Voice conversation (`voice/service.py`, `brain.py`, `language.py`, `local_detector.py`) | history, latest style | handle, respond | `LanguageDetection`, `VoiceConversation` |
| Avatar control (`avatar/controller.py` and its parts) | state, gestures, speech, walk, movement | signals, speak, walk_to, update, start, stop | `AvatarParts`, `AvatarController` |
| Tools and browser (`tools/`, `browser/`, `core/path_safety.py`) | files, processes, sessions and pages | file_create, file_edit, the terminal, start, stop, five browser tools | `PathSafety`, `FileTools`, `BrowserTools`, `TerminalTool`, composed in `ComputerTools` |
| Heuristic judges, agents, research, vision (`core/`, `agents/`, `research/`, `vision/`) | the screenshot file | execute of each agent | `Judges`, `Agents` |
| Evaluation (`evaluation/`) | results, report files | run_all_evaluation_async | `Evaluation` |
| Memory (`memory/`) | SQLite rows | store, retrieve, delete | `Memory` |
| Voice devices, privacy and streaming, drawing, providers, read-only tools, API, configuration | little or none | calls of libraries and services | not modelled (section 7) |

**How they interact.** The runtime calls the orchestrator under `wait_for`; the orchestrator routes plan steps to
agents, gives tool calls to tools, or hands the whole task to the problem-solving engine; engine, orchestrator and
master each ask the security manager before they act. Tools of several requests share one browser provider, which the
runtime starts and stops. The adapter drives the master's loop `dispatch_next -> dispatch_async -> accept_result`; the
HTTP endpoints call the same coordinator between any two of its steps. The voice assistant reads a microphone, calls a
brain (which may be the runtime's orchestrator) and plays audio, and can be interrupted or cancelled at each await; its
events and states drive the avatar through two signal maps. The engine records its outcome in the memory.

**What is hard.** In the master: results that come late, twice, or for an attempt that was given up; a sweep and an
answer racing for one assignment; cancelled tasks still in the deque; callers that share one coordinator. Between
master and worker: requests that arrive after their sender gave up, restarts of either side, a loop whose period is
longer than its interval. In the engine: a cancel request read only at some points, a timeout that overtakes the last
await, five branches that end an attempt. In the orchestrator: several tool calls in one turn, some unknown, denied or
failing. In the runtime: two startups, or a startup and a shutdown, that overlap at the browser's await; a timeout that
cancels `execute`. In voice: events cleared after they were set, cancel during synthesis, turns that share a history.
In the avatar: five controllers that one chain of `elif` starts and stops. In the tools: a target looked at long before
it is written, `stop` against new sessions, a command that hangs. In the memory: threads that a cancelled caller does
not stop. `PROJECT.json` lists each of these hazards at its line with the properties that cover it, or
with the reason why none does.

**What makes each part correct.** Master: every accepted task is in exactly one place, no attempt is answered twice,
the queue is FIFO, and each task follows the lifecycle it promises. Adapter: a call returns, and says "success" only of
its own task. Worker: one that reports in time is offered work. Engine: attempts are kept in order; completed only on a
verified (or deliberately unverified) result; no action after a cancel. Security: no approval outlives its expiry or
serves another request. Orchestrator: the model is never asked with a tool call unanswered. Runtime: what a start
opened, a stop can close; the answer tells what became of the task. Voice: a session that ended has completed its turns
and released its devices, and a model is shown whole exchanges. Avatar: nothing outlives what started it. Tools: no
file outside the roots changes. Memory: what was answered as written is there.

## 2. Plan, and where it stands

1. The master with its abstract lifecycle and proofs, and the adapter composed with it.
2. The problem-solving engine and the permission gate, each with proofs.
3. The voice assistant.
4. The orchestrator and its routing, and the runtime composed with it; proofs about the runtime's lifecycle.
5. The avatar's controller and its parts.
6. The voice conversation and the language detection below it.
7. The tools that change something: path safety, files, browser, terminal; the proof of confinement.
8. The judges, the agents and the evaluation.
9. The worker against its master over a network, and the memory; a proof of each.
10. Proofs of the safety properties of all components, for every instance.

All of these are done. What a continuation would take up: the orchestrator composed with the engine and the permission
gate instead of their outcomes, with refinements that carry their theorems over as `RuntimeRunsOrchestrator` does; the
avatar's face (expressions, eyes, timeline), which so far shows nothing that could go wrong over several calls.

The proofs of a component are in a module of their own; components of one theme whose modules share no names share one
proof module, so that a reader finds eight: `SequenceFilterProofs` (lemmas), `DistributedProofs` (master, adapter),
`ServicesProofs` (worker, memory, evaluation), `ProblemSolvingEngineProofs`, `SecurityProofs` (gate, tools),
`RuntimeProofs` (orchestrator, runtime), `VoiceAssistantProofs` and `CharacterProofs` (conversation, avatar).

One run answers one component's questions, safety and liveness together, so that the project stays at a dozen runs.

## 3. Modules and how they match the code

`PROJECT.json` "map" gives the lines of every definition; this section gives the idea.

### `SequenceFilter`, `SequenceFilterProofs`
`Keep(s, S)` is the sequence of the elements of `s` that are in `S`. A drain of the deque and the removal of an entry
of the assignment table are both filters, and the proofs need facts about filters, so it is defined by a rank function
and not with `SelectSeq` (which is recursive and which the provers cannot see through). `MCDistributedCoordinator`
checks that the two agree (`KeepIsSelectSeq`).

### `TaskLifecycle`
What the master promises of each task, without queue, workers or messages: unknown, queued, assigned (each time one
more try, at most `MaxRetries`), then completed, failed or cancelled for good. Only an assigned task may be completed.

### `DistributedCoordinator`
State: `status`, `attempts`, `lockedBy` are fields of the tasks; `queue`, `assignments`, `results` the coordinator's
containers; `registry`, `load` the workers; `calls` and `replies` what is outside: transport calls not yet returned and
results their callers hold. One action per method. What is abstracted:

- *Time.* `check_in_flight(now)` is `CheckInFlight(k, Late)`: the table is in order of assignment, so the overdue
  entries are a prefix of length `k`, and any set of workers may have missed heartbeats.
- *Delivery.* `replies` is a set that never shrinks, so a result can reach `accept_result` at any later time, again and
  in any order. Each result carries the assignment it answers, as both transports in the repository do.
- *Assignment ids* are pairs of task and attempt. `OneOutcomePerAttempt` shows that this is one id per assignment.
- *Security* is the set `Allowed` chosen afresh at each dispatch.
- Left out: `assignment_count`, events and logs (display only); the task's own `max_retries` field, which no code reads;
  a client-supplied `retry_count` (0 is assumed). A heartbeat may carry new capabilities; they are constant here.

### `DistributedAdapter`
Extends the master with callers of `submit_and_await_async`. `turn` is the caller that runs now: it gives up its turn
only in `sleep` and in the transport call, and the HTTP endpoints act only when no caller has the turn. The model keeps
what the code does with its arguments: the assignment returned by `dispatch_next` may be another task's, yet the
request carries the caller's own task. `runs` is a history variable: which task each worker ran, for which assignment.

The code keeps two objects apart: the caller's own task, which it releases and whose status it reports, and the one
registered under its id. The id of a `DistributedTask` is made with the object, and a caller hands its own object to
`submit`, so the two are one and the model has one status; accordingly `Endpoint` submits only tasks that are no
caller's (and cancels any), and `Decision` reads `status[t]`. Section 6 says what the code does for an id that is known
already.

### `DistributedWorker`
One worker process, its master's registry and the network between them, in ticks of a clock that both machines share.
`worker.stage` is where the worker is: down, idle, waiting for the answer to a registration, in the heartbeat loop
(due, sending, sleeping). A request is on its way (`posted`), then its answer is (`reply`); one that its sender gave up
on stays on the network (`stray`) and may be served later, also to a restarted master. The ages the code computes from
timestamps are kept directly and saturate one tick past the time limit. `mine` and `trusted` are histories: this
process's registration was accepted; since then a heartbeat was applied and no request was late or lost. The master's
remaining state (queue, assignments) is `DistributedCoordinator`'s; here a dispatch only asks whether the entry is
known and available, and what the endpoint it names answers, up to the checks of `handle_task`.

### `ProblemSolvingEngine`
One session (sessions share only dictionaries keyed by session id). `pc` is the provider call awaited; each action
starts with the return of that call and runs to the next await, composed from small operators: `SafePoint(A)` is a
cancel check followed by `A`, `Retry` is `_replan_or_fail` and the loop head, `Conclude` the three methods that set a
final status and then await the memory. `setup` holds which optional parts exist; it is chosen in `Init`, so one run
covers all combinations. `Cancel`, `TimeOut` (the expiry of `wait_for`) and `TaskCancelled` (the task running `solve`
is cancelled from outside, as the runtime's own timeout does) come at any await. `WriteEnds` is the thread in which
`SQLiteMemory` writes: a cancelled await does not stop it. Every outcome the code distinguishes is possible at every
provider call.

### `PermissionGate`
`SecurityManager` runs without an await, so an action is a call, and what interleaves is the calls of the program, those
of the operator who approves, and the clock. What the rules and the risk assessor say of a request is data (`profile`),
chosen in `Init` with the policy. `Check` is `check` with or without the id of an approved confirmation; `Resolve` is
`_get_resolvable` with the assignment that follows, including the late answer that only marks the confirmation as
expired. `log` and `approvals` are histories: every audit event, and what the operator approved when. The clock is the
wall clock of the code; it is assumed not to be set back.

### `AgentRouting`, `Orchestrator`
`AgentRouting` is `AgentRouter`: whether there is an agent for a step's requirements. An execution is one call of
`Orchestrator.execute`; `exec[e].at` is what it awaits: the engine, the planner, an agent, the model, a tool or the
placeholder's sleep. `setup` holds which of these exist, so the four paths are one module. The tool loop keeps the
calls of the turn, how many the model asked for and how many tool messages it was given; what the policy says of a
tool (unknown, denied, needing a confirmation, allowed) is chosen in `Init`. `Abort` is the cancellation of the
awaited call, which `except Exception` does not see: the task keeps its status. Executions share `lastPlan` and
`lastSteps`.

### `Runtime`
Extends the orchestrator with `startup`, `shutdown` and the three request handlers. Of the subsystems only the browser
is started with an await, so a startup is two steps, and two of them, or one and a shutdown, may overlap there.
`config.fragile` lets a part that is initialised later raise, which runs the cleanup. A request is an execution of the
orchestrator under `wait_for`: `Progress` is a step of it with the handler's continuation when it returns, `Timeout`
its cancellation. `orderly` is a history: startups and shutdowns came one at a time.

### `VoiceAssistant`
One session. `pc` is what `run()` awaits: a wake frame, a frame of the utterance, a provider of the turn, the start of
the playback, a frame or a sleep while it speaks. `stage` is how far `_stop_hardware` has come, separately for `run()`
and for `cancel()`, since both walk through the same devices with an await at each. `setup` says whether a wake word is
required and whether stopping a device may raise. Small operators are the code that several branches share: `Mark` is
`mark_state` (which ignores a cancelled session), `Leave` the `finally` clause of `run()`, `NextTurn` the head of its
loop, `Listen` the head of the playback loop, `SpeechEnds` the result of a turn that was spoken. A device changes when
its call returns. `asked` is a history variable: someone asked to interrupt the present playback. Turns are numbered by
their place; their texts, the classification as continuation, events and privacy buffers are left out.

### `LanguageDetection`, `VoiceConversation`
`LanguageDetection` is the local detector over counts: how many letters of each script and how many words of each
vocabulary a text has; shares are compared as fractions, without rounding. `NextStyle` is the rule that lets an unknown
text take the style of the last. `VoiceConversation` is three users of it: the service with its five awaits, the brain
that chats and the brain that gives a task to the orchestrator; one behaviour has one of them, with concurrent turns
that share the history. `shown` is the copy of the history that each turn gave its model.

### `AvatarParts`, `AvatarController`
`AvatarParts` has the small controllers (gestures with priorities and a queue, animation mode, lip-sync, movement) as
operators from a record to the next; `AvatarController` has the transition table, the signals, the calls of a host and
the frame. The controller is synchronous: an action is one call, `Pass` the clock. `Handle` keeps the order of the
`elif` chain, and `Apply` the map from the voice session's events to signals. Eyes, expressions, clock face, event log
and drawing are left out: each is a function of what is modelled, or only looks at it. `asked` is a history variable:
the state in which `walk_to` asked for the movement under way, so that `EndedIsStill` can tell a movement that survived
an interrupt from one that was asked for after it.

### `PathSafety`, `FileTools`, `BrowserTools`, `TerminalTool`, `ComputerTools`
A path is a base (root, current directory, home) and names; it resolves through `..` and links to names from the root,
as `Path.resolve` does, and `EnsureWithin` gives the resolved paths that lie under a root. Roots are resolved too; the
root of the checked instance is written with `..`. `FileTools` is create and edit (one synchronous step each),
`BrowserTools` the Playwright provider, whose three tables of sessions, pages and contexts are changed around awaits,
and the five tools with their URL policy and the three looks a download takes at its target; `TerminalTool` a child
process with its time limit. `ComputerTools` is their interleaving. The tools make neither directories nor links, so
these are constants; what a page holds is left out.

### `Judges`, `Agents`
`Judges` is the deterministic critic, predictor, problem solver and verifier as functions, with the validators of
their result types, and `MCServices` checks that whatever they return is valid (`JudgesAreSound`). `Agents` is
`execute` of each agent split at the await of its provider, the HTTP search provider's handling of an answer, and the
screen understanding service: a screenshot is taken, then the file is read and judged by size, while the file may
change at any moment. The bytes are read once, and what was judged is what is sent, without an await between; so no
stale read is possible there, and no run asks a question of the agents: they show what each call may return, failures
that escape included (section 6).

### `Evaluation`
`run_all_evaluation_async`: the runners in order, of whose fixtures the first may be answered wrongly or with an
exception, the reliability tests that break the environment one after the other, the summary, and the two report
files, each of which a killed process leaves absent, old or torn. The word error rate is the table of `metrics.py`, as
a recursive function.

### `Memory`
`SQLiteMemory`. A call hands its statement to a thread and awaits it; cancelling the caller does not stop the thread, a
killed process does. The table survives. A time is kept as SQLite sees it, the text of a UTC timestamp whose fraction is
left out when it is zero, so that the order of `ORDER BY` is the order of texts and not of times. `Sorted` is a set of
rows in that order, each at the place that the number of rows before it gives. `before` is a history:
which requests had ended when a request was made.

### `MCServices`
Agents, evaluation, worker and memory share nothing, so one model checks them all: `program` says which of the four a
behaviour is of, and the variables of the other three stay as they were.

## 4. Runs

| run | what it asks and shows | instance |
|---|---|---|
| `coordinator` | no task is lost or held twice (`TaskInOnePlace`), entries are the latest attempt (`AssignmentIsCurrent`), no attempt is answered twice (`OneOutcomePerAttempt`), the stored result is the outcome of the latest attempt (`ResultMatchesStatus`), the queue is FIFO (`QueueOrderStable`), `TaskLifecycle` is implemented (`ImplementsLifecycle`), every task is decided (`EventuallyDecided`) | 2 tasks, 2 workers (one may not run `t2`), 2 attempts |
| `adapter` | success is of one's own task (`SuccessIsReal`), a task submitted alone is told its status (`ReturnsTheDecision`), calls return (`CallerReturns`) | 2 callers, 1 worker, 2 attempts, 2 polls, and a task of an endpoint that no worker is capable of |
| `adapter_runs` | *violated*: `RunsBounded`, see section 6 | the same with 1 attempt, and a worker capable of all three tasks |
| `engine` | `AttemptsInOrder`, `CompletedIsVerified`, `NoActionAfterCancel`, and the memory's record is the outcome (`RecordIsOutcome`) | 3 iterations, plans of 1-2 steps, 0-2 questions, solved once |
| `voice` | `TurnsAreCompleted`, `ReleasedAtEnd`, `StoppedStays`, `InterruptKept` | 2 turns |
| `permission_gate` | `ApprovedInTime`, `FailsClosed`, `ConfirmationsAreAudited` | 2 requests, 4 policies, an audit store of 2, a log of 3, a clock of 0-3 with a lifetime of 2 |
| `orchestrator` | no tool call of a model's turn is left without its message (`CallsAreAnswered`) | 2 executions, 2 tools, 2 turns of up to 2 calls, plans of up to 2 steps, 2 agents, all four paths with and without a security manager |
| `runtime` | `BrowserIsHeld`, `ShutdownSticks`, `AnswerMatchesStatus` | 2 startups, 2 shutdowns, 1 request of each of four kinds, every configuration |
| `avatar` | `PoseOnlyWhileThinking`, `EndedIsStill`, `MouthFollowsSpeech` | gestures of 1-2 ticks, speeches of 0 and 1 tick, a path of 2, 2 gestures waiting |
| `conversation` | `ModelSeesExchanges`, `HistoryIsAnswered`, `AnsweredInLanguage` | 3 turns (interchangeable: symmetry), 4 texts, histories of 3, of 4 and without a bound |
| `tools` | the provider's tables agree (`SessionsMatchPages`), no file outside the roots changes (`ConfinedToRoots`), a hanging command is answered (`CommandEnds`) | 2 browser calls, 2 sessions, 1 command, 10 paths to 3 files through links, `..` and `~`; a root that is itself written with `..` |
| `services` | `DistanceIsLeast`, `FailuresAreCounted`, `ReportsInStep`; `LiveWorkerIsOffered`; `AnsweredWritesLast`, `NewestAreRead` | 1 agent call, images of up to one unit beyond twice the limit; transcripts of up to 3 of 2 words, 2 runs; 1 worker id, 2 endpoints, 2 starts, interval 2, time limit 4, latency 1, patience 2; 2 memory requests, 5 records, 2 starts |

The type invariants of the modules (`TypeOK`, `OrchTypeOK`, `BrowserTypeOK`) describe their state; they hold on these
instances, and the proofs state those of their modules for every instance. On every run TLC also evaluates the
assumptions: of the constants (`CoordinatorAssumption`, `WorkerAssumption`, ...), and the facts about pure functions
`KeepIsSelectSeq` (filters), `DetectionsAreCoherent` (the language detector over all texts of up to four letters and
words: its result passes its own validators) and `JudgesAreSound` (the judges).

**Why these bounds suffice.** A violation of a master property needs a task, a rival for its queue position or its
result, and one retry: two tasks, two attempts. That order in the deque survives skips of any number of tasks is proved
(`QueueIsFifo`). In the adapter's run the third task waits in the deque until it is cancelled, so that polls drain around it;
that such a task may also be dispatched by a caller is in `adapter_runs`. Two workers are needed for a task to be sent
elsewhere while the first worker still holds it. Three iterations of the engine give a first, a middle and a last one;
two steps and two questions a step that is not the last. Two voice turns are an ordinary one and one that follows a
barge-in. In the gate, two requests are needed to confuse their approvals, more events than the store keeps to lose
one, and a clock that reaches 3 gives a confirmation that is opened, approved in its last moment and used too late. In
a turn of two tool calls one may be blocked and the other run, in either order. Two startups and two shutdowns overlap
in every way two coroutines can. Three turns put one turn's answer between another's question and answer and still drop
the oldest under an odd bound. Two gestures that wait behind another give the queue an order. Two browser calls race
for one session while `stop` forgets it. The worker's constants are the tightest the assumption allows (interval + 2 *
latency = time limit), so one tick more anywhere shows. Two memory requests are a write and the one that overtakes it,
over a table that earlier processes left; the records have equal and different ids, times with and without a fraction
and one from another zone. Every property has a mutant in `PROJECT.json`, a small change of a modelled definition that
TLC must catch under the same bounds.

**Deadlock** is checked for the master, the adapter, the voice session (whose other coroutines can always interrupt)
and the gate. It is off for the avatar, whose clock never stops, so that there is nothing to find, and where the
system really stops once the calls of the instance are over: engine, orchestrator, runtime, conversation, tools,
services.

**Fairness.** Master (`FairSpec`): the loop that calls `dispatch_next` keeps running, a transport call returns (HTTP
clients have timeouts; the model lets them return with anything), and a result that was returned is handed to
`accept_result`, which is the next line of the loop. `EventuallyDecided` also assumes that workers stay available from
some time on. Adapter (`FairAdapterSpec`): weak fairness of each caller, i.e. sleeps end, calls return and the event
loop runs what is ready. Terminal (`TerminalFairness`): the start of a process returns, a time limit expires, a killed
process ends, and the call whose process has ended goes on; a command is not assumed to end by itself. Nothing is
assumed of cancels, callers, other processes or the network. The other runs have no liveness property: their calls
end when their providers do, and no code bounds that except by the time limits that are modelled as possible steps.

## 5. What is proved

By TLAPS, for all values of the constants that meet the module's assumption (finite limits; nothing is assumed of the
number of tasks, workers, requests, calls, turns or paths). **Every safety invariant and every safety action property
of the runs has a theorem, and so has the refinement.** Each proof has the same shape: an inductive invariant, one
lemma per action or family of actions, and a temporal step. `PROJECT.json` "theorems" says what each theorem
establishes.

- `DistributedProofs`
  - The master: `TypeCorrect`, `NoTaskLost`, `AssignmentsAreCurrent`, `AttemptsAreSentOnce`, `ResultsMatch`
    (invariants); `TerminalStays`, `QueueIsFifo` (action properties); `CoordinatorImplementsLifecycle` (the refinement
    with `phase <- status`, `tries <- attempts`). The inductive invariant `IInv` adds `CallsArePast`: no open call and
    no reply belongs to an attempt the task has not reached. Without it a step of `DispatchOne` could create an
    assignment that an old reply already answers. For the two actions that rebuild the deque (drain and sweep) the
    lemmas about filters (`SequenceFilterProofs`) say what remains and in which order.
  - The adapter: `SharedCoordinatorTypeCorrect`, `SuccessesAreReal`, `DecisionsAreReturned`. With callers that release
    one another's assignments a task may be queued and assigned at once, so `IInv` is *not* invariant there.
    `AdapterInv` rests on less: `SuccessInv` (a completed task has a successful run of its own, and so has an answer
    that says ok) and `DecisionInv` (what a caller was told, nothing but another task's release takes back).

- `ServicesProofs`
  - The worker: `LiveWorkersStay`. The invariant bounds the age of the worker's entry by the stage of the loop
    (`AgeIsBounded`): an answer on its way is at most `Latency` old; then the sleep adds at most `Interval`, the next
    request at most `Latency`. `Interval + 2 * Latency <= Timeout` is the assumption that makes this enough, and the
    only place where it is used. `EntryIsOurs` is needed for it: once accepted, a registration keeps its endpoint
    whatever stray requests of this or another process the master serves, and can only disappear with the master.
  - The memory: `AnswersAreDurable` (a finished write is in the table until another request writes the same record; a
    request is answered only after its thread ended; one that had ended before a request was made cannot have run after
    it) and `NewestAreReturned`. The latter needs that the order of the *texts* of UTC timestamps, with the fraction
    left out when it is zero, is that of the instants (`TextOrder`), that `ORDER BY` is total on rows of different ids
    (`ReadOrderIsTotal`), and that ranks increase along it (`RanksIncrease`, `SortedIs`).
  - The evaluation: `ReportsStayInStep` (`ReportInv` orders the markdown report before the JSON report of its run, and
    both before the next run), `NoFailureIsLost` (`FailureInv`: the failures of the runners a run is past are among its
    results; each metric has a runner that shows it) and `ErrorRateIsLeast`, the most laborious result: the entry the
    dynamic program of `compute_wer` fills last is the edit distance. The table is filled by induction over its
    diagonals, neighbouring entries differ by at most one (`NeighboursAreNear`), so an edit anywhere in the hypothesis
    changes the last entry by at most one (`EditCostsOne`): no chain of edits is shorter. Conversely each text at a
    distance is one edit from one that is nearer and not longer than both (`SomeTextIsNearer`): one chain is that
    short. Induction over numbers is `CountUp`: a set that has 0 and with each number the next contains them all, which
    follows from the least element of its complement.

- `ProblemSolvingEngineProofs`: `EngineTypeCorrect`, `CompletionIsVerified`, `CancelPreventsAction`,
  `CancelPreventsCompletion`, and for a session that is solved once `AttemptsKeptInOrder` and `RecordTellsOutcome`.
  Three strengthenings carry them: `CancelInv` (while the session observes or verifies, no request accepted before the
  observation is pending, and a completed session has left the loop), `OrderInv` (a session that has not been solved
  has no attempts, and the first call of `solve` is the only one) and `RecordInv` (nothing is written before the loop
  is left, and what is written is the status the session ended with; with a timeout this is false, see section 6).

- `SecurityProofs`
  - The gate: `GateTypeCorrect`, `GatedMeansApproved`, `PolicyFailsClosed`, `ConfirmationsHaveChecks` and
    `ResolutionIsFinal`. The invariant adds `ApprovalsAreRecorded`: an approved confirmation has an approval that was
    given before its expiry. Without it a re-check could be allowed by a status that no operator gave.
  - The tools: `NothingOutsideIsTouched`. Nothing is assumed of how paths resolve; the invariant says that a target
    which was accepted is not outside, and that a download keeps the target it was accepted with across its awaits.
  - `TablesAgree` (and `BrowserTypeCorrect`): a call that creates a session names one it may name, so that the two
    tables change together between two awaits, also when `stop` empties them while a session is being created.

- `RuntimeProofs`
  - `BrowserStaysHeld`, `ShutdownIsLast`. `StartsAlone` is the strengthening: in an orderly use there is one startup at
    a time and none after a shutdown began, and no browser runs before that startup's own. Requests drop out of the
    argument because their steps leave the lifecycle alone.
  - `EveryCallIsAnswered` is about the orchestrator: the tool messages lag the calls asked for by those still to do
    (`CallsInv`). That a runtime's requests run the orchestrator is itself a refinement (`RuntimeRunsOrchestrator`),
    which carries `OrchInv` over to `AnswersAreTrue` (`RequestInv`: where the execution of a request is, given where
    its handler is) and `RuntimeTypeCorrect`.

- `VoiceAssistantProofs`: `AssistantTypeCorrect`, `EveryTurnIsCompleted`, `DevicesAreReleased`, `StoppedForGood`,
  `InterruptIsKept`. `run()` and `cancel()` walk through the devices at once, so `StageInv` says what each stage of
  `_stop_hardware` has behind it, `StopInv` that only a cancel or an exception on its way out marks the session
  stopped, and `TurnInv` that an exception in flight leaves `run()` with at most the last turn open.

- `CharacterProofs`
  - The conversation: `ConversationTypeCorrect`, `ExchangesStayWhole`, `AnswersAreRemembered`, `LanguageWasSpoken`. In
    `HistoryInv` only a turn that has answered is in the history, whose messages are paired also after the oldest were
    cut off; the number of answers then gives its length. In `StyleInv` a latest style has a turn whose text is
    evidence for it. `DetectionIsCoherent` is about the detector alone: whatever the counts of a text, its result
    passes its own validators.
  - The avatar: `PoseEndsWithThinking`, `InterruptEndsAll`, `MouthIsGivenBack`. The strengthening `PoseInv` is that the
    looping pose never waits in the queue: it starts only when nothing else runs, so no end of a gesture can bring it
    back after the thinking is over.

The theorems `TypeCorrect`, `TerminalStays`, `SharedCoordinatorTypeCorrect`, `EngineTypeCorrect`,
`CancelPreventsCompletion`, `GateTypeCorrect`, `ResolutionIsFinal`, `BrowserTypeCorrect`, `RuntimeTypeCorrect`,
`RuntimeRunsOrchestrator`, `AssistantTypeCorrect`, `ConversationTypeCorrect` and `DetectionIsCoherent` state properties
that no run checks, since their proofs say it for every instance. What TLC adds to the theorems is that the actions do
happen: every disjunct fires, and every property is broken by a plausible change of the code.

*Only model-checked:* liveness (`EventuallyDecided`, `CallerReturns`, `CommandEnds`) and deadlock freedom, which are
out of the prover's reach, and the assumptions `KeepIsSelectSeq` and `JudgesAreSound`: the first compares with a
recursive operator, the second is about judges of a few cases each, which TLC enumerates.

## 6. Where code and documentation disagree

With a run: `adapter_runs`. A caller sends its own task under an assignment of another task, so a task can run more
often than `max_retries` (`src/docs/DISTRIBUTED.md:72`).

Without one, from reading the code and from the model, which does what the code does:

*Master and worker.*
- For an id that the coordinator knows under another object, `submit_and_await_async` goes on with its own copy
  (`distributed/adapter.py:141`): it answers failed though the task is completed (`:174`), and a release may put the
  copy in the deque beside the registered task (`distributed/coordinator.py:405`). Callers with new ids never meet this.
- The release of an unreachable assignment puts a task that was cancelled meanwhile back in the queue
  (`distributed/coordinator.py:395`, against `:165`).
- One failed heartbeat ends the worker's loop, and a loop whose master was restarted is answered 404 for ever and
  ignores it (`distributed/service.py:124`).
- A restarted worker of the same id is refused as a duplicate, yet its heartbeats are believed, at the old endpoint. A
  retried dispatch runs a task twice on a worker that was only slow.
- The loop's period is its interval and the delay of the answer, and the HTTP client waits longer than the time limit
  leaves; the configuration does not check `Interval + 2 * Latency <= Timeout`.
- `last_heartbeat` of a new entry is the time at which the worker built its `WorkerInfo`, not that of the registration
  (`distributed/registry.py:46`).

*Engine.*
- A cancel accepted while a session observes or verifies has no effect (`solver/engine.py:375`, against `:232`).
- A blank observation makes `solve` raise (`solver/engine.py:997`, against `:14`).
- Each further `solve` of an ended session adds an attempt beyond the budget (`solver/engine.py:260`, against `:10`).
- A timeout that expires while the record of a completed session is being written leaves a record that says completed
  of a session that is timed out; `RecordIsOutcome` is therefore stated for engines without a timeout.

*Runtime and orchestrator.*
- The second shutdown of a restarted runtime does nothing (`runtime/runtime.py:212`, against
  `src/docs/INTEGRATION.md:92`).
- Two startups that overlap each start a browser, and the first is lost. A request that times out leaves its task
  running for ever. `handle_task` answers ok whatever became of the task.
- Two plans carried out at once can leave a last plan and last results of different tasks.

*Voice.*
- A session that is cancelled while the answer is made starts its playback after `cancel()` has returned
  (`voice/assistant.py:789`, against `:295`).
- A microphone that fails during a playback leaves its turn without a result (`voice/assistant.py:813`, against `:119`).
- What the wake word detector, the VAD, `output.play` and `capture.start` raise (unless it is an error of capture or
  output) leaves `run()`; a device that cannot be stopped keeps the others from being released; an `interrupt()` during
  the synthesis is forgotten when the playback starts; a cancel during the playback ends the turn as interrupted.

*Avatar.*
- `walk_to` "requires the WALKING state" (`avatar/controller.py:361`), but looks at no state: a character that is
  interrupted, speaks or sits in any other state moves all the same. `EndedIsStill` therefore admits, after an
  interrupt, the movement of a later `walk_to` and no other.
- A timing of length zero, which only a caller's own timing can have, never ends (`avatar/lipsync.py:254`).

*Tools.*
- A download overwrites a file that appeared at its target since it looked (`browser/tools.py:375`).
- A download that turns out larger than `write_max_bytes` stays on the disk (`browser/tools.py:388`, against
  `tools/file_config.py:15`). A command whose request was cancelled is left running.

*Agents and evaluation.*
- The verification agent builds expectation and observation from the task's own description, so the fake verifier
  verifies any short task (`agents/verification.py:68`, against `:36`); it accepts any expected condition where its
  docstring says every (`core/verification.py:323`, against `:282`).
- Two requests are built outside the try that turns exceptions into failed results (`agents/vision.py`,
  `vision/screen_understanding.py`); one score out of range fails a whole research answer
  (`research/http_provider.py:141`); results are cut to the provider's maximum and not the request's.
- "Historical results are preserved" (`evaluation/reports.py:4`), but `latest.json` is overwritten; one reliability test
  passes because of a `TypeError` and not of the failure it provokes.

*Memory.* A store whose caller was cancelled may be written after a later delete of the same record was answered.
`AnsweredWritesLast` says exactly when.

Not a disagreement, but worth knowing: an approval serves every check of its request until it expires, and each check
without one opens a further confirmation, which is never removed; nothing in the application calls `check_in_flight`.

## 7. Not modelled

- *Read-only tools* (calculator, screenshot, system information, reading and searching files): no state.
- *Voice devices and detectors, privacy, events and streaming*: energy thresholds over frames, buffers of audio, calls
  of providers; what they may answer is what `VoiceAssistant` admits.
- *Providers, API, configuration, entry points*: formats and calls of libraries.
- *Fakes and scenarios* of the tests and of the evaluation, except the judges, which the application itself uses.
- Partly: *conversation turns* (numbers and completion, not classification), *risk assessment and redaction* (its
  outcome as data), the *orchestrator's registration* of agents and tools (before any task), the *avatar's face* and
  *rendering* (functions of the modelled state).

## 8. How to run

`tlc -workers 2 -config <cfg> <module>` for each run of `PROJECT.json`; `tlapm <Module>Proofs.tla` for the proofs.
