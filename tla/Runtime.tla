------------------------------ MODULE Runtime ------------------------------
(***************************************************************************)
(* MissMinutesRuntime: startup, shutdown and the three request handlers,   *)
(* composed with the orchestrator that startup builds.                     *)
(*                                                                         *)
(* Of the subsystems only the browser is started with an await, so a       *)
(* startup runs to that await in one step and from it to its end in        *)
(* another.  A request is an execution of the orchestrator (or a call of   *)
(* the voice service) under wait_for: when the awaited call ends, the      *)
(* handler goes on in the same step, and when the time is up the call is   *)
(* cancelled at its await.  Browser, voice service and model are external. *)
(***************************************************************************)
EXTENDS Orchestrator

CONSTANTS
  Startups,   \* calls of startup()
  Shutdowns,  \* calls of shutdown()
  Kinds,      \* kinds of requests: text, blank, task, voice
  Configs     \* configurations: which optional parts are enabled, and whether a
              \* part that is initialised after the browser may raise

VARIABLES
  config,
  ready,           \* _ready
  shutdownCalled,  \* _shutdown_called
  startup,         \* where each call of startup is
  shutdown,        \* where each call of shutdown is, and the browser it stops
  orchestrator,    \* the startup that built _orchestrator
  browserTools,    \* the startup whose browser _browser_tools holds
  registered,      \* startups whose orchestrator has the browser tools
  capable,         \* the capability "browser" in the registry
  open,            \* startups whose browser runs
  request,         \* the requests
  trail,           \* the audit entries of each request
  orderly          \* history: startups and shutdowns came one at a time

lifecycle == <<config, ready, shutdownCalled, startup, shutdown, orchestrator,
               browserTools, registered, capable, open, orderly>>
requests == <<request, trail>>
vars == <<orchVars, lifecycle, requests>>

Requests == Executions
None == "none"
Held == Startups \cup {None}
Stages == {"accepted", "not_ready", "voice_disabled", "planning_started",
           "task_created", "verification_completed", "response_generated",
           "voice_received", "voice_completed", "timeout", "error"}
Answers == {None, "ok", "fail", "refused", "timeout", "error"}

TypeOK ==
  /\ OrchTypeOK
  /\ orchestrator \in Held /\ browserTools \in Held
  /\ registered \subseteq Startups /\ open \subseteq Startups
  /\ \A r \in Requests : request[r].answer \in Answers /\ trail[r] \in Seq(Stages)

Init ==
  /\ OrchInit
  /\ config \in Configs
  /\ ready = FALSE /\ shutdownCalled = FALSE /\ capable = FALSE /\ orderly = TRUE
  /\ startup = [s \in Startups |-> None]
  /\ shutdown = [d \in Shutdowns |-> [at |-> None, target |-> None]]
  /\ orchestrator = None /\ browserTools = None
  /\ registered = {} /\ open = {}
  /\ request \in [Requests -> [kind : Kinds, at : {None}, answer : {None}]]
  /\ trail = [r \in Requests |-> <<>>]

-----------------------------------------------------------------------------
Starting == {s \in Startups : startup[s] \in {"browser", "cleanup"}}
Stopping == {d \in Shutdowns : shutdown[d].at = "browser"}

(* The documented use is one startup, which may be tried again when it has *)
(* raised and cleaned up, and then one shutdown.                           *)
NoteStartup ==
  orderly' = (orderly /\ Starting = {} /\ Stopping = {} /\ ~shutdownCalled /\ open = {})
NoteShutdown == orderly' = (orderly /\ Starting = {} /\ Stopping = {})

(* From the end of _initialize_tools on.  When a part raises, the cleanup  *)
(* stops the browser, if the runtime holds one.                            *)
FinishStartup(s, held) ==
  \/ startup' = [startup EXCEPT ![s] = "returned"] /\ ready' = TRUE
  \/ /\ config.fragile
     /\ startup' = [startup EXCEPT ![s] = IF held = None THEN "raised" ELSE "cleanup"]
     /\ UNCHANGED ready

(* Everything up to the start of the browser: a new orchestrator, its      *)
(* agents and its other tools.                                             *)
Startup(s) ==
  /\ startup[s] = None
  /\ \/ /\ ready
        /\ startup' = [startup EXCEPT ![s] = "returned"]
        /\ UNCHANGED <<ready, orchestrator, capable, orderly>>
     \/ /\ ~ready
        /\ NoteStartup
        /\ orchestrator' = s
        /\ \/ config.browser /\ startup' = [startup EXCEPT ![s] = "browser"]
              /\ UNCHANGED <<ready, capable>>
           \/ ~config.browser /\ capable' = FALSE /\ FinishStartup(s, browserTools)
  /\ UNCHANGED <<config, shutdownCalled, shutdown, browserTools, registered, open>>
  /\ UNCHANGED <<orchVars, requests>>

(* Mutant: the bundle is not kept for the shutdown.                        *)
BrowserStartsUnheld(s) ==
  /\ startup[s] = "browser"
  /\ open' = open \cup {s}
  /\ UNCHANGED browserTools
  /\ registered' = registered \cup {s}
  /\ capable' = TRUE
  /\ FinishStartup(s, s)
  /\ UNCHANGED <<config, shutdownCalled, shutdown, orchestrator, orderly>>
  /\ UNCHANGED <<orchVars, requests>>

(* bundle.start() returned: the tools go to the orchestrator that was      *)
(* built before the await, whatever _orchestrator is by now.               *)
BrowserStarts(s) ==
  /\ startup[s] = "browser"
  /\ open' = open \cup {s}
  /\ browserTools' = s
  /\ registered' = registered \cup {s}
  /\ capable' = TRUE
  /\ FinishStartup(s, s)
  /\ UNCHANGED <<config, shutdownCalled, shutdown, orchestrator, orderly>>
  /\ UNCHANGED <<orchVars, requests>>

BrowserFails(s) ==
  /\ startup[s] = "browser"
  /\ capable' = FALSE
  /\ FinishStartup(s, browserTools)
  /\ UNCHANGED <<config, shutdownCalled, shutdown, orchestrator, browserTools,
                 registered, open, orderly>>
  /\ UNCHANGED <<orchVars, requests>>

(* _cleanup_on_failure: an error of stop() is swallowed.                   *)
CleanupEnds(s) ==
  /\ startup[s] = "cleanup"
  /\ startup' = [startup EXCEPT ![s] = "raised"]
  /\ open' \in {open \ {browserTools}, open}
  /\ UNCHANGED <<config, ready, shutdownCalled, shutdown, orchestrator, browserTools,
                 registered, capable, orderly>>
  /\ UNCHANGED <<orchVars, requests>>

Shutdown(d) ==
  /\ shutdown[d].at = None
  /\ \/ /\ shutdownCalled
        /\ shutdown' = [shutdown EXCEPT ![d].at = "ignored"]
        /\ UNCHANGED <<ready, shutdownCalled, orderly>>
     \/ /\ ~shutdownCalled
        /\ NoteShutdown
        /\ shutdownCalled' = TRUE
        /\ \/ /\ browserTools = None
              /\ ready' = FALSE
              /\ shutdown' = [shutdown EXCEPT ![d].at = "returned"]
           \/ /\ browserTools # None
              /\ shutdown' = [shutdown EXCEPT ![d] = [at |-> "browser",
                                                      target |-> browserTools]]
              /\ UNCHANGED ready
  /\ UNCHANGED <<config, startup, orchestrator, browserTools, registered, capable, open>>
  /\ UNCHANGED <<orchVars, requests>>

(* Mutant: the flag is cleared in the try and not in the finally.          *)
ShutdownEndsReady(d) ==
  /\ shutdown[d].at = "browser"
  /\ open' \in {open \ {shutdown[d].target}, open}
  /\ UNCHANGED ready
  /\ shutdown' = [shutdown EXCEPT ![d].at = "returned"]
  /\ UNCHANGED <<config, shutdownCalled, startup, orchestrator, browserTools,
                 registered, capable, orderly>>
  /\ UNCHANGED <<orchVars, requests>>

(* stop() returned, or raised and left the browser open.                   *)
ShutdownEnds(d) ==
  /\ shutdown[d].at = "browser"
  /\ open' \in {open \ {shutdown[d].target}, open}
  /\ ready' = FALSE
  /\ shutdown' = [shutdown EXCEPT ![d].at = "returned"]
  /\ UNCHANGED <<config, shutdownCalled, startup, orchestrator, browserTools,
                 registered, capable, orderly>>
  /\ UNCHANGED <<orchVars, requests>>

-----------------------------------------------------------------------------
Note(r, stages) == trail' = [trail EXCEPT ![r] = @ \o stages]

Answered(r, answer, stages) ==
  /\ request' = [request EXCEPT ![r].at = "answered", ![r].answer = answer]
  /\ Note(r, stages)

(* wait_for(orchestrator.execute(task)).                                   *)
Submit(r, stages) ==
  /\ Execute(r)
  /\ request' = [request EXCEPT ![r].at = "exec"]
  /\ Note(r, stages)

(* handle_text refuses blank text before anything is recorded.             *)
HandleText(r) ==
  /\ request[r].at = None /\ request[r].kind \in {"text", "blank"}
  /\ \/ request[r].kind = "blank" /\ Answered(r, "refused", <<>>) /\ UNCHANGED orchVars
     \/ /\ request[r].kind = "text" /\ ~ready
        /\ Answered(r, "refused", <<"accepted", "not_ready">>) /\ UNCHANGED orchVars
     \/ /\ request[r].kind = "text" /\ ready
        /\ Submit(r, <<"accepted", "planning_started", "task_created">>)
  /\ UNCHANGED lifecycle

(* handle_task asks for an orchestrator and not for ready.                 *)
HandleTask(r) ==
  /\ request[r].at = None /\ request[r].kind = "task"
  /\ \/ orchestrator = None /\ Answered(r, "refused", <<"accepted">>) /\ UNCHANGED orchVars
     \/ orchestrator # None /\ Submit(r, <<"accepted">>)
  /\ UNCHANGED lifecycle

HandleVoice(r) ==
  /\ request[r].at = None /\ request[r].kind = "voice"
  /\ \/ ~ready /\ Answered(r, "refused", <<"accepted", "not_ready">>)
     \/ /\ ready /\ ~config.voice
        /\ Answered(r, "refused", <<"accepted", "voice_disabled">>)
     \/ /\ ready /\ config.voice
        /\ request' = [request EXCEPT ![r].at = "voice"]
        /\ Note(r, <<"accepted", "voice_received">>)
  /\ UNCHANGED <<orchVars, lifecycle>>

(* Mutant: a failed text request is answered like a task.                  *)
AfterExecuteOk(r, result) ==
  \/ /\ request[r].kind = "text"
     /\ Answered(r, "ok", <<"verification_completed", "response_generated">>)
  \/ request[r].kind = "task" /\ Answered(r, "ok", <<"response_generated">>)

(* The handler after execute has returned result.  handle_task answers ok  *)
(* whatever result.success says.                                           *)
AfterExecute(r, result) ==
  \/ /\ request[r].kind = "text"
     /\ Answered(r, result, <<"verification_completed", "response_generated">>)
  \/ request[r].kind = "task" /\ Answered(r, "ok", <<"response_generated">>)

Progress(r) ==
  /\ request[r].at = "exec"
  /\ CallReturns(r)
  /\ \/ exec'[r].at # "returned" /\ UNCHANGED requests
     \/ exec'[r].at = "returned" /\ AfterExecute(r, exec'[r].answer)
  /\ UNCHANGED lifecycle

VoiceReturns(r) ==
  /\ request[r].at = "voice"
  /\ \/ \E answer \in {"ok", "fail"} : Answered(r, answer, <<"voice_completed">>)
     \/ Answered(r, "error", <<"error">>)
  /\ UNCHANGED <<orchVars, lifecycle>>

Timeout(r) ==
  /\ \/ request[r].at = "exec" /\ Abort(r)
     \/ request[r].at = "voice" /\ UNCHANGED orchVars
  /\ Answered(r, "timeout", <<"timeout">>)
  /\ UNCHANGED lifecycle

Next ==
  \/ \E s \in Startups : Startup(s) \/ BrowserStarts(s) \/ BrowserFails(s) \/ CleanupEnds(s)
  \/ \E d \in Shutdowns : Shutdown(d) \/ ShutdownEnds(d)
  \/ \E r \in Requests : HandleText(r) \/ HandleTask(r) \/ HandleVoice(r)
                         \/ Progress(r) \/ VoiceReturns(r) \/ Timeout(r)

Spec == Init /\ [][Next]_vars

-----------------------------------------------------------------------------
(* A browser that runs is the one the runtime can stop, or its start       *)
(* failed to be cleaned up: no startup hides the browser of another.       *)
BrowserIsHeld == orderly => open \subseteq {browserTools}

(* Once an orderly shutdown has returned the runtime stays not ready until *)
(* someone calls startup again.                                            *)
ShutdownSticks ==
  (orderly /\ \E d \in Shutdowns : shutdown[d].at = "returned") => ~ready

(* The caller of handle_text is told what became of the task: ok of a      *)
(* completed one, fail of a failed one, and a task that timed out is left  *)
(* as it was, running for ever.                                            *)
AnswerMatchesStatus ==
  \A r \in Requests :
    request[r].at = "answered" /\ request[r].kind = "text" =>
      status[r] = CASE request[r].answer = "ok"      -> "COMPLETED"
                    [] request[r].answer = "fail"    -> "FAILED"
                    [] request[r].answer = "timeout" -> "RUNNING"
                    [] OTHER                         -> "PENDING"
=============================================================================
