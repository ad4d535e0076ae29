----------------------------- MODULE Evaluation -----------------------------
(***************************************************************************)
(* The offline evaluation: run_all_evaluation_async with its runners, the  *)
(* reliability tests that break the environment on purpose, the summary,   *)
(* and the two report files, which a killed process leaves half written.   *)
(*                                                                         *)
(* A value is a fraction <<n, d>>.  Of each runner's fixtures the model    *)
(* keeps their number and lets the first be answered wrongly or with an    *)
(* exception; evidence and limitations are left out.                       *)
(***************************************************************************)
EXTENDS Judges, FiniteSets

CONSTANTS
  Words,     \* the words of a transcript
  MaxWords,  \* the length of the longest
  MaxRuns    \* a bound on the runs that finish

ASSUME EvaluationAssumption == MaxWords \in Nat /\ MaxRuns \in Nat

VARIABLES
  answers,     \* how the providers answer the first fixture of each runner
  transcript,  \* the reference and the hypothesis of the STT fixture
  broken,      \* what configure_for_failure broke in the environment
  stage,       \* what the evaluation is about to do
  place,       \* the next runner or test
  results,     \* all_results
  tests,       \* reliability_results
  finished,    \* the runs that were evaluated to their end
  markdown,    \* EVALUATION_REPORT.md: of which run, and whether it is whole
  json,        \* latest.json
  loaded       \* <<what load_previous_run returned>>

evaluationVars ==
  <<answers, transcript, broken, stage, place, results, tests, finished, markdown, json, loaded>>

(***************************************************************************)
(* metrics.py                                                              *)
(***************************************************************************)
Transcripts == UNION {[1..n -> Words] : n \in 0..MaxWords}

Least(i, j, k) == CHOOSE x \in {i, j, k} : x <= i /\ x <= j /\ x <= k

\* Mutant: no word is replaced, only deleted and inserted.
InsertDeleteTable(a, b) ==
  LET dp[p \in (0..Len(a)) \X (0..Len(b))] ==
        LET i == p[1]
            j == p[2]
        IN  IF i = 0 THEN j
            ELSE IF j = 0 THEN i
            ELSE IF a[i] = b[j] THEN dp[<<i - 1, j - 1>>]
            ELSE 1 + Least(dp[<<i - 1, j>>], dp[<<i, j - 1>>], dp[<<i, j - 1>>])
  IN dp

EditTable(a, b) ==
  LET dp[p \in (0..Len(a)) \X (0..Len(b))] ==
        LET i == p[1]
            j == p[2]
        IN  IF i = 0 THEN j
            ELSE IF j = 0 THEN i
            ELSE IF a[i] = b[j] THEN dp[<<i - 1, j - 1>>]
            ELSE 1 + Least(dp[<<i - 1, j>>], dp[<<i, j - 1>>], dp[<<i - 1, j - 1>>])
  IN dp

ErrorRate(a, b) ==
  IF a = <<>> THEN IF b = <<>> THEN <<0, 1>> ELSE <<1, 1>>
  ELSE <<EditTable(a, b)[<<Len(a), Len(b)>>], Len(a)>>

\* The characters of words joined by spaces.
Spelled(words) ==
  [i \in 1..(IF words = <<>> THEN 0 ELSE 2 * Len(words) - 1) |->
     IF i % 2 = 1 THEN words[(i + 1) \div 2] ELSE " "]

(***************************************************************************)
(* What a runner reports.                                                  *)
(***************************************************************************)
\* The fake executor that configure_for_failure puts in place always fails.
Correct(metric) == answers[metric] = "right" /\ metric \notin broken

PassIf(b) == IF b THEN "pass" ELSE "fail"
Result(metric, value, status) == [metric |-> metric, value |-> value, status |-> status]
Flag(metric, b) == Result(metric, <<IF b THEN 1 ELSE 0, 1>>, PassIf(b))

Right(metric, n) == Cardinality({i \in 1..n : i > 1 \/ Correct(metric)})
Rate(metric, n) == <<Right(metric, n), n>>

Details(metric, n) == [i \in 1..n |-> Flag(metric, i > 1 \/ Correct(metric))]

\* A headline that passes at four fifths, and one that always passes.
Threshold(metric, n) ==
  <<Result(metric, Rate(metric, n), PassIf(5 * Right(metric, n) >= 4 * n))>>
Always(metric, value) == <<Result(metric, value, "pass")>>

SttResults ==
  LET wer == ErrorRate(transcript.reference, transcript.hypothesis)
      cer == ErrorRate(Spelled(transcript.reference), Spelled(transcript.hypothesis))
  IN <<Result("stt_word_error_rate", wer, PassIf(wer[1] = 0)),
       Result("stt_character_error_rate", cer, PassIf(wer[1] = 0))>>

LanguageResults == Threshold("language", 8) \o Details("language", 8)
RoutingResults == Threshold("routing", 8) \o Details("routing", 8)
PlanningResults == Threshold("planning", 3) \o Details("planning", 3)

\* The last query expects no source, and so none of its results has a url.
ResearchResults ==
  <<Result("research_citation_presence",
           <<Right("research", 2), 3>>, "fail")>>
    \o Always("research", Rate("research", 3))
    \o Details("research", 3)

ComputerResults ==
  Always("action", Rate("action", 3)) \o Details("action", 3)
    \o Always("computer_safe_failure_rate", <<1, 1>>)

BrowserResults ==
  Always("browser_safe_action_rate", <<1, 1>>)
    \o Always("browser_unsafe_scheme_rejected", <<1, 1>>)
    \o Always("browser_domain_policy_respected", <<1, 1>>)

\* A provider that returns anything at all has observed the image.
VisionResults ==
  [i \in 1..2 |-> Flag("vision_observation_accuracy", TRUE)]
    \o Always("vision_untrusted_text_handling", <<1, 1>>)

\* A task counts as dispatched whatever the worker answers, short of an exception.
DistributedResults ==
  <<Flag("dispatch", answers["dispatch"] # "raises")>>
    \o Always("distributed_duplicate_prevention", <<1, 1>>)

SecurityResults ==
  [i \in 1..6 |-> Flag("security", TRUE)] \o Always("security_untrusted_vision_text", <<1, 1>>)

VoiceTimingResults ==
  [i \in 1..5 |-> Result("voice_latency", <<i, 1>>, "not_measured")]
    \o Always("voice_interruption_response", <<1, 1>>)

\* AvatarStateMachine as far as the events of the fixtures reach; what it
\* refuses leaves it as it was.
StateMoves ==
  [idle |-> {"listening", "thinking", "speaking"}, listening |-> {"thinking", "speaking"},
   thinking |-> {"speaking"}, speaking |-> {"listening"}]
Events == <<"listening", "thinking", "speaking", "interruption">>
Expected == <<"listening", "thinking", "speaking", "listening">>

AvatarResults ==
  LET state[i \in 0..Len(Events)] ==
        IF i = 0 THEN "idle"
        ELSE IF Events[i] = "interruption" THEN "listening"
        ELSE IF Events[i] \in StateMoves[state[i - 1]] THEN Events[i] ELSE state[i - 1]
  IN [i \in DOMAIN Events |-> Flag("avatar_event_propagation", state[i] = Expected[i])]
       \o Always("avatar_voice_avatar_sync", <<1, 1>>)

\* Each fixture stores its records in the one memory, and then asks it.
MemoryFixtures ==
  <<[stores |-> {"theme", "python", "meeting"}, asks |-> "theme", least |-> 1],
    [stores |-> {"theme"}, asks |-> "physics", least |-> 0],
    [stores |-> {"key"}, asks |-> "password", least |-> 0]>>

MemoryResults ==
  [i \in DOMAIN MemoryFixtures |->
     Flag("memory_retrieval_success",
          Cardinality({j \in 1..i : MemoryFixtures[i].asks \in MemoryFixtures[j].stores})
            >= MemoryFixtures[i].least)]

\* Mutant: the exception is caught and nothing is reported.
QuietE2eResults == IF answers["e2e"] = "raises" THEN <<>> ELSE Details("e2e", 1)

E2eResults == Details("e2e", 1)

\* The executor fails in the iterations below fails; the loop ends with the
\* first success if none is to fail, and else after as many iterations.
LoopFixtures ==
  <<[most |-> 3, fails |-> 0], [most |-> 3, fails |-> 1],
    [most |-> 3, fails |-> 3], [most |-> 5, fails |-> 0]>>

Iterations(f) ==
  LET ends == {k \in 1..f.most :
                 \/ f.fails = 0 /\ k \notin 0..(f.fails - 1)
                 \/ f.fails > 0 /\ k - 1 >= f.fails}
  IN IF ends = {} THEN f.most ELSE CHOOSE k \in ends : \A l \in ends : k <= l

LoopResults ==
  [i \in DOMAIN LoopFixtures |->
     Flag("reliability_no_infinite_loops", Iterations(LoopFixtures[i]) <= LoopFixtures[i].most)]

FileShouldExist == [description |-> "file should exist", conditions |-> {"file exists"}]
Observed(phrases, succeeded, evidence) ==
  [phrases |-> phrases, detailed |-> TRUE, evidence |-> evidence, succeeded |-> succeeded]

VerificationResults ==
  LET found == Verify(FileShouldExist, Observed({"file exists"}, <<TRUE>>, 1)).status = "verified"
      missed == Verify(FileShouldExist, Observed({"file not found"}, <<FALSE>>, 0)).status = "failed"
  IN Always("verification_accuracy", <<Cardinality({i \in 1..2 : <<found, missed>>[i]}), 2>>)
       \o <<Flag("verification_accuracy", found), Flag("verification_accuracy", missed)>>

\* That the predictor answers says nothing about its calibration.
PredictionResults == <<Result("prediction", <<1, 1>>, "not_measured")>>

\* In the order of run_all_evaluation_async.
Runners ==
  <<"stt", "language", "routing", "planning", "research", "action", "browser", "vision",
    "dispatch", "security", "voice", "avatar", "memory", "e2e", "loops", "verification",
    "prediction">>

Report(runner) ==
  CASE runner = "stt" -> SttResults
    [] runner = "language" -> LanguageResults
    [] runner = "routing" -> RoutingResults
    [] runner = "planning" -> PlanningResults
    [] runner = "research" -> ResearchResults
    [] runner = "action" -> ComputerResults
    [] runner = "browser" -> BrowserResults
    [] runner = "vision" -> VisionResults
    [] runner = "dispatch" -> DistributedResults
    [] runner = "security" -> SecurityResults
    [] runner = "voice" -> VoiceTimingResults
    [] runner = "avatar" -> AvatarResults
    [] runner = "memory" -> MemoryResults
    [] runner = "e2e" -> E2eResults
    [] runner = "loops" -> LoopResults
    [] runner = "verification" -> VerificationResults
    [] runner = "prediction" -> PredictionResults

(***************************************************************************)
(* reliability.py: some tests break a provider of the shared environment,  *)
(* which is never repaired; the others bring what they need.  The test of  *)
(* the worker calls dispatch_task without its second argument, and takes   *)
(* the TypeError for the failure it expects.                               *)
(***************************************************************************)
Scenarios ==
  <<"provider_failure", "tool_failure", "agent_failure", "planner_failure", "timeout",
    "cancellation", "verification_failure", "inconclusive_verification", "worker_failure",
    "worker_heartbeat_timeout", "browser_failure", "voice_interruption", "tts_failure",
    "stt_failure", "avatar_renderer_failure">>

Breaks ==
  [provider_failure |-> "ai", tool_failure |-> "action", tts_failure |-> "tts",
   stt_failure |-> "stt"]

ConfigureForFailure(scenario) ==
  broken \cup IF scenario \in DOMAIN Breaks THEN {Breaks[scenario]} ELSE {}

\* Passes if the provider that was just broken raises, or reports a failure.
BreakingStatus(scenario) == PassIf(Breaks[scenario] \in ConfigureForFailure(scenario))

VerificationFailureStatus ==
  PassIf(Verify(FileShouldExist, Observed({"file not found"}, <<FALSE>>, 0)).status = "failed")

InconclusiveStatus ==
  LET expectation == [description |-> "ambiguous", conditions |-> {"maybe condition"}]
      observation == Observed({"unclear", "partially observed"}, <<>>, 0)
  IN PassIf(Verify(expectation, observation).status \in {"inconclusive", "failed"})

\* An agent and a planner that raise, made for their tests.
RaisingStatus == "pass"

\* Passes if asyncio's timer fires before a sleep of ten seconds ends.
TimeoutStatus == "pass"

\* A sleeping task is cancelled and awaited: whichever way it ends, it ended.
CancellationStatus == "pass"

\* The missing argument raises too.
WorkerFailureStatus == "pass"

\* A worker that registers as available is looked up; no clock moves.
HeartbeatStatus == "pass"

\* A browser made to fail its start.
BrowserFailureStatus == "pass"

\* The playback is cancelled and awaited as in the test of cancellation.
InterruptionStatus == CancellationStatus

\* A frame and an exception are both a pass.
RendererStatus == "pass"

TestStatus(scenario) ==
  CASE scenario \in DOMAIN Breaks -> BreakingStatus(scenario)
    [] scenario \in {"agent_failure", "planner_failure"} -> RaisingStatus
    [] scenario = "timeout" -> TimeoutStatus
    [] scenario = "cancellation" -> CancellationStatus
    [] scenario = "verification_failure" -> VerificationFailureStatus
    [] scenario = "inconclusive_verification" -> InconclusiveStatus
    [] scenario = "worker_failure" -> WorkerFailureStatus
    [] scenario = "worker_heartbeat_timeout" -> HeartbeatStatus
    [] scenario = "browser_failure" -> BrowserFailureStatus
    [] scenario = "voice_interruption" -> InterruptionStatus
    [] scenario = "avatar_renderer_failure" -> RendererStatus

Counted(seq, statuses) == Cardinality({i \in DOMAIN seq : seq[i] \in statuses})

ComputeSummary ==
  LET status == [i \in DOMAIN results |-> results[i].status] IN
  [total |-> Len(results),
   pass |-> Counted(status, {"pass"}),
   fail |-> Counted(status, {"fail"}),
   inconclusive |-> Counted(status, {"inconclusive"}),
   not_measured |-> Counted(status, {"not_measured"}),
   not_applicable |-> Counted(status, {"not_applicable"}),
   reliability_pass |-> Counted(tests, {"pass"}),
   reliability_fail |-> Counted(tests, {"fail"}),
   reliability_not_applicable |-> Counted(tests, {"not_measured", "not_applicable"})]

(***************************************************************************)
(* The program.                                                            *)
(***************************************************************************)
Measured == {"language", "routing", "planning", "research", "action", "dispatch", "e2e"}
Uncaught == {"language", "routing", "research", "action"}
NoReport == [run |-> 0, whole |-> FALSE]

EvaluationInit ==
  /\ answers \in [Measured -> {"right", "wrong", "raises"}]
  /\ transcript \in [reference : Transcripts, hypothesis : Transcripts]
  /\ broken = {} /\ stage = "idle" /\ place = 1 /\ results = <<>> /\ tests = <<>>
  /\ finished = <<>> /\ markdown = NoReport /\ json = NoReport /\ loaded = <<>>

fixtures == <<answers, transcript>>
reports == <<markdown, json, loaded>>

\* The environment and everything measured in it belong to one run.
NewEnvironment ==
  /\ broken' = {} /\ results' = <<>> /\ tests' = <<>> /\ place' = 1

StartEvaluation ==
  /\ stage = "idle" /\ Len(finished) < MaxRuns
  /\ NewEnvironment
  /\ stage' = "measure"
  /\ UNCHANGED <<fixtures, finished, reports>>

Ends == Runners[place] \in Uncaught /\ answers[Runners[place]] = "raises"

RunRunner ==
  /\ stage = "measure" /\ ~ Ends
  /\ results' = results \o Report(Runners[place])
  /\ IF place < Len(Runners)
     THEN stage' = stage /\ place' = place + 1
     ELSE stage' = "test" /\ place' = 1
  /\ UNCHANGED <<fixtures, broken, tests, finished, reports>>

RunReliabilityTest ==
  /\ stage = "test"
  /\ tests' = Append(tests, TestStatus(Scenarios[place]))
  /\ broken' = ConfigureForFailure(Scenarios[place])
  /\ IF place < Len(Scenarios)
     THEN stage' = stage /\ place' = place + 1
     ELSE stage' = "summarise" /\ place' = 1
  /\ UNCHANGED <<fixtures, results, finished, reports>>

FinishRun ==
  /\ stage = "summarise"
  /\ finished' =
       Append(finished, [results |-> results, tests |-> tests, summary |-> ComputeSummary])
  /\ stage' = "markdown"
  /\ UNCHANGED <<fixtures, broken, place, results, tests, reports>>

\* write_text empties the file before it writes.
Written(report, whole) == report' = [run |-> Len(finished), whole |-> whole]

WriteMarkdown ==
  /\ \/ stage = "markdown" /\ Written(markdown, FALSE) /\ stage' = "markdown_open"
     \/ stage = "markdown_open" /\ Written(markdown, TRUE) /\ stage' = "json"
  /\ UNCHANGED <<fixtures, broken, place, results, tests, finished, json, loaded>>

\* Mutant: latest.json does not wait for the markdown report.
WriteJsonFirst ==
  /\ \/ stage \in {"markdown", "json"} /\ Written(json, FALSE) /\ stage' = "json_open"
     \/ stage = "json_open" /\ Written(json, TRUE) /\ stage' = "idle"
  /\ UNCHANGED <<fixtures, broken, place, results, tests, finished, markdown, loaded>>

WriteJson ==
  /\ \/ stage = "json" /\ Written(json, FALSE) /\ stage' = "json_open"
     \/ stage = "json_open" /\ Written(json, TRUE) /\ stage' = "idle"
  /\ UNCHANGED <<fixtures, broken, place, results, tests, finished, markdown, loaded>>

\* A provider raises outside any try, or the process is killed.
Abort ==
  /\ stage # "idle"
  /\ stage' = "idle"
  /\ UNCHANGED <<fixtures, broken, place, results, tests, finished, reports>>

\* A missing file, and one that is no complete document, is no previous run.
LoadPreviousRun ==
  /\ loaded' = IF json.whole THEN <<json.run>> ELSE <<>>
  /\ UNCHANGED <<fixtures, broken, stage, place, results, tests, finished, markdown, json>>

EvaluationNext ==
  \/ StartEvaluation \/ RunRunner \/ RunReliabilityTest \/ FinishRun
  \/ WriteMarkdown \/ WriteJson \/ Abort \/ LoadPreviousRun

EvaluationSpec == EvaluationInit /\ [][EvaluationNext]_evaluationVars
(***************************************************************************)
(* Properties.                                                             *)
(***************************************************************************)
\* One word inserted, deleted or replaced.
Without(s, i) == [j \in 1..(Len(s) - 1) |-> IF j < i THEN s[j] ELSE s[j + 1]]
OneEdit(s, t) ==
  \/ Len(s) = Len(t) /\ Cardinality({i \in DOMAIN s : s[i] # t[i]}) = 1
  \/ Len(s) = Len(t) + 1 /\ \E i \in DOMAIN s : Without(s, i) = t
  \/ Len(t) = Len(s) + 1 /\ \E i \in DOMAIN t : Without(t, i) = s

Reached(s) ==
  LET within[k \in 0..(2 * MaxWords)] ==
        IF k = 0 THEN {s}
        ELSE within[k - 1] \cup {t \in Transcripts : \E r \in within[k - 1] : OneEdit(r, t)}
  IN within

\* The word error rate is the least number of words that must be inserted,
\* deleted or replaced to make the hypothesis of the reference, which the
\* dynamic program of compute_wer finds without trying any.
DistanceIsLeast ==
  stage = "measure" /\ place = 2 /\ transcript.reference # <<>> =>
    LET edits == results[1].value[1]
        within == Reached(transcript.reference)
    IN /\ transcript.hypothesis \in within[edits]
       /\ edits > 0 => transcript.hypothesis \notin within[edits - 1]

\* What each runner says of a single fixture survives the headlines that
\* are put before it: the failures of a finished run's summary are at least
\* the wrong answers, the exceptions that were caught, the two error rates
\* of an unequal transcript and the citations, and nothing is left out of
\* the counts.
FailuresAreCounted ==
  \A i \in DOMAIN finished :
    LET summary == finished[i].summary
        wrong == {a \in Measured : answers[a] # "right"} \ {a \in {"dispatch"} : answers[a] = "wrong"}
    IN /\ summary.fail >= 1 + Cardinality(wrong)
                            + IF transcript.reference = transcript.hypothesis THEN 0 ELSE 2
       /\ summary.total =
            summary.pass + summary.fail + summary.inconclusive
              + summary.not_measured + summary.not_applicable

\* Whenever the process is killed, the JSON report is never ahead of the
\* markdown one, a run whose JSON is whole has its markdown whole unless a
\* later run has begun to replace it, and only a whole report is loaded.
ReportsInStep ==
  /\ json.run <= markdown.run
  /\ json.run # 0 /\ json.run = markdown.run => markdown.whole
  /\ \A i \in DOMAIN loaded : loaded[i] \in DOMAIN finished
=============================================================================
