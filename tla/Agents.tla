------------------------------- MODULE Agents -------------------------------
(***************************************************************************)
(* The agents the orchestrator hands plan steps to, and the providers they *)
(* delegate to: the judges, the search endpoint, and the screen            *)
(* understanding service with its screenshots, image files and limits.  An *)
(* action is the code between two awaits; the file of an image may change  *)
(* at any time.                                                            *)
(*                                                                         *)
(* A task is its length, whether its first words hold a failure marker,    *)
(* and its image.  An image file or payload is its size in units of which  *)
(* the service admits Limit and ImageInput twice as many.                  *)
(***************************************************************************)
EXTENDS Judges, SequenceFilter

CONSTANTS
  Calls,       \* the calls
  Limit,       \* max_image_bytes of the service
  MaxResults,  \* max_results of the search provider
  MaxItems,    \* a bound on the items of an answer of the search endpoint
  NoFile       \* an image path that is not a readable file

ASSUME AgentsAssumption ==
  /\ Limit \in Nat \ {0}
  /\ MaxResults \in Nat \ {0}
  /\ MaxItems \in Nat
  /\ NoFile \notin Nat

VARIABLES
  setup,   \* the provider each agent was given, and whether vision is timed
  file,    \* what the image path holds
  awaits,   \* what each call awaits
  task,    \* <<its task>>
  result   \* <<what the call returned>>

agentVars == <<setup, file, awaits, task, result>>

Judging == {"verification", "prediction", "critic"}
Sizes == 0..(2 * Limit + 1)
Images ==
  {[by |-> "none"], [by |-> "path"]} \cup [by : {"data"}, size : 1..(2 * Limit)]
Tasks == [length : {"short", "long", "huge"}, marked : BOOLEAN, image : Images]
Setups ==
  [judge : {"none", "fake", "raises"},
   search : {"none", "unconfigured", "http"},
   eyes : {"none", "provider", "service"},
   timed : BOOLEAN,
   ocr : BOOLEAN]

Ok(says) == [success |-> TRUE, says |-> says, sources |-> 0]
Fail(says) == [success |-> FALSE, says |-> says, sources |-> 0]
Found(n) == [success |-> TRUE, says |-> "sources", sources |-> n]

AgentsInit ==
  /\ setup \in Setups
  /\ file \in Sizes \cup {NoFile}
  /\ awaits = [c \in Calls |-> "new"]
  /\ task = [c \in Calls |-> <<>>]
  /\ result = [c \in Calls |-> <<>>]

Return(c, r) ==
  /\ result' = [result EXCEPT ![c] = <<r>>]
  /\ awaits' = [awaits EXCEPT ![c] = "over"]

Await(c, answer) ==
  /\ awaits' = [awaits EXCEPT ![c] = answer]
  /\ UNCHANGED result

(***************************************************************************)
(* The agents that answer without waiting: the coding and the system agent *)
(* describe the task; a judging agent without a provider says so.          *)
(***************************************************************************)
Describe(c) == Return(c, Ok("described"))

\* VerificationAgent: the expectation is the task's description, and so is
\* the observation, cut off after 120 characters.
VerdictOn(t) ==
  Verify([description |-> "task", conditions |-> {}],
         [phrases |-> {p \in {"task", FailureMarker} :
                         IF p = "task" THEN t.length = "short" ELSE t.marked},
          detailed |-> FALSE, evidence |-> 0, succeeded |-> <<>>])

Judgement(agent, t) ==
  CASE agent = "verification" -> VerdictOn(t).status
    [] agent = "prediction" -> IF Predict(0).recommended = <<>> THEN "open" ELSE "decided"
    [] agent = "critic" -> Critique.overall

JudgeTask(c, agent, t) ==
  CASE setup.judge = "none" -> Return(c, Ok("stub"))
    [] setup.judge = "raises" -> Return(c, Fail("raised"))
    [] OTHER -> Return(c, Ok(Judgement(agent, t)))

(***************************************************************************)
(* ResearchAgent over HttpSearchProvider.                                  *)
(***************************************************************************)
Research(c) ==
  CASE setup.search = "none" -> Return(c, Ok("stub"))
    [] setup.search = "unconfigured" -> Return(c, Fail("unconfigured"))
    [] OTHER -> Await(c, "search")

\* What an endpoint puts in its list: a source, something that is none, and
\* a source whose score SearchResult rejects, which fails the whole answer.
Items == {"source", "malformed", "misscored"}

Parsed(items) == Keep(items, {"source"})
Admissible(items) ==
  SubSeq(Parsed(items), 1, IF Len(Parsed(items)) < MaxResults THEN Len(Parsed(items)) ELSE MaxResults)

\* research: the request fails, its payload is no object with a list, or it
\* is parsed; ResearchAgent.execute then reports the failure or the sources.
SearchFails(c) ==
  /\ awaits[c] = "search"
  /\ Return(c, Fail("search"))
  /\ UNCHANGED <<setup, file, task>>

SearchAnswers(c) ==
  /\ awaits[c] = "search"
  /\ \E n \in 0..MaxItems : \E items \in [1..n -> Items] :
       IF \E i \in 1..n : items[i] = "misscored"
       THEN Return(c, Fail("search"))
       ELSE Return(c, Found(Len(Admissible(items))))
  /\ UNCHANGED <<setup, file, task>>

(***************************************************************************)
(* The image of a task or a screenshot.  ImageInput admits bytes up to its *)
(* own limit; a path is not read until the service analyses it.            *)
(***************************************************************************)
ReadImage(image) ==
  CASE image.by = "data" -> image.size
    [] image.by = "path" -> file

\* analyze_image and extract_text: read once, then judge what was read.
Admitted(size) == size # NoFile /\ size # 0 /\ size <= Limit

Refuse(c) == Return(c, Fail("image"))

\* A request's question has at most 4000 characters; the service catches
\* what VisionRequest raises of a longer one, _execute_with_provider does not.
AnalyzeImage(c, image, length) ==
  IF Admitted(ReadImage(image)) /\ length # "huge"
  THEN Await(c, "analyse")
  ELSE Refuse(c)

Look(c, t) ==
  CASE setup.eyes = "none" -> Return(c, Ok("stub"))
    [] setup.eyes # "none" /\ t.image.by = "none" ->
         Return(c, Ok("no image"))
    [] setup.eyes = "service" /\ t.image.by # "none" -> AnalyzeImage(c, t.image, t.length)
    [] setup.eyes = "provider" /\ t.image.by # "none" ->
         IF t.length = "huge"
         THEN Return(c, Fail("escaped"))
         ELSE Await(c, "look")

Begin(c, agent) ==
  /\ awaits[c] = "new"
  /\ \E t \in Tasks :
       /\ task' = [task EXCEPT ![c] = <<t>>]
       /\ CASE agent = "describing" -> Describe(c)
            [] agent \in Judging -> JudgeTask(c, agent, t)
            [] agent = "research" -> Research(c)
            [] agent = "vision" -> Look(c, t)
  /\ UNCHANGED <<setup, file>>

\* understand: a workspace, a screenshot, and its analysis.
Understand(c) ==
  /\ awaits[c] = "new"
  /\ \/ Refuse(c)
     \/ Await(c, "capture")
  /\ UNCHANGED <<setup, file, task>>

\* The screenshot is taken, or the provider raises, or what it returns is no
\* ImageInput, whose error understand does not catch.
Captured(c) ==
  /\ awaits[c] = "capture"
  /\ \/ AnalyzeImage(c, [by |-> "path"], "short")
     \/ Return(c, Fail("screenshot"))
     \/ Return(c, Fail("escaped"))
  /\ UNCHANGED <<setup, file, task>>

ExtractText(c) ==
  /\ awaits[c] = "new"
  /\ \E image \in Images \ {[by |-> "none"]} :
       IF setup.ocr /\ Admitted(ReadImage(image))
       THEN Await(c, "ocr")
       ELSE Refuse(c)
  /\ UNCHANGED <<setup, file, task>>

(***************************************************************************)
(* A provider answers with a result or a failure, or raises: the service   *)
(* and _execute_with_provider turn that into a failure, extract_text does  *)
(* not.  _run_analysis cancels a provider that is late.                    *)
(***************************************************************************)
Sees(c) ==
  /\ awaits[c] \in {"analyse", "look", "ocr"}
  /\ \/ Return(c, Ok("seen"))
     \/ Return(c, Fail("unseen"))
     \/ Return(c, Fail(IF awaits[c] = "ocr" THEN "escaped" ELSE "raised"))
  /\ UNCHANGED <<setup, file, task>>

AnalysisTimesOut(c) ==
  /\ awaits[c] = "analyse" /\ setup.timed
  /\ Return(c, Fail("timeout"))
  /\ UNCHANGED <<setup, file, task>>

\* Some other program writes, empties, removes or replaces the image file.
FileChanges ==
  /\ \E s \in Sizes \cup {NoFile} : file' = s
  /\ UNCHANGED <<setup, awaits, task, result>>

Step(c) ==
  \/ \E agent \in {"describing", "research", "vision"} \cup Judging : Begin(c, agent)
  \/ SearchFails(c) \/ SearchAnswers(c)
  \/ Understand(c) \/ Captured(c) \/ ExtractText(c)
  \/ Sees(c) \/ AnalysisTimesOut(c)

AgentsNext == FileChanges \/ \E c \in Calls : Step(c)

AgentsSpec == AgentsInit /\ [][AgentsNext]_agentVars
=============================================================================
