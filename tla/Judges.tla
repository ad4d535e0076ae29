------------------------------- MODULE Judges -------------------------------
(***************************************************************************)
(* The judges the runtime registers as agents and the evaluation measures, *)
(* the verifier, the predictor and the critic, and the problem solver of   *)
(* the solving engine, as functions of what they are given.  A text is the *)
(* set of phrases it contains; shares and confidences are percentages.     *)
(***************************************************************************)
EXTENDS Integers, Sequences

FailureMarker == "marker"

(***************************************************************************)
(* FakeVerifier.verify.  An expectation is its description and the set of  *)
(* its conditions, an observation the phrases of its description and its   *)
(* observed facts, whether there are such facts, and <<action_succeeded>>. *)
(***************************************************************************)
Looked(expectation) ==
  IF expectation.conditions = {} THEN {expectation.description} ELSE expectation.conditions

VerifyStatus(expectation, observation) ==
  IF observation.succeeded = <<FALSE>> THEN "failed"
  ELSE IF Looked(expectation) \cap observation.phrases # {} THEN "verified"
  ELSE IF FailureMarker \in observation.phrases THEN "failed"
  ELSE "inconclusive"

Sureness == [verified |-> 80, failed |-> 60, inconclusive |-> 40]

Verify(expectation, observation) ==
  LET status == VerifyStatus(expectation, observation) IN
  [status |-> status,
   confidence |-> Sureness[status],
   discrepancy |-> status = "failed",
   evidence |-> observation.evidence + IF observation.detailed THEN 1 ELSE 2]

\* VerificationResult: a verified result carries no discrepancy.
Valid(result) == result.status = "verified" => ~ result.discrepancy

(***************************************************************************)
(* FakePredictor.predict: two predictions, and the request's options in    *)
(* their order or two of its own, of which the first is recommended.       *)
(***************************************************************************)
Benefit(i) == IF 60 - 10 * (i - 1) < 10 THEN 10 ELSE 60 - 10 * (i - 1)

Options(n) ==
  [i \in 1..(IF n = 0 THEN 2 ELSE n) |->
     [benefit |-> Benefit(i),
      risk |-> IF i = 1 THEN "low" ELSE "medium",
      requires |-> IF i = 1 THEN {"analysis"} ELSE {"research"}]]

Predict(n) ==
  [probabilities |-> <<55, 35>>,
   options |-> Options(n),
   recommended |-> <<1>>,
   confidence |-> 40]

\* DecisionAnalysis: a recommendation is one of the candidates.
Sound(analysis) ==
  \A i \in DOMAIN analysis.recommended :
    analysis.recommended[i] \in DOMAIN analysis.options

(***************************************************************************)
(* FakeProblemSolver.solve: two hypotheses, the second supported by the    *)
(* problem's context or by an assumption, and two solutions.               *)
(***************************************************************************)
Hypotheses(context) ==
  <<[confidence |-> 50, evidence |-> "observation"],
    [confidence |-> 30, evidence |-> IF context THEN "observation" ELSE "assumption"]>>

Solutions ==
  <<[confidence |-> 40, risk |-> "low", requires |-> {"research"}],
    [confidence |-> 30, risk |-> "medium", requires |-> {"analysis"}]>>

Solve(context) ==
  [hypotheses |-> Hypotheses(context),
   solutions |-> Solutions,
   recommended |-> <<1>>,
   confidence |-> 30,
   unresolved |-> 2]

\* ProblemAnalysis: a recommendation is one of the candidates.
Candidate(analysis) ==
  \A i \in DOMAIN analysis.recommended :
    analysis.recommended[i] \in DOMAIN analysis.solutions

RecommendedSolution(analysis) ==
  [i \in DOMAIN analysis.recommended |-> analysis.solutions[analysis.recommended[i]]]

(***************************************************************************)
(* FakeCritic.critique and Critique.highest_severity.                      *)
(***************************************************************************)
Critique ==
  [points |-> <<[aspect |-> "weakness", severity |-> "low"],
                [aspect |-> "risk", severity |-> "medium"],
                [aspect |-> "unsupported_assumption", severity |-> "medium"],
                [aspect |-> "missing_evidence", severity |-> "low"],
                [aspect |-> "alternative_explanation", severity |-> "low"]>>,
   overall |-> "medium"]

SeverityRank == [unknown |-> 0, low |-> 1, medium |-> 2, high |-> 3, critical |-> 4]

HighestSeverity(critique) ==
  IF critique.points = <<>>
  THEN critique.overall
  ELSE LET Rank(i) == SeverityRank[critique.points[i].severity]
           worst == CHOOSE i \in DOMAIN critique.points :
                      \A j \in DOMAIN critique.points : Rank(j) <= Rank(i)
       IN critique.points[worst].severity
=============================================================================
