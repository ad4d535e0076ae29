----------------------------- MODULE MCServices -----------------------------
(***************************************************************************)
(* Four programs: the agents of the application, the offline evaluation, a *)
(* distributed worker with its master, and the memory.  They share nothing,*)
(* so a behaviour is one of one of them.  At most one answer of the        *)
(* evaluation is not right, and then its transcript is perfect.            *)
(***************************************************************************)
EXTENDS Agents, Evaluation, DistributedWorker, Memory

VARIABLE program

vars == <<program, agentVars, evaluationVars, workerVars, memoryVars>>

NoAgents ==
  /\ setup = [judge |-> "none", search |-> "none", eyes |-> "none", timed |-> FALSE, ocr |-> FALSE]
  /\ file = NoFile

AllRight == [a \in Measured |-> "right"]
Perfect == [reference |-> <<>>, hypothesis |-> <<>>]
NoEvaluation == answers = AllRight /\ transcript = Perfect

FewWrong ==
  \/ answers = AllRight /\ transcript \in [reference : Transcripts, hypothesis : Transcripts]
  \/ /\ \E a \in Measured, x \in {"wrong", "raises"} : answers = [AllRight EXCEPT ![a] = x]
     /\ transcript = Perfect

NoWorker ==
  /\ sameToken = TRUE
  /\ worker = [stage |-> "down", id |-> CHOOSE i \in Ids : TRUE,
               at |-> CHOOSE e \in Endpoints : TRUE, age |-> 0]

\* A time with and without a fraction, and one given in another zone.
Time(second, fraction, offset) == [second |-> second, fraction |-> fraction, offset |-> offset]
Record(id, time) == [id |-> id, content |-> "a", created |-> time]
MCRecords ==
  {Record(1, Time(2, 0, 0)), Record(1, Time(4, 0, 3)),
   Record(2, Time(2, 5, 0)), Record(2, Time(1, 0, 0)), Record(3, Time(1, 5, 0))}

NoMemory == table = <<>>

Init ==
  /\ program \in {"application", "evaluation", "worker", "memory"}
  /\ program # "application" => NoAgents
  /\ IF program = "evaluation" THEN FewWrong ELSE NoEvaluation
  /\ program # "worker" => NoWorker
  /\ program # "memory" => NoMemory
  /\ AgentsInit /\ EvaluationInit /\ WorkerInit /\ MemoryInit

Next ==
  /\ program' = program
  /\ \/ program = "application" /\ AgentsNext /\ UNCHANGED <<evaluationVars, workerVars, memoryVars>>
     \/ program = "evaluation" /\ EvaluationNext /\ UNCHANGED <<agentVars, workerVars, memoryVars>>
     \/ program = "worker" /\ WorkerNext /\ UNCHANGED <<agentVars, evaluationVars, memoryVars>>
     \/ program = "memory" /\ MemoryNext /\ UNCHANGED <<agentVars, evaluationVars, workerVars>>

Spec == Init /\ [][Next]_vars

\* What the judges may answer is what their result types admit.
ASSUME JudgesAreSound ==
  /\ \A description \in {"task", "other"}, conditions \in SUBSET {"task", "other"},
        phrases \in SUBSET {"task", "other", FailureMarker}, detailed \in BOOLEAN,
        succeeded \in {<<>>, <<TRUE>>, <<FALSE>>} :
       Valid(Verify([description |-> description, conditions |-> conditions],
                    [phrases |-> phrases, detailed |-> detailed, evidence |-> 0,
                     succeeded |-> succeeded]))
  /\ \A n \in 0..7 :
       LET analysis == Predict(n) IN
       /\ Sound(analysis)
       /\ \A i \in DOMAIN analysis.options :
            analysis.options[i].benefit <= analysis.options[analysis.recommended[1]].benefit
  /\ \A context \in BOOLEAN :
       LET analysis == Solve(context) IN
       /\ Candidate(analysis)
       /\ \A i \in DOMAIN analysis.solutions :
            analysis.solutions[i].confidence <= RecommendedSolution(analysis)[1].confidence
  /\ HighestSeverity(Critique) = Critique.overall
=============================================================================
