---------------------- MODULE MCProblemSolvingEngine ----------------------
(***************************************************************************)
(* Small instances of ProblemSolvingEngine for TLC: every combination of   *)
(* the optional parts, plans of up to two steps, two questions, two or     *)
(* three iterations.                                                       *)
(***************************************************************************)
EXTENDS ProblemSolvingEngine
=============================================================================
