--------------------------- MODULE MCOrchestrator ---------------------------
EXTENDS Orchestrator
CONSTANTS e1, e2, read, write
MCAgents == <<"coding", "system">>
MCDeclares == [a \in {"coding", "system"} |-> IF a = "coding" THEN {"code", "files"} ELSE {"files"}]
MCRequirements == {{}, {"code", "files"}, {"web"}}
MCPolicies == {p \in [{read, write} -> Verdicts] : p[read] = "allow"}
MCSetups == {[engine |-> m = "engine", planner |-> m = "planner", model |-> m = "chat",
              security |-> s] : m \in {"engine", "planner", "chat", "sleep"}, s \in BOOLEAN}
=============================================================================
