----------------------------- MODULE MCRuntime -----------------------------
EXTENDS Runtime
CONSTANTS r1, tool
MCSetups == [engine : {FALSE}, planner : {FALSE}, model : BOOLEAN, security : {TRUE}]
MCPolicies == {[t \in {tool} |-> "allow"]}
MCAgents == <<"system">>
MCDeclares == [a \in {"system"} |-> {}]
MCConfigs == [browser : BOOLEAN, voice : BOOLEAN, fragile : BOOLEAN]
=============================================================================
