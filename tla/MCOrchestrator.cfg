SPECIFICATION OrchSpec
CONSTANTS
  e1 = e1
  e2 = e2
  read = read
  write = write
  Agents <- MCAgents
  Declares <- MCDeclares
  Setups <- MCSetups
  Executions = {e1, e2}
  Tools = {read, write}
  Requirements <- MCRequirements
  Policies <- MCPolicies
  MaxToolCalls = 2
  MaxCalls = 2
  MaxSteps = 2
INVARIANTS
  CallsAreAnswered
CHECK_DEADLOCK FALSE
