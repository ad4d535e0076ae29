SPECIFICATION Spec
CONSTANTS
  r1 = r1
  tool = tool
  Agents <- MCAgents
  Declares <- MCDeclares
  Setups <- MCSetups
  Policies <- MCPolicies
  Configs <- MCConfigs
  Executions = {r1}
  Tools = {tool}
  Requirements = {}
  MaxToolCalls = 2
  MaxCalls = 2
  MaxSteps = 1
  Startups = {"s1", "s2"}
  Shutdowns = {"d1", "d2"}
  Kinds = {"text", "blank", "task", "voice"}
INVARIANTS
  BrowserIsHeld
  ShutdownSticks
  AnswerMatchesStatus
CHECK_DEADLOCK FALSE
