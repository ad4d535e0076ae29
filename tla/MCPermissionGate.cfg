SPECIFICATION GateSpec
CONSTANTS
  r1 = r1
  r2 = r2
  NoRequest = NoRequest
  Requests = {r1, r2}
  Profiles <- MCProfiles
  Policies <- MCPolicies
  TTL = 2
  MaxEvents = 2
  Ages = {0, 1}
  MaxTime = 3
  MaxLog = 3
INVARIANT ApprovedInTime
INVARIANT FailsClosed
INVARIANT ConfirmationsAreAudited
