SPECIFICATION Spec
CONSTANTS
  User = {u1, u2}
  Token = {t1}
  Req = {r1, r2}
  Job = {j1}
  MaxMsg = 2
  MaxId = 2
  None = None
INVARIANTS ClaimHolds LateBound
PROPERTIES JobReturns FailsOnlyRaced RegistrySpec JobDescends
