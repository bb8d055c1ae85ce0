SPECIFICATION Spec
CONSTANTS
  User = {u1, u2}
  Email = {e1}
  Password = {p1, p2}
  Jti = {j1, j2, j3}
  Req = {r1}
  MaxLife = 2
  None = None
SYMMETRY Symmetry
INVARIANTS
  TypeOK
  SessionsMatchPassword
  OneActivePerFamily
  ForkBound
PROPERTIES
  LedgerSpec
