SPECIFICATION ListSpec
CONSTANTS
  User = {u1, u2}
  Ticker = {t1, t2, t3, t4}
  Req = {r1, r2}
  Limit = 2
  None = None
INVARIANT Overshoot
SYMMETRY Symmetry
