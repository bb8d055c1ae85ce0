SPECIFICATION Spec
CONSTANTS
  User = {u1, u2}
  Ticker = {t1, t2}
  MaxDate = 2
  Horizon = {h1}
  Worst <- MCWorst
  Run = {r1}
  MaxMsg = 1
  MaxLoad = 3
  None = None
SYMMETRY Symmetry
INVARIANTS NothingMissed NewsTrue MessageCap
