SPECIFICATION Spec
CONSTANTS
  User = {u1}
  Ticker = {t1, t2}
  MaxDate = 2
  Horizon = {h1}
  Worst <- MCWorst
  Run = {r1}
  MaxMsg = 1
  MaxLoad = 2
  None = None
INVARIANTS GradeShown
