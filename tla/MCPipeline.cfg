SPECIFICATION Spec
CONSTANTS
  Ticker = {t1}
  Index = {vix}
  MaxDate = 2
  Grade = {lo, hi}
  Req = {q1, q2}
  MaxOther = 2
  None = None
SYMMETRY Symmetry
INVARIANTS TypeOK FreshGrades  OwnFile
