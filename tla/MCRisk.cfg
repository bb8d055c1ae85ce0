SPECIFICATION Spec
CONSTANTS
  Ticker = {t1}
  MaxDate = 2
  Worst = {w1, w2}
  Csv = {c1}
  Reader = {r1}
  Batch = {b1, b2}
  Concurrency = 1
  None = None
SYMMETRY Symmetry
INVARIANTS GradeBacked VerdictAgrees StoryFollows
PROPERTIES PathsPart
