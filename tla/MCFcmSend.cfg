SPECIFICATION Spec
CONSTANTS
  Call = {c1, c2}
  Token = {t1, t2}
  Concurrency = 1
  Workers = 2
INVARIANTS ReportTrue SendsBound
PROPERTIES CallReturns PromiseSpec
CHECK_DEADLOCK FALSE
