SPECIFICATION FairSpec
CONSTANTS
  NTicker = 2
  NDay = 2
  NCode = 1
  Job = {j1, j2}
  NoJob = none
INVARIANTS
  
  LoadsAsOne
PROPERTIES
  RequestsEnd
  StoreSpec
CHECK_DEADLOCK FALSE
