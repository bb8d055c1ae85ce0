SPECIFICATION Spec
CONSTANTS
  Channel = {email, push}
  History = history
  Writer = {w1, w2}
  Client = {c1}
  Reader = {r1}
  Window = 2
  PageSize = 1
  MaxRow = 3
  MaxTime = 4
SYMMETRY Symmetry
INVARIANTS
  TypeOK
  KeysFollowTime
  StatusShows
  PagesExact
  CountsCover
