SPECIFICATION Spec
CONSTANTS
  PageSize = 9
  Word = 64
  Bases = {0, 9}
  Requests = {1, 2, 4, 8, 10}
INVARIANTS
  BlocksApart
  LiveBlocksUsed
CHECK_DEADLOCK FALSE
PROPERTY
  KeepsPromise
