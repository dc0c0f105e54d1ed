CONSTANTS
  c1 = c1
  c2 = c2
  Char = {c1, c2}
  None = None
  Idle = TRUE
  Depth = 3
  MaxQueue = 1
  Trouble = {}
SPECIFICATION Spec
INVARIANT TypeOK
INVARIANT RewardOnce
INVARIANT CorpseKeepsClaim
INVARIANT NobodyAbsent
CHECK_DEADLOCK FALSE
PROPERTY GivesUp
PROPERTY Returns
