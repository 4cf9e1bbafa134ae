SPECIFICATION FairSpec
CONSTANTS
  MaxTarget = 2
  Objects = {u1, u2, u3, u4, u5, u6}
  Calls = {c1, c2}
  NoUser = noUser
  Idle = idle
  MaxCalls = 2
  MaxFlips = 2
INVARIANTS NoUserEscapes RestsAtTarget PauseHolds
PROPERTY RampsEnd
CHECK_DEADLOCK FALSE
