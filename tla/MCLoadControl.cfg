SPECIFICATION FairControlSpec
CONSTANTS
  N = 2
  InCluster = TRUE
  Bodies <- MCBodies
  Targets <- MCTargets
  Scenarios = {"cms", "smoke", "large_board"}
  Suggested = 50
  MaxOps = 2
  MaxRestarts = 1
 
PROPERTY FollowersCatchUp
CHECK_DEADLOCK FALSE
