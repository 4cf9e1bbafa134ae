SPECIFICATION FairSpec
CONSTANTS
  N = 2
  Permits = 1
  QueueLimits = {0, 1}
  RateLimit = 1
  MaxToolRounds = 1
  RequireTool = TRUE
  MaxFlips = 1
  MaxExpiries = 1
  MaxBeats = 1
  MaxGone = 1
INVARIANTS PermitsReturn StreamsEndWhole RunsAreAccounted MarkIsHeard
PROPERTY EveryRequestEnds
