\* Growing and shrinking pools, stops in the middle of stops; a smaller pool stops
\* the service for good.
CONSTANTS
  Sizes = {2, 5, 6}
  MaxAtStart = 4
  Nested = {"terminate"}
  MaxMessages = 4
SPECIFICATION FairSpec
CHECK_DEADLOCK FALSE
INVARIANTS
  FinishedMeansEnded
  ThreadsAsWanted
PROPERTY
  StopEnds
