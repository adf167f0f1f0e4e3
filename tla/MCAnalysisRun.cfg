\* Two threads for the packages, everything may fail.
CONSTANTS
  e1 = e1
  e2 = e2
  e3 = e3
  a1 = a1
  a2 = a2
  d1 = d1
  u1 = u1
  None = None
  Runs <- MCRuns
  Analysis <- MCAnalysis
  Date <- MCDate
  Size <- MCSize
  Grids <- MCGrids
  Target <- MCTarget
  PoolSize = 2
  Faults <- FaultKinds
  MaxFaults = 1
SPECIFICATION FairSpec
CHECK_DEADLOCK FALSE
INVARIANTS
  OwnScript
  EachObjectOnce
  NothingTakenAway
  SleepersAreWoken
  ReportIsRight
PROPERTY
  EachFinishes
