\* One collector, everything may fail.
CONSTANTS
  p1 = p1
  c1 = c1
  None = None
  Providers = {p1}
  Collectors = {c1}
  Requests = {"start", "status", "stop"}
  Faults = {"log", "crash", "cut"}
  MaxMessages = 4
SPECIFICATION FairSpec
INVARIANTS
  EachIsRead
  TimersFollow
  Synchronised
  NoDeadlyStart
PROPERTY
  ComesInStep
