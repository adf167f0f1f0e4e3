\* One start, two instants, one fault of any kind.
CONSTANTS
  c = c
  i = i
  v = v
  w = w
  l = l
  Collectors = {c}
  Interpolators = {i}
  Analyses = {}
  Views = {v, w}
  Alerts = {l}
  Inputs <- MCInputs
  Watches <- MCWatches
  Timed = {c, i}
  Asked = {l}
  Edited = {w}
  Faults = {"crash", "cut", "restart", "split", "together", "database"}
  MaxStarts = 1
  MaxClock = 1
  MaxFaults = 1
SPECIFICATION ChainFairSpec
INVARIANTS
  Accounted
  OnlyAfterSuccess
PROPERTY
  Followed
