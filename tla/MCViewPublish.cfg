SPECIFICATION Spec
CONSTANTS
  t = t
  v = v
  c = c
  m = m
  n = n
  red = red
  blue = blue
  Series = {t, v, c, m, n}
  Kind <- MCKind
  Masked = {n}
  Legends = {red, blue}
  None = None
  MaxDates = 2
  MaxEdits = 1
  MaxFaults = 1
CHECK_DEADLOCK FALSE
INVARIANTS
  DoneMeansShown
  RemovedMeansGone
PROPERTIES
  ShownInTheEnd
