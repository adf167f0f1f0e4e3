SPECIFICATION Spec
CONSTANTS
  Kind = "collector"
  p1 = p1
  p2 = p2
  w1 = w1
  w2 = w2
  Processes = {p1, p2}
  Workers = {w1, w2}
  Main = Main
  NoPackage = NoPackage
  Dates <- NoDates
  MaxRegisters = 3
  Edits = {}
  Faults = {}
INVARIANTS
  NoConcurrentRuns
