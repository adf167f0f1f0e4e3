SPECIFICATION FairSpec
CONSTANTS
  Kind = "analysis"
  p1 = p1
  p2 = p2
  w1 = w1
  w2 = w2
  Processes = {p1, p2}
  Workers = {w1, w2}
  Main = Main
  NoPackage = NoPackage
  Dates <- TwoDates
  MaxRegisters = 3
  Edits = {}
  Faults = {"start"}
INVARIANTS
  WaitingMeansBusy
  BusyMeansInFlight
PROPERTIES
  StopHalts
  DirectIsTaken
