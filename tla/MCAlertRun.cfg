SPECIFICATION Spec
CONSTANTS
  o1 = o1
  o2 = o2
  Null = Null
  NoRow = NoRow
  Objects = {o1, o2}
  Results <- MCResults
  Thresholds <- MCThresholds
  Notifications <- MCNotifications
  LastValues = 2
  Faults <- MCFaults
  MaxDates = 3
  MaxRedone = 1
  MaxFaults = 1
CHECK_DEADLOCK FALSE
INVARIANTS
  EachDateTold
  NothingElseTold
PROPERTIES
  DoneMeansTried
