CONSTANTS
  Second = 2
  Day = 6
  Week = 2
  IntLimit = 20
  Schedules <- MCSchedules
  Never = Never
  MaxEarly = 1
  MaxLate = 1
  MaxTime = 22
SPECIFICATION Spec
INVARIANTS
  NoLater
  
  NoWeekMissed
PROPERTIES
  Spaced
  OnItsDay
