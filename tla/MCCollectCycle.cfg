\* One data set, everything may fail.
CONSTANTS
  Files = {1, 2, 3}
  Stamp <- Daily
  Mark <- Evenings
  Dataset <- OneDataset
  Datasets = 1
  Empty = {2}
  Sorted = TRUE
  Custom = FALSE
  Faults <- FaultKinds
  MaxFaults = 3
SPECIFICATION FairSpec
INVARIANTS
  NothingSkipped
  StoredOnce
  DoneMeansAll
  StartMeansRunning
PROPERTY
  EverythingStored
\* A process that is stuck executes nothing any more.
CHECK_DEADLOCK FALSE
