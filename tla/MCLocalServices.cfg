SPECIFICATION FairSpec
CONSTANTS
  Pids = {1, 2, 3, 4, 5}
  Extensions = {x1, x2}
  MaxFaults = 3
ACTION_CONSTRAINT TakeLeast
INVARIANTS
  RecordsTruthful
  StopMeansStopped
  StartedMeansServing
PROPERTIES
  EventuallyServing
