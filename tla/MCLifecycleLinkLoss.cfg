CONSTANTS
  AdvTimeout = 10
  SampleInterval = 6
  SchedQueueSize = 10
  FirstDelay = 20
  NextDelay = 5
  MaxUpdates = 3
  MaxLag = 1
SPECIFICATION Spec
INVARIANT OnlyDisconnects
