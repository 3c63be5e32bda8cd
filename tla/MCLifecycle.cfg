\* SCHED_QUEUE_SIZE is 10: room for 5 already suffices.  The main loop may be held up
\* for more than half of the timeout.
CONSTANTS
  AdvTimeout = 10
  SampleInterval = 6
  SchedQueueSize = 5
  FirstDelay = 20
  NextDelay = 5
  MaxUpdates = 3
  MaxLag = 6
SPECIFICATION FairSpec
INVARIANTS OffOnlyIfHeldUp ModesAgree QueueNeverFull LifeInv
PROPERTY ComesBack
