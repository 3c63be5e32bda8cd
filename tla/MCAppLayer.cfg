CONSTANTS
  Requests <- AllRequests
  QueueCapacity = 2
  TxBuffers = 1
  MaxRequests = 3
  MaxConnections = 2
SPECIFICATION FairSpec
INVARIANTS LastReplyTellsState StatusTrueOnceSwitched AppInv
PROPERTY AnsweredOrExcused
