CONSTANTS
  Requests <- DailyRequests
  QueueCapacity = 2
  TxBuffers = 2
  MaxRequests = 2
  MaxConnections = 2
SPECIFICATION FairSpec
PROPERTY WaitEnds
