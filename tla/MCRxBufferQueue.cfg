CONSTANTS
  QueueLength = 8
  MaxWrites = 20
  WellFormed <- MCWellFormed
  Odd <- MCOdd
  Dirty <- MCDirty
  Clean <- MCClean
SPECIFICATION FairSpec
INVARIANTS WholePacket EmptyIsEmpty QueueInv
PROPERTIES InOrder ImplementsFifo EveryWriteIsTaken RefusedByRemains
