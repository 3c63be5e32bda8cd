CONSTANTS
  TCL_RESEND_MAX_TIMES = 1
  MaxNumber = 3
  IdRange = 5
  MaxAcks = 2
  TCL_SUB_PACKETS = 2
  BLE_UART_PAYLOAD_MTU = 2
  TCL_RECV_WAIT_MAX_TIMES = 1
  Packets <- MCPackets
SPECIFICATION FairLayerSpec
INVARIANTS OwnPieces SuccessMeansReceived TclInv ReportedIsSent
PROPERTIES WholeIsReported SendingEnds PartEnds
