CONSTANTS
  StartTimes <- MCStartTimes
  HaltedSeconds <- MCHaltedSeconds
  PhoneTimes <- MCPhoneTimes
  FloatingBytes = {0, 255}
  MaxSeconds = 3
  MaxCalls = 2
SPECIFICATION Spec
INVARIANT RtcInv
PROPERTIES NeverBehind ExactWithoutCarry SetAsSent
