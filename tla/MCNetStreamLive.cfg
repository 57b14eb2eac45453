SPECIFICATION FairSpec
CONSTANTS
  BufferLen = 1
  MaxResend = 2
  MaxBytes <- OneByte
  Calls <- OneCalls
  MaxPackets <- OnePacket
  Faults <- MCFaults
PROPERTIES SleepersStayAwaited BytesLeave
CHECK_DEADLOCK FALSE
