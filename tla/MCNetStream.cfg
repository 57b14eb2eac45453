SPECIFICATION Spec
CONSTANTS
  BufferLen = 1
  MaxResend = 2
  MaxBytes <- MCMaxBytes
  Calls <- MCCalls
  MaxPackets <- MCMaxPackets
  Faults <- Timeouts
INVARIANTS TypeOK BytesAreNotLost EndOfStreamIsTheEnd
CHECK_DEADLOCK FALSE
