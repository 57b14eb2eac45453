CONSTANTS
  Width = 6
  ByteWidth = 3
  Registers = 2
  MaxAlloc = 4
  MaxMemblk = 3
  MemGrow = 2
  Images <- TwoImages
  Code <- Program
  ErrorCode = 7
  MaxSteps = 5
SPECIFICATION Spec
INVARIANTS TypeOK AccessesStayInside
PROPERTIES RaisingLeavesNoTrace ProtectionHolds
CHECK_DEADLOCK FALSE
