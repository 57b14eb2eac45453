CONSTANTS
  MaxStack = 3
  CodeSize = 5
  AddrSpace = 6
  HandlerCycle = 8
  Values = {0, 1, 2, 3, 5, 9}
  StackOver = 1
  StackUnder = 2
  OutsideCode = 3
  BadParam = 5
  RetCounts <- AllCounts
  Programs <- AllPrograms
  EntryPoints = {0}
SPECIFICATION HSpec
INVARIANTS ParkedHandlerWaits ParkedIsRunning HandlersAreKept
PROPERTY DiesUnhandled
CHECK_DEADLOCK FALSE
