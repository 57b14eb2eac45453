CONSTANTS
  TopCpu = 1
  MinCycles = 1
  Priorities = {1}
  Counts = {0, 2}
  Micros = {1, 3}
  SafeUsleep = 4
  TimeSpace = 16
  MaxTime = 5
SPECIFICATION FairSpec
INVARIANTS KernelDoesNotOversleep
PROPERTIES NotWokenEarly EverySlotIsReached CountedSleepersWake TimedSleepersWake
