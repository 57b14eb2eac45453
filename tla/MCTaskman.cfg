CONSTANTS
  MaxVcpus = 2
  MinCycles = 1
  Images <- TwoImages
  NoImage = NoImage
  Outcomes = {"loaded", "unreadable", "too_large", "no_memory", "bad_code"}
  BlockSizes = {2}
  MaxMemory = 3
  MaxExec = 3
SPECIFICATION Spec
INVARIANTS ProcessesAddUp UsedAreScheduled MemoryAddsUp MarksAreTrue
