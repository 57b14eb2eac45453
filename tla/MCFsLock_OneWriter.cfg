CONSTANTS
  v1 = v1  v2 = v2  f = f  g = g  i1 = i1  i2 = i2
  Vcpus <- TwoVcpus
  MaxFsFd = 2
  Paths <- TwoFiles
  Inodes <- TwoInodes
  Modes <- Write
  MaxHostFd = 4
  OtherWaits = {}
  KillsWaiters = FALSE
SPECIFICATION Spec
INVARIANT OneWriter
