CONSTANTS
  v1 = v1  v2 = v2
  Vcpus <- TwoVcpus
  MaxNetSd = 2
  MaxHostFd = 2
  Protocols <- BothProtocols
  Limits <- OneLimit
  Second = 2
  MaxTime = 2
SPECIFICATION FairSpec
INVARIANTS SocketsAddUp FlagsTellKind
PROPERTIES EventIsSeen ConnectEnds
