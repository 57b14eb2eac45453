CONSTANTS
  v1 = v1  v2 = v2
  Vcpus <- OneVcpu
  MaxNetSd = 1
  MaxHostFd = 2
  Protocols <- Stream
  Limits <- OneLimit
  Second = 2
  MaxTime = 4
SPECIFICATION FairSpec
PROPERTY LimitIsGiven
