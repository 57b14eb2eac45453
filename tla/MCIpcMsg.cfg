SPECIFICATION MCSpec
CONSTANTS
  MaxVcpus = 3
  Groups = {1}
  Denied <- MCDenied
  QueuesAtOnce = 2
  QueueBlocks = 1
  MaxLive = 2
  Modes <- MCModes
  Senders = {0, 1}
  MaxRequests = 2
  MaxStarts = 3
INVARIANTS TypeOK SendersAreAnswerable ListsAreSound NoMessageIsMissed ElementsAddUp
PROPERTIES SendersKnow SendersGoOn Exchanges
CHECK_DEADLOCK FALSE
