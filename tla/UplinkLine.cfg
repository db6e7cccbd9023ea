SPECIFICATION FairSpec
CONSTANTS
  BodyLen = 3
  MaxPackets = 3
  MaxLoss = 2
  QueueCap = 5
  FailLimit = 3
  FailResume = 1
  LooksSync1 <- BodySync1
  LooksSync2 <- BodySync2
INVARIANT TypeOK
PROPERTY StatusesInOrder
PROPERTY SilenceIsReported
PROPERTY StopsOnSignal
CHECK_DEADLOCK FALSE
