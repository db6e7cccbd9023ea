SPECIFICATION FairSpec
CONSTANTS
  BodyLen = 3
  MaxPackets = 1
  MaxLoss = 1
  QueueCap = 5
  FailLimit = 3
  FailResume = 1
  LooksSync1 = {}
  LooksSync2 = {}
PROPERTY LinkLossIsReported
CHECK_DEADLOCK FALSE
