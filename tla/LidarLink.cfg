SPECIFICATION FairSpec
CONSTANTS
  Script <- AnswerThenStream
  LooksSync1 <- AnswerSync1
  LooksSync2 <- AnswerSync2
  SizeLen = 1
  Lens = {0, 2}
  Backlog = 2
  MaxLoss = 1
  MaxSessions = 2
INVARIANT TypeOK
PROPERTY MessagesWhole
PROPERTY BytesInOrder
INVARIANT NothingFromBefore
PROPERTY CloseReturns
PROPERTY QueueDrains
CHECK_DEADLOCK FALSE
