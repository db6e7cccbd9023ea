SPECIFICATION FairSpec
CONSTANTS
  MaxConns = 2
  TypeOf <- TargetSimple
  PayloadLen <- SimpleAndTarget
  HeaderLen = 2
  LooksSync <- InPayload
INVARIANT TypeOK
INVARIANT ReplacedClientActsOnce
PROPERTY ExecutedInOrder
PROPERTY PollReturns
CHECK_DEADLOCK FALSE
