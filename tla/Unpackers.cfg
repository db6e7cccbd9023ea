SPECIFICATION Spec
CONSTANTS
  Plans <- Scans
  CapLen = 3
  Capsules = 4
  Bursts = {1, 2}
  MaxBursts = 2
  MaxGap = 2
INVARIANT TypeOK
PROPERTY PairsAdjacent
INVARIANT Resyncs
CHECK_DEADLOCK FALSE
