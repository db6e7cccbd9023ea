SPECIFICATION FairSpec
CONSTANTS
  Cap = 2
  MaxSamples = 4
  NoScan = NoScan
  DEVINFO = DEVINFO
  CONF = CONF
  Types <- TwoTypes
  NoType = NoType
  NoAnswer = NoAnswer
  MaxRequests = 2
  Spurious = FALSE
INVARIANT NoScanAcrossStarts
INVARIANT GrabbedIsOneScan
PROPERTY ImplementsFeed
INVARIANT AnswerIsCurrent
INVARIANT OwnAnswerUnlessLate
PROPERTY CallReturns
