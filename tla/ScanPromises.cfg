CONSTANTS
  Starts = {22537}
  Advances = {511, 513}
  MaxCapsules = 16
  Timings <- MCTimings
  RawScans = {}
  Rooms = {}
  Visits = {}
  Messages = {}
  Blocks = {}
  Legs = {}
  Errors = {}
  Yaws = {}
  Controls = {}
  MaxPeriods = 80
  Sine <- MCSine
  Cosine <- MCCosine
  MinCluster = 3
  MaxCluster = 4

SPECIFICATION Spec
CHECK_DEADLOCK FALSE
PROPERTY ScanAsPromised
