CONSTANTS
  Starts <- MCStarts
  Advances <- MCAdvances
  MaxCapsules = 16
  Timings <- MCTimings
  RawScans <- MCRawScans
  Rooms <- MCRooms
  Visits <- MCVisits
  Messages <- MCMessages
  Blocks <- MCBlocks
  Legs <- MCLegs
  Errors <- MCErrors
  Yaws <- MCYaws
  Controls <- MCControls
  MaxPeriods = 80
  Sine <- MCSine
  Cosine <- MCCosine
  MinCluster = 3
  MaxCluster = 4

SPECIFICATION Spec
CHECK_DEADLOCK FALSE
INVARIANT SampleValues
INVARIANT AscendKeepsReadings
INVARIANT TargetIsTheObject
INVARIANT BytesAreChecked
INVARIANT WaypointAhead
INVARIANT SteeringSettles
PROPERTY TurnMarkedOnce
