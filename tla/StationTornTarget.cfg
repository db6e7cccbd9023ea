SPECIFICATION Spec
CONSTANTS
  Coord <- Grid
  InitTarget <- Default
  Targets <- TornTargets
  Poses <- TornPoses
  Fixes <- None
  Requests <- NoAngle
  Arrival = 0
  StraightY = 1
  SteerLimit = 0
  MaxSteerDiff = 0
  SeqMod = 1
  NaN = NaN
  NoPacket = NoPacket
PROPERTY ArrivalOnCommandedTarget
