SPECIFICATION FairSpec
ACTION_CONSTRAINT Apart
CONSTANTS
  Coord <- Grid
  InitTarget <- Default
  Targets <- SecondTarget
  Poses <- StreamPoses
  Fixes <- OneFix
  Requests <- Angles
  Arrival = 0
  StraightY = 1
  SteerLimit = 2
  MaxSteerDiff = 1
  SeqMod = 2
  NaN = NaN
  NoPacket = NoPacket
INVARIANT TypeOK
INVARIANT AtMostOneStalePacket
INVARIANT AtMostOneLatePacket
PROPERTY StopIsFinal
PROPERTY ImplementsStream
PROPERTY PathFollowsTarget
